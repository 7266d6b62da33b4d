SPECIFICATION BarSpec
CONSTANTS
    Widths = {4, 7, 10}
    Lengths = {0, 5}
    Times = {0, 3}
    LeftWidth = 2
    SeparatorLength = 1
    Durations = {0, 1, 30}
    Dialogs = {1, 2}
INVARIANT NotOverDialog
