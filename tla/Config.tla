-------------------------------- MODULE Config --------------------------------
(***************************************************************************)
(* How the program is configured before it starts: the command line        *)
(* (Options.cxx), the files (ConfigFile.cxx, ConfigParser.cxx), the        *)
(* environment and the command line once more, then the styles             *)
(* (Styles.cxx, CustomColors.cxx) and the columns of the song table         *)
(* (TableLayout.cxx).  A text is a sequence of words.  A line of a file is  *)
(* a record [name, value]; a line that is longer than the buffer of         *)
(* ReadConfigFile() is several of them (Pieces).                            *)
(***************************************************************************)
EXTENDS Naturals, Integers, Sequences, FiniteSets

CONSTANTS
    CommandLines,   \* what the user may type: sequences of arguments
    Environments,   \* values of MPD_HOST, or Unset
    FileTexts,      \* the contents a file may have: sequences of lines, which are pieces
    FileNames,      \* "user", "system", their "user keys", "system keys", and others
    MaxColumns,     \* the capacity of TableStructure::columns
    ScreenWidths,   \* the widths a window may have
    Terminal,       \* COLORS, or 0 if the terminal has no colors
    Unset,
    NoValue         \* of a line with an error

ASSUME ConfigAssumption == MaxColumns \in Nat \ {0} /\ ScreenWidths \subseteq Nat \ {0} /\ Terminal \in Nat

VARIABLE config

-----------------------------------------------------------------------------
(* Options *)

DefaultScreens == <<"playlist", "browse">>
DefaultTags == <<"artist", "album">>

OptionDefaults ==
    [host |-> Unset, port |-> 0, enable_colors |-> TRUE, config_file |-> Unset, key_file |-> Unset,
     list_wrap |-> FALSE, search_mode |-> 0, current_time_display |-> "elapsed",
     screen_list |-> DefaultScreens, library_page_tags |-> DefaultTags]

\* option_table: the names, and whether they have an argument
OptionTable == [help |-> FALSE, colors |-> FALSE, nocolors |-> FALSE, exit |-> FALSE,
                port |-> TRUE, host |-> TRUE, config |-> TRUE, keyfile |-> TRUE]
FindOption(name) == IF name \in DOMAIN OptionTable THEN name ELSE Unset

\* Words that are numbers
Numbers == [w \in {"-1", "0", "4", "5", "8", "10", "1001", "6600"} |->
              CASE w = "-1" -> -1 [] w = "0" -> 0 [] w = "4" -> 4 [] w = "5" -> 5 [] w = "8" -> 8
                [] w = "10" -> 10 [] w = "1001" -> 1001 [] OTHER -> 6600]
IsNumber(w) == w \in DOMAIN Numbers
Atoi(w) == IF IsNumber(w) THEN Numbers[w] ELSE 0

\* handle_option(), for an option that does not end the program
HandleOption(o, name, arg) ==
    CASE name = "colors" -> [o EXCEPT !.enable_colors = TRUE]
      [] name = "nocolors" -> [o EXCEPT !.enable_colors = FALSE]
      [] name = "port" -> [o EXCEPT !.port = Atoi(arg)]
      [] name = "host" -> [o EXCEPT !.host = arg]
      [] name = "config" -> [o EXCEPT !.config_file = arg]
      [] name = "keyfile" -> [o EXCEPT !.key_file = arg]
      [] OTHER -> o

Fail(c) == [c EXCEPT !.stage = "exit"]
Handled(c, name, arg) ==
    IF name = "help" THEN Fail(c) ELSE [c EXCEPT !.options = HandleOption(@, name, arg), !.option = Unset]

\* The option before has no argument yet.
Awaits(c) == c.option # Unset

LongOption(c, arg) ==
    IF Awaits(c) \/ FindOption(arg.name) = Unset \/ (arg.value # Unset /\ ~OptionTable[arg.name]) THEN Fail(c)
    ELSE IF arg.value # Unset \/ ~OptionTable[arg.name] THEN Handled(c, arg.name, arg.value)
    ELSE [c EXCEPT !.option = arg.name]

\* "-abc": one option after the other
RECURSIVE ShortOptions(_, _)
ShortOptions(c, names) ==
    IF names = <<>> \/ c.stage = "exit" THEN c
    ELSE LET name == Head(names)
         IN  ShortOptions(IF Awaits(c) \/ FindOption(name) = Unset THEN Fail(c)
                          ELSE IF OptionTable[name] THEN [c EXCEPT !.option = name]
                          ELSE Handled(c, name, Unset), Tail(names))

Word(c, word) == IF Awaits(c) THEN Handled(c, c.option, word) ELSE Fail(c)

\* An argument in the loop of options_parse()
ParseArgument(c, arg) ==
    CASE arg.type = "long" -> LongOption(c, arg)
      [] arg.type = "short" -> ShortOptions(c, arg.names)
      [] OTHER -> Word(c, arg.value)

-----------------------------------------------------------------------------
(* Values *)

Str2Bool(v) == v \in {<<"yes">>, <<"true">>, <<"on">>, <<"1">>}
GetNumber(v) == IF v = <<>> THEN 0 ELSE Atoi(v[1])

GetSearchMode(v) ==
    LET names == <<"title", "artist", "album", "filename", "artist+album">>
    IN  IF v = <<>> THEN 0
        ELSE IF Len(v) = 1 /\ IsNumber(v[1]) THEN (IF Atoi(v[1]) \in 0..4 THEN Atoi(v[1]) ELSE NoValue)
        ELSE IF \E i \in DOMAIN names : v = <<names[i]>> THEN (CHOOSE i \in DOMAIN names : v = <<names[i]>>) - 1
        ELSE NoValue

ParseCurrentTimeDisplay(v) == IF v \in {<<"elapsed">>, <<"remaining">>, <<"none">>} THEN v[1] ELSE NoValue

ScreenNames == {"playlist", "browse", "library", "search", "help"}
Tags == {"artist", "album", "title"}

LookupScreen(w) == IF w = "artist" THEN "library" ELSE IF w \in ScreenNames THEN w ELSE NoValue

CheckScreenList(v) ==
    LET names == [i \in DOMAIN v |-> LookupScreen(v[i])]
    IN  IF \E i \in DOMAIN v : names[i] = NoValue THEN NoValue ELSE IF v = <<>> THEN DefaultScreens ELSE names

ParseTagList(v) == IF v = <<>> \/ \E i \in DOMAIN v : v[i] \notin Tags THEN NoValue ELSE v

\* What a line of this name sets
ValueOf(name, v) ==
    CASE name = "host" -> (IF v = <<>> THEN "" ELSE v[1])
      [] name = "port" -> GetNumber(v)
      [] name \in {"enable_colors", "list_wrap"} -> Str2Bool(v)
      [] name = "search_mode" -> GetSearchMode(v)
      [] name = "current_time_display" -> ParseCurrentTimeDisplay(v)
      [] name = "screen_list" -> CheckScreenList(v)
      [] name = "library_page_tags" -> ParseTagList(v)

Settings == {"host", "port", "enable_colors", "list_wrap", "search_mode", "current_time_display", "screen_list",
             "library_page_tags"}

-----------------------------------------------------------------------------
(* Styles *)

Default == 0            \* Style::DEFAULT
ColorNone == -1
ColorInherit == -2
Attributes == {"standout", "underline", "reverse", "blink", "dim", "bold"}
AInherit == Attributes \cup {"all the other bits"}      \* ~attr_t(0)

ColorNames == <<"black", "red", "green", "yellow", "blue", "magenta", "cyan", "white">>
Data(name, inherit, fg, bg, attr) == [name |-> name, inherit |-> inherit, fg |-> fg, bg |-> bg, attr |-> attr]
Bold == {"bold"}

\* styles[], without Style::DEFAULT
Styles ==
    << Data("title", 20, 7, 4, {}),                             Data("title-bold", 1, 3, -2, Bold),
       Data("line", 1, 7, -2, {}),                              Data("line-bold", 3, -2, -2, Bold),
       Data("line-flags", 3, 5, -2, Bold),                      Data("list", 20, 7, -2, {}),
       Data("list-bold", 6, -2, -2, Bold),                      Data("list-alert", 6, 1, -2, Bold),
       Data("list-line", 6, 4, -2, Bold),                       Data("progressbar", 12, 7, -2, Bold),
       Data("progressbar-background", 10, 0, -2, Bold),         Data("status-song", 20, 7, 4, {}),
       Data("status-state", 12, 3, -2, Bold),                   Data("status-time", 13, -2, -2, {}),
       Data("alert", 12, 1, -2, Bold),                          Data("browser-directory", 6, 3, -2, AInherit),
       Data("browser-playlist", 6, 1, -2, AInherit),            Data("input", 20, -1, -2, {}),
       Data("button", 20, 0, 6, {}),                            Data("background", Default, -1, 0, {}) >>
Background == 20

StyleByName(name) ==
    IF \E i \in DOMAIN Styles : Styles[i].name = name THEN CHOOSE i \in DOMAIN Styles : Styles[i].name = name ELSE Unset

ParseColorNameOrNumber(w) ==
    IF \E i \in DOMAIN ColorNames : ColorNames[i] = w THEN (CHOOSE i \in DOMAIN ColorNames : ColorNames[i] = w) - 1
    ELSE IF IsNumber(w) /\ Atoi(w) <= 255 THEN Atoi(w) ELSE -1

IsBackground(w) == ParseColorNameOrNumber(w) >= 0 \/ w = "none"
ParseBackgroundColor(w) == IF w = "none" THEN ColorNone ELSE ParseColorNameOrNumber(w)

\* An item is [bright, left, right]; right is Unset if there is no slash.  The result has
\* a field "ok".
ParseItem(d, item) ==
    LET w == item.left
        c == ParseColorNameOrNumber(w)
        behind == IF item.right = Unset THEN d ELSE [d EXCEPT !.bg = ParseBackgroundColor(item.right)]
        bright == IF item.bright THEN [behind EXCEPT !.attr = @ \cup Bold] ELSE behind
    IN  IF item.right # Unset /\ ~IsBackground(item.right) THEN [data |-> d, ok |-> FALSE]
        ELSE IF item.right # Unset /\ w = "" /\ ~item.bright THEN [data |-> behind, ok |-> TRUE]
        ELSE IF c >= 0 THEN [data |-> [bright EXCEPT !.fg = c], ok |-> TRUE]
        ELSE IF w = "none" THEN [data |-> [bright EXCEPT !.fg = ColorNone], ok |-> TRUE]
        ELSE IF w = "grey" THEN [data |-> [bright EXCEPT !.fg = 0, !.attr = @ \cup Bold], ok |-> TRUE]
        ELSE IF w \in Attributes THEN [data |-> [bright EXCEPT !.attr = @ \cup {w}], ok |-> TRUE]
        ELSE [data |-> bright, ok |-> FALSE]

RECURSIVE ParseStyle(_, _)
ParseStyle(d, items) ==
    IF items = <<>> THEN [data |-> d, ok |-> TRUE]
    ELSE LET r == ParseItem(d, Head(items)) IN IF r.ok THEN ParseStyle(r.data, Tail(items)) ELSE r

\* ModifyStyle(): what was parsed before an error stays.
ModifyStyle(styles, name, items) ==
    LET s == StyleByName(name)
    IN  IF s = Unset THEN [styles |-> styles, ok |-> FALSE]
        ELSE IF s = Background
             THEN LET plain == /\ Len(items) = 1 /\ ~items[1].bright /\ items[1].right = Unset
                               /\ IsBackground(items[1].left)
                  IN  [styles |-> IF plain THEN [styles EXCEPT ![s].bg = ParseBackgroundColor(items[1].left)] ELSE styles,
                       ok |-> plain]
        ELSE LET r == ParseStyle(styles[s], items) IN [styles |-> [styles EXCEPT ![s] = r.data], ok |-> r.ok]

\* Mutant: only the parent is asked.
InheritedOnce(styles, i, field, none) ==
    IF styles[i][field] # none THEN styles[i][field] ELSE styles[styles[i].inherit][field]

\* The loops of colors_update_pair()
RECURSIVE Inherited(_, _, _, _)
Inherited(styles, i, field, none) ==
    IF styles[i][field] # none THEN styles[i][field] ELSE Inherited(styles, styles[i].inherit, field, none)

RECURSIVE UpdatePairs(_, _, _)
UpdatePairs(styles, pairs, i) ==
    IF i > Len(styles) THEN [styles |-> styles, pairs |-> pairs]
    ELSE UpdatePairs([styles EXCEPT ![i].attr = Inherited(styles, i, "attr", AInherit)],
                     Append(pairs, <<Inherited(styles, i, "fg", ColorInherit), Inherited(styles, i, "bg", ColorInherit)>>),
                     i + 1)

\* ApplyCustomColors(): the list is in reverse order.
RECURSIVE ApplyCustomColors(_, _)
ApplyCustomColors(colors, custom) ==
    IF custom = <<>> THEN colors
    ELSE ApplyCustomColors(IF Head(custom).color < Terminal THEN [colors EXCEPT ![Head(custom).color] = Head(custom).rgb]
                           ELSE colors, Tail(custom))

ApplyStyles(c) ==
    LET r == UpdatePairs(c.styles, <<>>, 1)
        custom == [c EXCEPT !.colors = ApplyCustomColors(@, c.custom)]
    IN  IF Terminal = 0 THEN [c EXCEPT !.options.enable_colors = FALSE]
        ELSE IF c.options.enable_colors THEN [custom EXCEPT !.styles = r.styles, !.pairs = r.pairs] ELSE custom

-----------------------------------------------------------------------------
(* The table *)

\* The last value that the attributes of a column give a name
AttributeOf(attributes, name, else) ==
    LET at == {i \in DOMAIN attributes : attributes[i][1] = name}
    IN  IF at = {} THEN else ELSE attributes[CHOOSE i \in at : \A j \in at : j <= i][2]

\* Two quoted texts, the caption and the format, come first.
HasCaptionAndFormat(v) == v.quoted >= 2

\* ParseTableColumn(): two quoted texts, then names and numbers
ParseTableColumn(v) ==
    LET bad == \E i \in DOMAIN v.attributes :
                 LET a == v.attributes[i]
                 IN  \/ a[1] = "min" /\ (~IsNumber(a[2]) \/ Atoi(a[2]) \notin 1..1000)
                     \/ a[1] = "fraction" /\ (~IsNumber(a[2]) \/ Atoi(a[2]) \notin 0..1000)
    IN  IF ~HasCaptionAndFormat(v) \/ bad THEN NoValue
        ELSE [min_width |-> Atoi(AttributeOf(v.attributes, "min", "10")),
              fraction |-> LET f == AttributeOf(v.attributes, "fraction", Unset) IN IF f = Unset THEN 1 ELSE Atoi(f)]

\* lrint(): to the nearest integer, halves to the even one
Lrint(n, d) == LET q == n \div d IN IF 2 * (n % d) > d \/ (2 * (n % d) = d /\ q % 2 = 1) THEN q + 1 ELSE q

\* The columns that fit: their number, their fractions and the room they leave
RECURSIVE Fitting(_, _, _)
Fitting(cols, n, room) ==
    IF n = Len(cols) \/ room < cols[n + 1].min_width THEN [n |-> n, room |-> room]
    ELSE LET left == room - cols[n + 1].min_width
         IN  IF left = 0 THEN [n |-> n + 1, room |-> 0] ELSE Fitting(cols, n + 1, left - 1)

\* From the last column to the first
RECURSIVE Distribute(_, _, _, _)
Distribute(cols, n, room, sum) ==
    IF n = 0 THEN <<>>
    ELSE LET f == cols[n].fraction
             add == IF sum > 0 /\ f > 0 THEN (IF Lrint(room * f, sum) > room THEN room ELSE Lrint(room * f, sum)) ELSE 0
         IN  Append(Distribute(cols, n - 1, room - add, sum - f), cols[n].min_width + add)

RECURSIVE Fractions(_, _)
Fractions(cols, n) == IF n = 0 THEN 0 ELSE cols[n].fraction + Fractions(cols, n - 1)

\* TableLayout::Calculate(): the widths of the columns that are shown
Calculate(cols, width) ==
    IF width <= cols[1].min_width THEN <<width>>
    ELSE LET fit == Fitting(cols, 1, width - cols[1].min_width - 1)
         IN  Distribute(cols, fit.n, fit.room, Fractions(cols, fit.n))

-----------------------------------------------------------------------------
(* Lines of the files *)

\* What each line makes of the configuration; the result has a field "ok".
Failed(c) == [c |-> c, ok |-> FALSE]
Taken(c) == [c |-> c, ok |-> TRUE]

ParseSetting(c, name, v) ==
    IF ValueOf(name, v) = NoValue THEN Failed(c) ELSE Taken([c EXCEPT !.options[name] = ValueOf(name, v)])

ParseColor(c, v) ==
    LET r == ModifyStyle(c.styles, v.style, v.items) IN [c |-> [c EXCEPT !.styles = r.styles], ok |-> r.ok]

\* parse_color_definition(), colors_define(): three numbers
ParseColorDefinition(c, v) ==
    IF ParseColorNameOrNumber(v.color) < 0 \/ Len(v.rgb) # 3 \/ \E i \in DOMAIN v.rgb : ~IsNumber(v.rgb[i]) THEN Failed(c)
    ELSE Taken([c EXCEPT !.custom = <<[color |-> ParseColorNameOrNumber(v.color), rgb |-> v.rgb]>> \o @])

AddTableColumn(c, v) ==
    IF Len(c.columns) = MaxColumns \/ ParseTableColumn(v) = NoValue THEN Failed(c)
    ELSE Taken([c EXCEPT !.columns = Append(@, ParseTableColumn(v))])

\* parse_line(); "key" is left to module Keys.
ParseLine(c, line) ==
    LET v == line.value
    IN  CASE line.name \in Settings -> ParseSetting(c, line.name, v)
          [] line.name = "color" -> ParseColor(c, v)
          [] line.name = "colordef" -> ParseColorDefinition(c, v)
          [] line.name = "song-table-column" -> AddTableColumn(c, v)
          [] line.name \in {"#", "display-time"} -> Taken(c)
          [] OTHER -> Failed(c)         \* unknown, or not a word, or without a value

\* find_config_file(), find_keys_file()
FindFile(given, files, user, system) ==
    IF given # Unset THEN given ELSE IF user \in DOMAIN files THEN user
    ELSE IF system \in DOMAIN files THEN system ELSE Unset

\* ReadConfigFile(): a file that cannot be opened has no lines.
LinesOf(name, files) == IF name \in DOMAIN files THEN files[name] ELSE <<>>

RECURSIVE Pieces(_)
Pieces(lines) == IF lines = <<>> THEN <<>> ELSE Head(lines) \o Pieces(Tail(lines))

-----------------------------------------------------------------------------
Stages == {"first", "config", "keys", "environment", "second", "styles", "run", "exit"}

ConfigInit ==
    \E line \in CommandLines, env \in Environments, files \in FileTexts :
      config = [stage |-> "first", line |-> line, args |-> line, option |-> Unset, environment |-> env, files |-> files,
                read |-> <<>>, options |-> OptionDefaults, styles |-> Styles, custom |-> <<>>,
                colors |-> [i \in 0..Terminal - 1 |-> Unset], pairs |-> <<>>, columns |-> <<>>]

ConfigFile(c) == FindFile(c.options.config_file, c.files, "user", "system")
KeysFile(c) == FindFile(c.options.key_file, c.files, "user keys", "system keys")

\* options_parse(), both times
HandleArgument ==
    /\ config.stage \in {"first", "second"} /\ config.args # <<>>
    /\ config' = ParseArgument([config EXCEPT !.args = Tail(@)], Head(config.args))

EndOfOptions ==
    /\ config.stage \in {"first", "second"} /\ config.args = <<>>
    /\ config' = IF Awaits(config) THEN Fail(config)
                 ELSE IF config.stage = "second" THEN [config EXCEPT !.stage = "styles"]
                 ELSE [config EXCEPT !.stage = "config", !.read = Pieces(LinesOf(ConfigFile(config), config.files))]

\* ReadConfigFile(); an error is printed.
ReadLine ==
    /\ config.stage \in {"config", "keys"} /\ config.read # <<>>
    /\ config' = ParseLine([config EXCEPT !.read = Tail(@)], Head(config.read)).c

EndOfFile ==
    /\ config.stage \in {"config", "keys"} /\ config.read = <<>>
    /\ config' = IF config.stage = "keys" THEN [config EXCEPT !.stage = "environment"]
                 ELSE [config EXCEPT !.stage = "keys", !.read = Pieces(LinesOf(KeysFile(config), config.files))]

\* options_env(); then the command line is parsed once more.
OptionsEnv ==
    /\ config.stage = "environment"
    /\ config' = [config EXCEPT !.stage = "second", !.args = config.line,
                                !.options.host = IF config.environment # Unset THEN config.environment ELSE @]

\* ScopeCursesInit
InitCurses == config.stage = "styles" /\ config' = [ApplyStyles(config) EXCEPT !.stage = "run"]

\* The program runs, or has ended with an error.
Configured == config.stage \in {"run", "exit"} /\ UNCHANGED config

ConfigNext ==
    HandleArgument \/ EndOfOptions \/ ReadLine \/ EndOfFile \/ OptionsEnv \/ InitCurses \/ Configured

ConfigSpec == ConfigInit /\ [][ConfigNext]_config

-----------------------------------------------------------------------------
(* Properties *)

IsStyle(d) == /\ d.name \in STRING /\ d.inherit \in 0..Len(Styles)
              /\ d.fg \in -2..255 /\ d.bg \in -2..255 /\ d.attr \subseteq AInherit

\* Options, styles and columns are within the ranges which the rest of the program takes for granted.
ConfigTypeOK ==
    /\ config.stage \in Stages
    /\ config.options.search_mode \in 0..4 /\ config.options.current_time_display \in {"elapsed", "remaining", "none"}
    /\ config.options.screen_list \in Seq(ScreenNames) /\ config.options.screen_list # <<>>
    /\ config.options.library_page_tags \in Seq(Tags) /\ config.options.library_page_tags # <<>>
    /\ config.options.enable_colors \in BOOLEAN /\ config.options.list_wrap \in BOOLEAN /\ config.options.port \in Int
    /\ \A i \in DOMAIN config.styles : IsStyle(config.styles[i])
    /\ Len(config.columns) <= MaxColumns
    /\ \A i \in DOMAIN config.columns : config.columns[i].min_width \in 1..1000 /\ config.columns[i].fraction \in 0..1000

\* What the command line says of an option: the places at which it has a value, and the value.
Ends(arg, name) == \/ arg.type = "long" /\ arg.name = name /\ arg.value = Unset
                   \/ arg.type = "short" /\ arg.names # <<>> /\ arg.names[Len(arg.names)] = name
Mentions(arg, name) == \/ arg.type = "long" /\ arg.name = name
                       \/ arg.type = "short" /\ \E i \in DOMAIN arg.names : arg.names[i] = name

GivenValue(line, name, i) ==
    IF line[i].type = "long" /\ line[i].name = name /\ line[i].value # Unset THEN line[i].value
    ELSE IF Ends(line[i], name) /\ i < Len(line) /\ line[i + 1].type = "word" THEN line[i + 1].value ELSE Unset

LastGiven(line, name) ==
    LET at == {i \in DOMAIN line : GivenValue(line, name, i) # Unset}
    IN  IF at = {} THEN Unset ELSE GivenValue(line, name, CHOOSE i \in at : \A j \in at : j <= i)

\* The lines of the two files that are meant: the one that was given, else the user's, else the system's
ChosenFile(given, files, user, system) ==
    CHOOSE f \in {given, user, system} :
      \/ given # Unset /\ f = given
      \/ given = Unset /\ f = user /\ user \in DOMAIN files
      \/ given = Unset /\ f = system /\ user \notin DOMAIN files

LinesRead(c) ==
    Pieces(LinesOf(ChosenFile(LastGiven(c.line, "config"), c.files, "user", "system"), c.files))
    \o Pieces(LinesOf(ChosenFile(LastGiven(c.line, "keyfile"), c.files, "user keys", "system keys"), c.files))

LastSet(lines, name) ==
    LET good == {i \in DOMAIN lines : lines[i].name = name /\ ValueOf(name, lines[i].value) # NoValue}
    IN  IF good = {} THEN OptionDefaults[name] ELSE ValueOf(name, lines[CHOOSE i \in good : \A j \in good : j <= i].value)

ColorsMentioned(line) == {i \in DOMAIN line : Mentions(line[i], "colors") \/ Mentions(line[i], "nocolors")}

\* Every option has the value of the place that comes first in: command line, environment,
\* files, defaults; of several places the last (Main.cxx, main(): "2 pass").  Options with
\* errors and lines with errors do not count.
OptionsTaken ==
    config.stage = "run" =>
      LET o == config.options
          lines == LinesRead(config)
          host == LastGiven(config.line, "host")
          port == LastGiven(config.line, "port")
      IN  /\ o.host = IF host # Unset THEN host
                      ELSE IF config.environment # Unset THEN config.environment ELSE LastSet(lines, "host")
          /\ o.port = IF port # Unset THEN Atoi(port) ELSE LastSet(lines, "port")
          /\ \A name \in Settings \ {"host", "port", "enable_colors"} : o[name] = LastSet(lines, name)
          /\ Terminal # 0 /\ ColorsMentioned(config.line) = {} => o.enable_colors = LastSet(lines, "enable_colors")

\* The colors and attributes that are shown are no longer to be inherited, whatever was configured.
StylesResolved ==
    config.stage = "run" /\ config.options.enable_colors =>
      \A i \in DOMAIN Styles :
        config.pairs[i][1] # ColorInherit /\ config.pairs[i][2] # ColorInherit /\ config.styles[i].attr # AInherit

RECURSIVE SumOf(_)
SumOf(s) == IF s = <<>> THEN 0 ELSE Head(s) + SumOf(Tail(s))

\* The columns and the lines between them fit into the window; if a column may grow, at most
\* one place is left over.  No column but the only one is narrower than it was configured.
TableFits ==
    config.stage = "run" /\ config.columns # <<>> =>
      \A width \in ScreenWidths :
        LET t == Calculate(config.columns, width)
            used == SumOf(t) + Len(t) - 1
        IN  /\ used <= width /\ Len(t) >= 1
            /\ Fractions(config.columns, Len(t)) > 0 => used >= width - 1
            /\ Len(t) > 1 => \A i \in DOMAIN t : t[i] >= config.columns[i].min_width

\* "Set the text color and attributes" (index.rst): an attribute that was configured is shown.
AttributesShown ==
    config.stage = "run" /\ config.options.enable_colors =>
      \A n \in DOMAIN LinesRead(config) :
        LET line == LinesRead(config)[n]
        IN  line.name = "color" /\ ModifyStyle(Styles, line.value.style, line.value.items).ok /\ line.value.style # "background" =>
              \A k \in DOMAIN line.value.items :
                line.value.items[k].left \in Attributes =>
                  line.value.items[k].left \in config.styles[StyleByName(line.value.style)].attr

\* What the program runs with is what it was told, by whoever comes first, and can be shown.
ConfigurationTaken == ConfigTypeOK /\ OptionsTaken /\ StylesResolved /\ TableFits
=============================================================================
