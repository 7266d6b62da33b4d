------------------------------ MODULE MCInterface ------------------------------
(***************************************************************************)
(* Instances of what the user sees and types, and of the containers of the *)
(* event loop, for TLC.  The components do not share state: one run checks *)
(* them side by side, "moving" is the one that takes the steps and the     *)
(* others rest.                                                            *)
(***************************************************************************)
EXTENDS ListWindow, ScreenManager, TextInput, Keys, Config, TreeSet, IntrusiveList, TLC

CONSTANTS
    queue, song, library, artists, albums, f1, f2,  \* pages and coroutines
    narrow, wide,                                   \* a narrow and a wide character
    up, down,                                       \* commands
    h1, h2,                                         \* hosts
    i1, i2, i3, i4, i5, i6, i7, i8                  \* timers

TextOrder == narrow :> 1 @@ wide :> 2
TextSamples == {<<narrow>>, <<narrow, narrow>>, <<narrow, wide>>}

KeyCommands == <<up, down>>
KeyDefaults == up :> <<225>> @@ down :> <<266>>
WrittenKeys == {<<>>, up :> <<266, 225>>}

\* three pairs of timers that are due together
ItemKeys == i1 :> 1 @@ i2 :> 1 @@ i3 :> 2 @@ i4 :> 3 @@ i5 :> 3 @@ i6 :> 4 @@ i7 :> 5 @@ i8 :> 5

-----------------------------------------------------------------------------
(* Command lines *)

Long(n, v) == [type |-> "long", name |-> n, value |-> v]
Short(ns) == [type |-> "short", names |-> ns]
Typed(word) == [type |-> "word", value |-> word]
ConfigCommandLines ==
    { <<>>, <<Long("host", h2)>>, <<Short(<<"colors", "host">>), Typed(h2), Long("config", "given")>>,
      <<Long("keyfile", Unset), Typed("given"), Short(<<"nocolors">>), Long("port", "10"), Long("port", "6600")>>,
      <<Short(<<"host", "port">>), Typed("10")>>, <<Long("colors", "8")>>, <<Short(<<"colors">>), Typed(h2)>>, <<Long("port", Unset)>> }

(* Files *)

Set(n, v) == <<[name |-> n, value |-> v]>>
Colored(style, colors) == [name |-> "color", value |-> [style |-> style, items |-> colors]]
Item(l, r) == [bright |-> FALSE, left |-> l, right |-> r]
Bright(l) == [bright |-> TRUE, left |-> l, right |-> Unset]
TableColumn(quoted, attributes) ==
    <<[name |-> "song-table-column", value |-> [quoted |-> quoted, attributes |-> attributes]]>>

Text1 == << Set("host", <<h1>>), Set("screen_list", <<"artist", "help">>), Set("library_page_tags", <<"title">>),
            Set("library_page_tags", <<"title", "5">>), Set("search_mode", <<"5">>), Set("search_mode", <<"album">>),
            <<Colored("title", <<Item("red", "blue"), Item("bold", Unset)>>)>>,
            <<Colored("list", <<Item("", "8"), Item("blink", Unset), Item("none", Unset)>>)>>,
            TableColumn(2, << <<"min", "4">>, <<"fraction", "5">> >>), TableColumn(2, << <<"min", "4">> >>),
            TableColumn(1, <<>>), TableColumn(2, << <<"fraction", "0">> >>), TableColumn(2, << <<"fraction", "4">> >>) >>
Text2 == << Set("port", <<"6600">>), Set("screen_list", <<"5">>), Set("current_time_display", <<"none">>),
            <<[name |-> "#", value |-> <<>>], [name |-> "list_wrap", value |-> <<"on">>]>>, Set("enable_colors", <<"maybe">>),
            Set("timeout", <<>>), TableColumn(2, << <<"min", "0">> >>),
            TableColumn(2, << <<"min", "10">>, <<"fraction", "4">> >>), TableColumn(2, << <<"min", "5">>, <<"fraction", "4">> >>),
            TableColumn(2, << <<"min", "5">>, <<"fraction", "10">> >>) >>
Text3 == << Set("host", <<>>), Set("library_page_tags", <<>>), Set("list_wrap", <<"yes">>), Set("screen_list", <<>>),
            <<Colored("background", <<Item("none", Unset)>>)>>, <<Colored("line-bold", <<Bright("red"), Item("odd", Unset)>>)>>,
            <<Colored("alert", <<Item("grey", "none"), Bright("blue")>>)>>,
            <<[name |-> "colordef", value |-> [color |-> "red", rgb |-> <<"10", "10", "10">>]]>>,
            <<[name |-> "colordef", value |-> [color |-> "red", rgb |-> <<"10", "10">>]]>> >>
ConfigTexts ==
    { <<>>, "user" :> Text1, "system" :> Text1 @@ "user" :> Text2, "system" :> Text3 @@ "system keys" :> Text2,
      "given" :> Text3 @@ "user" :> Text1 @@ "user keys" :> Text2, "user" :> Text3 @@ "system keys" :> Text1 }
ConfigFileNames == {"user", "system", "user keys", "system keys", "given"}
-----------------------------------------------------------------------------
VARIABLE moving

Components == {"list", "screen", "input", "keys", "config", "tree", "ring"}

\* A component that rests has one initial state.
InterfaceInit ==
    /\ moving \in Components
    /\ Init /\ ScreenInit /\ TextInit /\ KeysInit /\ ConfigInit /\ TreeInit /\ RingInit
    /\ moving # "list" => options = [scroll_offset |-> 0, list_wrap |-> FALSE, page |-> "list"] /\ lw.height = 0
    /\ moving # "screen" => screen.window = 1
    /\ moving # "input" => input.width = FieldWidth(4)
    /\ moving # "keys" => keyed.file = <<>>
    /\ moving # "config" => config.line = <<>> /\ config.environment = Unset /\ config.files = <<>>

InterfaceNext ==
    /\ UNCHANGED moving
    /\ \/ moving = "list" /\ Next /\ UNCHANGED <<screen, input, keyed, config, tree, ring>>
       \/ moving = "screen" /\ ScreenNext /\ UNCHANGED <<options, sized, lw, input, keyed, config, tree, ring>>
       \/ moving = "input" /\ TextNext /\ UNCHANGED <<options, sized, lw, screen, keyed, config, tree, ring>>
       \/ moving = "keys" /\ KeysNext /\ UNCHANGED <<options, sized, lw, screen, input, config, tree, ring>>
       \/ moving = "config" /\ ConfigNext /\ UNCHANGED <<options, sized, lw, screen, input, keyed, tree, ring>>
       \/ moving = "tree" /\ TreeNext /\ UNCHANGED <<options, sized, lw, screen, input, keyed, config, ring>>
       \/ moving = "ring" /\ RingNext /\ UNCHANGED <<options, sized, lw, screen, input, keyed, config, tree>>

InterfaceSpec == InterfaceInit /\ [][InterfaceNext]_<<moving, options, sized, lw, screen, input, keyed, config, tree, ring>>

\* The containers of the event loop: trees and rings of pointers that are sorted lists and
\* sequences, after any operations.
ContainersKept == TreeKept /\ RingsKept
=============================================================================
