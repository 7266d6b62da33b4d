--------------------------------- MODULE Keys ---------------------------------
(***************************************************************************)
(* The key bindings (Bindings.cxx), the page on which they are changed     *)
(* (KeyDefPage.cxx), and the file they are written to and read from when   *)
(* the program starts (KeyName.cxx, ConfigParser.cxx).                     *)
(***************************************************************************)
EXTENDS Naturals, Integers, Sequences, FiniteSets

CONSTANTS
    CommandSeq,     \* the commands, in their order
    Keys,           \* key codes the user may press, without 0
    Defaults,       \* Defaults[command] is a sequence of keys
    MaxKeys,        \* MAX_COMMAND_KEYS
    KeyFiles,       \* what the user may have written into the file: commands' keys
    Meta,           \* does curses say "M-x" for keys with the eighth bit?
    Remote,         \* may commands come from LIRC while a dialog is open?
    NoKeys          \* no bindings, no file, no dialog

Commands == {CommandSeq[i] : i \in DOMAIN CommandSeq}

ASSUME KeysAssumption ==
    /\ Keys \subseteq 1..511 /\ MaxKeys \in Nat \ {0} /\ Meta \in BOOLEAN /\ Remote \in BOOLEAN
    /\ CommandSeq \in Seq(Commands) /\ "list" \notin Commands
    /\ \A c \in Commands : Defaults[c] \in Seq(Keys) /\ Len(Defaults[c]) <= MaxKeys
    /\ \A written \in KeyFiles :
          /\ DOMAIN written \subseteq Commands
          /\ \A c \in DOMAIN written : written[c] \in Seq(Keys)

VARIABLE keyed

Slots == 1..MaxKeys
Binding == [keys : [Slots -> Keys \cup {0}], modified : BOOLEAN]
Bindings == [Commands -> Binding]

ASSUME NoKeysAssumption == NoKeys \notin Commands /\ NoKeys # "list" /\ NoKeys \notin Slots /\ NoKeys \notin Bindings

Padded(s) == [i \in Slots |-> IF i <= Len(s) THEN s[i] ELSE 0]

-----------------------------------------------------------------------------
(* Names of keys: a prefix and a number, which is a character, or for function keys *)
(* and other keys their number. *)

KeyF0 == 264

IsFKey(k) == k \in KeyF0..KeyF0 + 63
IsAlphaNumeric(k) == k \in 48..57 \cup 65..90 \cup 97..122

\* curses' keyname(): "^X", "M-X" or something else
CtrlOf(k) == IF k < 32 THEN k + 64 ELSE IF k = 127 THEN 63 ELSE 0
AltOf(k) == IF Meta /\ k \in 160..254 THEN k - 128 ELSE 0

GetKeyName(k) ==
    IF IsFKey(k) THEN <<"F", k - KeyF0>>
    ELSE IF CtrlOf(k) # 0 THEN <<"Ctrl-", CtrlOf(k)>>
    ELSE IF AltOf(k) # 0 THEN <<"Alt-", AltOf(k)>>
    ELSE IF IsAlphaNumeric(k) THEN <<"'", k>> ELSE <<"", k>>

ParseKeyName(name) ==
    LET n == name[2]
    IN  CASE name[1] = "'" -> n
          [] name[1] = "F" -> IF n >= 64 THEN -1 ELSE KeyF0 + n
          [] name[1] = "Ctrl-" -> IF n >= 64 /\ n < 96 THEN n - 64 ELSE -1
          [] name[1] = "Alt-" -> IF n >= 64 /\ n < 128 THEN 192 + (n - 64) ELSE -1
          [] OTHER -> n

-----------------------------------------------------------------------------
(* Bindings *)

HasKey(b, k) == \E i \in Slots : b.keys[i] = k
GetKeyCount(b) == IF HasKey(b, 0) THEN (CHOOSE i \in Slots : b.keys[i] = 0 /\ \A j \in 1..i - 1 : b.keys[j] # 0) - 1 ELSE MaxKeys

\* The first command that has the key
FindKey(bs, k) ==
    LET having == {i \in DOMAIN CommandSeq : HasKey(bs[CommandSeq[i]], k)}
    IN  IF having = {} THEN NoKeys ELSE CommandSeq[CHOOSE i \in having : \A j \in having : i <= j]

FirstKeys(b) == SubSeq(b.keys, 1, GetKeyCount(b))

HasConflict(bs, c) == \E i \in 1..GetKeyCount(bs[c]) : FindKey(bs, bs[c].keys[i]) # c

\* KeyBindings::Check(): is every key of a command its own?
Check(bs) == \A c \in Commands : ~HasConflict(bs, c)

\* KeyBindings::WriteToFile(): a line for every command that was modified
WriteToFile(bs) ==
    [c \in {c \in Commands : bs[c].modified} |-> [i \in 1..GetKeyCount(bs[c]) |-> GetKeyName(bs[c].keys[i])]]

\* parse_key_definition(), ReadConfigFile(): a line with a malformed key is skipped.
ParseFile(file) ==
    [c \in Commands |->
       IF c \in DOMAIN file /\ \A i \in DOMAIN file[c] \cap Slots : ParseKeyName(file[c][i]) # -1
       THEN [keys |-> Padded([i \in DOMAIN file[c] |-> ParseKeyName(file[c][i])]), modified |-> TRUE]
       ELSE [keys |-> Padded(Defaults[c]), modified |-> FALSE]]

-----------------------------------------------------------------------------
KeyNames == {"F", "Ctrl-", "Alt-", "'", ""} \X (0..511)

\* What the file says: sequences of names for some of the commands
IsFile(file) ==
    /\ DOMAIN file \subseteq Commands
    /\ \A c \in DOMAIN file : file[c] \in Seq(KeyNames)

Keyed(files) ==
    [global : Bindings,                          \* what is used
     checking : BOOLEAN,                         \* Instance::check_key_bindings_timer
     bindings : Bindings \cup {NoKeys},          \* CommandListPage::bindings
     page : Commands \cup {"list", NoKeys},      \* the page with a command's keys; the list; closed
     last : Commands \cup {"list"},              \* the page that comes back when the page is opened
     listed : SUBSET Commands,                   \* the commands marked with a conflict
     marked : SUBSET Slots,                      \* the keys marked with a conflict
     count : 0..MaxKeys,                         \* CommandKeysPage::n_keys
     cursor : 0..MaxKeys + 1,                    \* ... and its cursor
     asking : Slots \cup {NoKeys},               \* the slot which the dialog is for
     file : files]                               \* what is on the disk

\* A command's page lists "[..]", its keys, each with a mark if it has a conflict, and "Add new
\* key" if there is room for one.
LeavePosition == 0
AddPosition(count) == count + 1
LastPosition(count) == IF count < MaxKeys THEN AddPosition(count) ELSE count
IsKeyPosition(s, i) == i > LeavePosition /\ i < AddPosition(s.count)
KeyRows(s) == [i \in 1..s.count |-> [key |-> s.bindings[s.page].keys[i], alert |-> i \in s.marked]]

\* CommandKeysPage::UpdateListLength(), with CheckConflicts()
UpdateListLength(s, c) ==
    LET b == s.bindings[c]
        last == LastPosition(GetKeyCount(b))
    IN  [s EXCEPT !.count = GetKeyCount(b), !.cursor = IF @ > last THEN last ELSE @,
                  !.marked = {i \in 1..GetKeyCount(b) : FindKey(s.bindings, b.keys[i]) # c}]

\* CommandListPage::OnOpen()
OpenList(s) ==
    LET bs == IF s.bindings = NoKeys THEN s.global ELSE s.bindings
    IN  [s EXCEPT !.page = "list", !.last = "list", !.bindings = bs, !.asking = NoKeys, !.count = 0, !.marked = {}, !.cursor = 0,
                  !.listed = {c \in Commands : HasConflict(bs, c)}]

Start(file) ==
    [global |-> ParseFile(file), checking |-> TRUE, bindings |-> NoKeys, page |-> NoKeys, last |-> "list", listed |-> {},
     marked |-> {}, count |-> 0, cursor |-> 0, asking |-> NoKeys, file |-> file]

KeysInit ==
    \E written \in KeyFiles :
      keyed = Start([c \in DOMAIN written |-> [i \in DOMAIN written[c] |-> GetKeyName(written[c][i])]])

OpenKeys == keyed.page = NoKeys /\ keyed' = IF keyed.last = "list" THEN OpenList(keyed) ELSE [keyed EXCEPT !.page = keyed.last]
CloseKeys == keyed.page # NoKeys /\ keyed' = [keyed EXCEPT !.page = NoKeys, !.asking = NoKeys]

\* Keys go to the dialog, if there is one.
Commanded == Remote \/ keyed.asking = NoKeys

\* PLAY on a command
EditCommand ==
    /\ Commanded /\ keyed.page = "list"
    /\ \E c \in Commands : keyed' = UpdateListLength([keyed EXCEPT !.page = c, !.last = c], c)

MoveToKey ==
    /\ Commanded /\ keyed.page \in Commands
    /\ \E i \in 0..LastPosition(keyed.count) : keyed' = [keyed EXCEPT !.cursor = i]

\* GO_PARENT_DIRECTORY, GO_ROOT_DIRECTORY, PLAY on "[..]", wherever the cursor is
GoBackToList == Commanded /\ keyed.page \in Commands /\ keyed' = OpenList(keyed)

\* DELETE: the keys after it move up, until there is a slot without a key.
DeleteKey ==
    /\ Commanded /\ keyed.page \in Commands /\ IsKeyPosition(keyed, keyed.cursor)
    /\ LET c == keyed.page
           i == keyed.cursor
           old == keyed.bindings[c].keys
           last == CHOOSE j \in i..MaxKeys : /\ j = MaxKeys \/ old[j + 1] = 0
                                             /\ \A n \in i + 1..j : old[n] # 0
           new == [j \in Slots |-> IF j >= i /\ j < last THEN old[j + 1] ELSE IF j = last THEN 0 ELSE old[j]]
       IN  keyed' = UpdateListLength([keyed EXCEPT !.bindings[c] = [keys |-> new, modified |-> TRUE]], c)

\* PLAY on a key: a dialog asks for the one that takes its place.  (What a second dialog does
\* is in ScreenManager.)
ChangeKey ==
    /\ keyed.asking = NoKeys /\ keyed.page \in Commands /\ IsKeyPosition(keyed, keyed.cursor)
    /\ keyed' = [keyed EXCEPT !.asking = keyed.cursor]

\* ADD, PLAY on "Add new key"
AddKey ==
    /\ keyed.asking = NoKeys /\ keyed.page \in Commands /\ keyed.count < MaxKeys
    /\ keyed' = [keyed EXCEPT !.asking = keyed.count + 1]

\* Mutant: the command is not marked as modified, so the key is not saved.
OverwriteKeyQuietly ==
    /\ keyed.asking # NoKeys
    /\ LET c == keyed.page
       IN  \E k \in Keys :
             keyed' = IF FindKey(keyed.bindings, k) # NoKeys THEN [keyed EXCEPT !.asking = NoKeys]
                      ELSE UpdateListLength(
                             [keyed EXCEPT !.asking = NoKeys, !.bindings[c].keys[keyed.asking] = k], c)

\* OverwriteKey(), once a key was pressed (or the dialog was cancelled)
OverwriteKey ==
    /\ keyed.asking # NoKeys
    /\ LET c == keyed.page
       IN  \/ keyed' = [keyed EXCEPT !.asking = NoKeys]
           \/ \E k \in Keys :
                /\ FindKey(keyed.bindings, k) = NoKeys
                /\ keyed' = UpdateListLength(
                     [keyed EXCEPT !.asking = NoKeys,
                                   !.bindings[c] = [keys |-> [@.keys EXCEPT ![keyed.asking] = k], modified |-> TRUE]], c)

\* CommandListPage::Apply()
Applied(s) == IF s.bindings = s.global THEN s ELSE [s EXCEPT !.global = s.bindings]

\* CommandListPage::Save(), unless the file cannot be opened
Saved(s) == [s EXCEPT !.file = WriteToFile(s.global)]

Apply == Commanded /\ keyed.page = "list" /\ keyed' = Applied(keyed)
Save == Commanded /\ keyed.page # NoKeys /\ keyed' \in {Saved(Applied(keyed)), Applied(keyed)}

\* Ten seconds after the program was started, and again until there are no conflicts
OnCheckKeyBindings == keyed.checking /\ keyed' = [keyed EXCEPT !.checking = ~Check(keyed.global)]

\* The program ends, in whatever state it is, and starts again.
Restart == keyed' = Start(keyed.file)

KeysNext ==
    \/ OpenKeys \/ CloseKeys \/ EditCommand \/ MoveToKey \/ GoBackToList \/ DeleteKey \/ ChangeKey
    \/ AddKey \/ OverwriteKey \/ Apply \/ Save \/ OnCheckKeyBindings \/ Restart

KeysSpec == KeysInit /\ [][KeysNext]_keyed

-----------------------------------------------------------------------------
(* Properties *)

\* Types; no command has more keys than its array has slots.
KeysTypeOK == keyed \in Keyed({keyed.file}) /\ IsFile(keyed.file)

Current == IF keyed.bindings = NoKeys THEN keyed.global ELSE keyed.bindings

\* The page makes no new conflicts: a key that two commands have was so in the file.
NoNewConflict ==
    [][Current' # Current => \A c, d \in Commands : \A k \in Keys :
         c # d /\ HasKey(Current'[c], k) /\ HasKey(Current'[d], k) /\ ~Restart =>
           (HasKey(Current[c], k) /\ HasKey(Current[d], k)) \/ keyed'.bindings = NoKeys]_keyed

\* The page of a command lists every key that works, a key behind a slot without one as well,
\* with the conflicts there are now, and "PLAY" on any line is for one that exists, as the code
\* asserts ("just to be sure"); the other page marks the commands that have a conflict.
RowsTrue ==
    /\ keyed.page = "list" => keyed.listed = {c \in Commands : HasConflict(keyed.bindings, c)}
    /\ keyed.page \in Commands =>
         /\ {KeyRows(keyed)[i] : i \in 1..keyed.count} =
              {[key |-> k, alert |-> FindKey(keyed.bindings, k) # keyed.page]
                 : k \in {k \in Keys : HasKey(keyed.bindings[keyed.page], k)}}
         /\ keyed.cursor <= LastPosition(keyed.count)

\* As long as a key has two commands, the user is warned again and again.
ConflictsReported == ~Check(keyed.global) => keyed.checking

\* What is saved is what the program will have when it is started again: "a canonical string,
\* to be used in the configuration file" (KeyName.hxx).
SavedKeysReturn ==
    [][keyed'.file # keyed.file /\ Save =>
         \A c \in Commands : FirstKeys(ParseFile(keyed'.file)[c]) = FirstKeys(keyed'.global[c])]_keyed

\* However keys are given, taken and saved, the table stays one in which every key has one
\* command, that shows what it is, and that can be read again.
KeysKept ==
    /\ [](KeysTypeOK /\ RowsTrue /\ ConflictsReported)
    /\ NoNewConflict /\ SavedKeysReturn
=============================================================================
