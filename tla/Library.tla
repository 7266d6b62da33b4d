------------------------------- MODULE Library -------------------------------
(***************************************************************************)
(* The library page (LibraryPage.cxx, TagListPage.cxx): one page per tag,  *)
(* each with the values below the choices made so far, and a page with the *)
(* songs.  Tags with only one value are skipped on the way down and up.    *)
(*                                                                         *)
(* Every page that is opened loads its values; this may leave idle mode,   *)
(* and then MPD's events are handled before the values are asked for.      *)
(***************************************************************************)
EXTENDS Naturals, FiniteSets

CONSTANTS
    Levels,      \* the number of options.library_page_tags
    TaggedSongs,
    TagOf        \* TagOf[song][level] is the value of the tag of this level

ASSUME LibraryAssumption == Levels \in Nat \ {0} /\ DOMAIN TagOf = TaggedSongs

VARIABLE library

TagPages == 1..Levels
SongPage == Levels + 1           \* the song list, and tag_list_pages.end()
LibraryPages == 1..SongPage

TagValues == {TagOf[s][k] : s \in TaggedSongs, k \in TagPages}
Filters == SUBSET (TagPages \X TagValues)

Libraries ==
    [current : LibraryPages,                    \* current_tag_list_page
     shown : LibraryPages,                      \* ProxyPage::current_page
     filter : [LibraryPages -> Filters],
     values : [TagPages -> SUBSET TagValues],
     songs : SUBSET TaggedSongs,                \* SongListPage::filelist
     open : BOOLEAN,
     later : BOOLEAN,                           \* events wait for the library page to be shown
     pending : SUBSET LibraryPages,             \* pages with pending events
     conn : BOOLEAN,
     idle : BOOLEAN,
     events : BOOLEAN,                          \* mpdclient::events
     news : BOOLEAN,                            \* what MPD has not reported yet
     db : SUBSET TaggedSongs,                   \* MPD's database
     stale : BOOLEAN]                           \* a value has been used after it was freed

-----------------------------------------------------------------------------
(* What MPD answers *)

Match(db, f) == {s \in db : \A c \in f : TagOf[s][c[1]] = c[2]}

ValuesOf(db, f, k) == {TagOf[s][k] : s \in Match(db, f)}

-----------------------------------------------------------------------------
(* Loading *)

\* LoadValues() and LoadSongList(), once the connection has been used: without a
\* connection, the page is empty.
Fill(l, k) ==
    IF k = SongPage THEN [l EXCEPT !.songs = IF l.conn THEN Match(l.db, l.filter[k]) ELSE {}]
    ELSE [l EXCEPT !.values[k] = IF l.conn THEN ValuesOf(l.db, l.filter[k], k) ELSE {}]

\* The connection is lost: every page has all events; the one shown is updated if it is
\* on the screen.
LibraryLost(l) ==
    LET lost == [l EXCEPT !.conn = FALSE, !.idle = FALSE, !.news = FALSE, !.events = TRUE]
    IN  IF ~l.open THEN [lost EXCEPT !.later = TRUE]
        ELSE Fill([lost EXCEPT !.pending = LibraryPages \ {l.shown}], l.shown)

\* The connection may be lost while the response is read.
Filled(l, k) == {Fill(l, k)} \cup IF l.conn THEN {LibraryLost(l)} ELSE {}

\* Page::Update() of a page whose events are known to be for it
UpdateWithin(l, k) ==
    IF k \in l.pending THEN Filled([l EXCEPT !.pending = @ \ {k}], k) ELSE {l}

\* ArtistBrowserPage::Update(): the events are for every page.
Tell(l) == [l EXCEPT !.later = FALSE, !.pending = IF l.later THEN LibraryPages ELSE @]

\* GetConnection(), leaving idle mode: MPD's events are handled at once.
LibraryConnection(l) ==
    LET left == [l EXCEPT !.idle = FALSE, !.news = FALSE]
        told == [left EXCEPT !.later = TRUE]
    IN  IF ~l.conn \/ ~l.idle THEN {l}
        ELSE {LibraryLost(l)}
             \cup IF ~l.news THEN {left}
                  ELSE {[m EXCEPT !.events = FALSE] :
                          m \in IF l.open THEN UpdateWithin(Tell(told), l.shown) ELSE {told}}

\* Reload()
Load(l, k) == UNION {Filled(m, k) : m \in LibraryConnection(l)}

UpdateLibraryPage(l, k) ==
    IF k \in l.pending THEN Load([l EXCEPT !.pending = @ \ {k}], k) ELSE {l}

\* SetCurrentPage() of the open library page
Show(l, k) == UpdateLibraryPage([l EXCEPT !.shown = k], k)

-----------------------------------------------------------------------------
(* Going down and up *)

HasMultipleValues(l, k) == Cardinality(l.values[k]) > 1

\* OpenTagPage(), OpenSongList(): SetFilter() makes all events pending.
OpenWith(l, k, f) == Show([l EXCEPT !.filter[k] = f, !.pending = @ \cup {k}], k)

\* MakeCursorFilter() for every entry below "..": a value, or "All" on pages below the first
CursorFilters(l, k) ==
    {l.filter[k] \cup {<<k, v>>} : v \in l.values[k]} \cup IF k > 1 THEN {l.filter[k]} ELSE {}

\* Mutant: a tag with one value is not skipped.
EnterTagUnskipped(l, k, f) == OpenWith([l EXCEPT !.current = k], k, f)

\* EnterTag(): the page after the current one, or the first after it with a choice.
RECURSIVE EnterTag(_, _, _)
EnterTag(l, k, f) ==
    LET next == OpenWith([l EXCEPT !.current = k], k, f)
    IN  IF k = SongPage THEN next
        ELSE UNION {IF HasMultipleValues(m, k) THEN {m} ELSE EnterTag(m, k + 1, m.filter[k]) : m \in next}

\* GO_PARENT_DIRECTORY
RECURSIVE GoParentFrom(_)
GoParentFrom(l) ==
    LET k == l.current - 1
    IN  IF k = 0 THEN {l}
        ELSE UNION {IF HasMultipleValues(m, k) THEN {m} ELSE GoParentFrom(m) :
                      m \in Show([l EXCEPT !.current = k], k)}

GoRoot(l) == Show([l EXCEPT !.current = 1], 1)

-----------------------------------------------------------------------------
LibraryInit ==
    \E db \in SUBSET TaggedSongs :
      library = [current |-> 1, shown |-> 1, filter |-> [k \in LibraryPages |-> {}],
                 values |-> [k \in TagPages |-> {}], songs |-> {}, open |-> FALSE,
                 later |-> TRUE, pending |-> LibraryPages, conn |-> FALSE, idle |-> FALSE,
                 events |-> FALSE, news |-> FALSE, db |-> db, stale |-> FALSE]

LibraryServerChange ==
    /\ library.conn
    /\ \E db \in SUBSET TaggedSongs : library' = [library EXCEPT !.db = db, !.news = TRUE]

\* ScreenManager::Update(): the page gets the events; if it is shown, it is updated.
LibraryScreen(l) ==
    LET told == [l EXCEPT !.later = @ \/ l.events]
    IN  {[m EXCEPT !.events = FALSE] :
           m \in IF l.open THEN UpdateLibraryPage(Tell(told), l.shown) ELSE {told}}

LibraryConnected ==
    /\ ~library.conn
    /\ library' \in LibraryScreen([library EXCEPT !.conn = TRUE, !.events = TRUE, !.news = FALSE])

LibraryIdle == library.conn /\ library.idle /\ library' \in LibraryConnection(library)
LibraryEnterIdle == library.conn /\ ~library.idle /\ library' = [library EXCEPT !.idle = TRUE]
LibraryUpdateTimer == library' \in UNION {LibraryScreen(l) : l \in LibraryConnection(library)}
LibraryUpdateScreen == library' \in LibraryScreen(library)

OpenLibrary ==
    /\ ~library.open
    /\ library' \in UpdateLibraryPage(Tell([library EXCEPT !.open = TRUE]), library.shown)

CloseLibrary == library.open /\ library' = [library EXCEPT !.open = FALSE]

\* LibraryTagListPage::HandleEnter() with a value, or with "All" (not on the first page)
Enter ==
    /\ library.open /\ library.shown \in TagPages
    /\ \E f \in CursorFilters(library, library.shown) \ {{}} :
         library' \in EnterTag(library, library.current + 1, f)

\* By command, or with the entry ".."
GoParentDirectory == library.open /\ library.current > 1 /\ library' \in GoParentFrom(library)
GoRootDirectory == library.open /\ library.shown # 1 /\ library' \in GoRoot(library)

ReloadLibrary == library.open /\ library' \in Load(library, library.shown)

\* add_query() of a value, whose text is kept across GetConnection(), or of "All".  Of several
\* selected rows only the first may find the client in idle mode; any may lose the connection.
AddQuery ==
    /\ library.open /\ library.shown \in TagPages
    /\ \E all \in {all \in BOOLEAN : IF all THEN library.shown > 1 ELSE library.values[library.shown] # {}} :
         LET reloaded == library.idle /\ library.news
         IN  library' \in UNION {
               {[l EXCEPT !.stale = l.conn /\ reloaded /\ ~all]}
               \cup (IF l.conn THEN {LibraryLost(l)} ELSE {}) : l \in LibraryConnection(library)}

LibraryNext ==
    \/ /\ ~library.stale
       /\ \/ LibraryServerChange \/ LibraryConnected \/ LibraryIdle \/ LibraryEnterIdle
          \/ LibraryUpdateTimer \/ LibraryUpdateScreen \/ OpenLibrary \/ CloseLibrary
          \/ Enter \/ GoParentDirectory \/ GoRootDirectory \/ ReloadLibrary \/ AddQuery
    \/ library.stale /\ UNCHANGED library     \* anything may happen

LibrarySpec == LibraryInit /\ [][LibraryNext]_library

-----------------------------------------------------------------------------
(* Properties *)

\* Every field has its type.
LibraryTypeOK == library \in Libraries

\* The page that is shown is the one the way up and down starts from.
ShownIsCurrent == library.shown = library.current

\* The filters of the pages are the choices that led to the page that is shown.
TrailOfChoices ==
    /\ library.filter[1] = {}
    /\ \A k \in 1..library.current - 1 :
         \/ library.filter[k + 1] = library.filter[k]
         \/ \E v \in TagValues : library.filter[k + 1] = library.filter[k] \cup {<<k, v>>}

Hears(k) == library.events \/ library.news \/ library.later \/ k \in library.pending

\* A page shows what MPD finds below its choices, unless it is still to hear of a change.
ValuesFaithful ==
    \A k \in LibraryPages :
      ~Hears(k) =>
        LET db == IF library.conn THEN library.db ELSE {}
        IN  IF k = SongPage THEN library.songs = Match(db, library.filter[k])
            ELSE library.values[k] = ValuesOf(db, library.filter[k], k)

\* Whoever goes down or up arrives where there is something to choose from.
ArrivesAtChoice ==
    [][library'.shown # library.shown =>
         \/ library'.shown \in {1, SongPage}
         \/ Cardinality(library'.values[library'.shown]) > 1]_library

\* The way through the tags is what the pages show, down and up, whatever changes meanwhile.
TrailShown ==
    /\ [](LibraryTypeOK /\ ShownIsCurrent /\ TrailOfChoices /\ ValuesFaithful)
    /\ ArrivesAtChoice
=============================================================================
