-------------------------------- MODULE Search --------------------------------
(***************************************************************************)
(* The search page (SearchPage.cxx): a form, and a page with the songs     *)
(* that were found.  One row of the form is an expression, which is split  *)
(* from its end.                                                           *)
(*                                                                         *)
(* A text is a sequence of words, spaces and colons.                       *)
(***************************************************************************)
EXTENDS Naturals, Sequences, FiniteSets, SequencesExt

CONSTANTS
    SearchSongs,
    Tags,            \* the names of tags (and "file"), as words
    Modified,        \* the name which asks for songs modified lately
    Ages,            \* the words which ParseDuration() understands
    Words,           \* all words
    WordsOf,         \* WordsOf[song][tag]: the words of the song's tag, or the ages it is within
    Colon, Space,
    FormTag,         \* the tag which has a row of its own ...
    Rows,            \* ... and what the user types there
    Texts,           \* what the user types into the row for expressions
    TextLength,      \* bounds the expressions that are checked
    NoText           \* no text, and how the parser fails

ASSUME SearchAssumption ==
    /\ Tags \subseteq Words /\ FormTag \in Tags /\ Modified \in Words \ Tags /\ Ages \subseteq Words
    /\ Rows \subseteq Words
    /\ Colon \notin Words /\ Space \notin Words /\ Colon # Space

VARIABLE search

-----------------------------------------------------------------------------
(* The expression *)

Tokens == Words \cup {Colon, Space}
SearchNames == Tags \cup {Modified}

\* SplitLast(): what comes before and after the last c; NoText if there is none
Before(s, c) ==
    IF Contains(s, c) THEN SubSeq(s, 1, CHOOSE i \in 0..Len(s) - 1 : s[i + 1] = c /\ \A j \in i + 2..Len(s) : s[j] # c)
    ELSE s
After(s, c) == IF Contains(s, c) THEN SubSeq(s, Len(Before(s, c)) + 2, Len(s)) ELSE <<>>

\* Strip()
Strip(s) ==
    LET words == {i \in DOMAIN s : s[i] # Space}
    IN  IF words = {} THEN <<>>
        ELSE SubSeq(s, CHOOSE i \in words : \A j \in words : i <= j,
                       CHOOSE i \in words : \A j \in words : j <= i)

\* SearchFilter: tag_constraints, and modified_since as it was written
NoConstraints == [t \in SearchNames |-> <<>>]

\* Is there something wrong with this constraint?  Only a tag is refused when it comes again.
Refused(name, value, filter) ==
    \/ Len(name) # 1 \/ value = <<>>
    \/ name[1] \notin SearchNames
    \/ name[1] = Modified /\ (Len(value) # 1 \/ value[1] \notin Ages)
    \/ name[1] # Modified /\ filter[name[1]] # <<>>

\* Mutant: what comes first is the name.
SetAdvancedForward(s, filter) ==
    LET first == CHOOSE i \in 1..Len(s) : s[i] = Colon /\ \A j \in 1..i - 1 : s[j] # Colon
        name == Strip(SubSeq(s, 1, first - 1))
        value == Strip(SubSeq(s, first + 1, Len(s)))
    IN  IF s = <<>> THEN filter
        ELSE IF ~Contains(s, Colon) \/ Refused(name, value, filter) THEN NoText
        ELSE [filter EXCEPT ![name[1]] = value]

\* SearchFilter::SetAdvanced(): one constraint after the other, the last one first
RECURSIVE SetAdvanced(_, _)
SetAdvanced(s, filter) ==
    LET a == Before(s, Colon)
        value == Strip(After(s, Colon))
        word == After(a, Space)
        name == IF word = <<>> THEN Before(a, Space) ELSE word
        rest == IF word = <<>> THEN <<>> ELSE Before(a, Space)
    IN  IF s = <<>> THEN filter
        ELSE IF ~Contains(s, Colon) \/ Refused(name, value, filter) THEN NoText
        ELSE SetAdvanced(rest, [filter EXCEPT ![name[1]] = value])

-----------------------------------------------------------------------------
(* The page *)

FilterOf(form) == SetAdvanced(form.advanced, [NoConstraints EXCEPT ![FormTag] = form.row])

\* What MPD finds: the songs which have the words, and were modified within the time
Found(filter) ==
    {s \in SearchSongs :
       \A t \in SearchNames : \A i \in DOMAIN filter[t] : filter[t][i] = Space \/ filter[t][i] \in WordsOf[s][t]}

Values == {<<w>> : w \in Rows} \cup {<<>>}
Forms == [row : Values, advanced : Texts \cup {<<>>}]
EmptyForm == [row |-> <<>>, advanced |-> <<>>]

Searches ==
    [current : {"filter", "result"},
     form : Forms,
     editing : BOOLEAN,                \* a row is being edited, in a coroutine
     filter : [SearchNames -> Seq(Tokens)],  \* SearchResultPage::filter
     loaded : BOOLEAN,                 \* the list has "..", for the way back
     listed : SUBSET SearchSongs,
     marked : SUBSET SearchSongs,      \* the songs with a highlight
     open : BOOLEAN,
     later : BOOLEAN,                  \* a change of the queue waits for the page to be shown
     conn : BOOLEAN,
     idle : BOOLEAN,
     news : BOOLEAN,                   \* MPD has not reported the change of its queue yet
     queue : SUBSET SearchSongs,       \* MPD's
     known : SUBSET SearchSongs]       \* mpdclient::playlist

SyncResults(p) == [p EXCEPT !.marked = p.listed \cap p.known]

\* SearchPage::Update(), if the page is open; only the page that is shown is told.
TellShown(p) ==
    IF ~p.open THEN [p EXCEPT !.later = TRUE]
    ELSE IF p.current = "result" THEN SyncResults([p EXCEPT !.later = FALSE])
    ELSE [p EXCEPT !.later = FALSE]

SearchLost(p) == TellShown([p EXCEPT !.conn = FALSE, !.idle = FALSE, !.news = FALSE, !.known = {}])

\* GetConnection(): leaving idle mode, the queue is updated.
SearchConnection(p) ==
    LET left == [p EXCEPT !.idle = FALSE, !.news = FALSE]
    IN  IF ~p.conn \/ ~p.idle THEN {p}
        ELSE {SearchLost(p)} \cup {IF p.news THEN TellShown([left EXCEPT !.known = p.queue]) ELSE left}

\* SearchResultPage::Reload(); without a connection, nothing is found, and an error
\* leaves what has been received.
ReloadResults(p) ==
    LET cleared == [p EXCEPT !.loaded = TRUE, !.listed = {}, !.marked = {}]
    IN  UNION {IF ~q.conn \/ q.filter = NoConstraints THEN {SyncResults(q)}
               ELSE {SyncResults([q EXCEPT !.listed = Found(q.filter)]), SyncResults(q)}
                    \cup {SyncResults(SearchLost([q EXCEPT !.listed = some])) : some \in SUBSET Found(q.filter)}
               : q \in SearchConnection(cleared)}

SetCurrentPage(p, page) == [p EXCEPT !.current = page, !.editing = FALSE]

-----------------------------------------------------------------------------
SearchInit ==
    \E q \in SUBSET SearchSongs :
      search = [current |-> "filter", form |-> EmptyForm, editing |-> FALSE, filter |-> NoConstraints,
                loaded |-> FALSE, listed |-> {}, marked |-> {}, open |-> FALSE, later |-> TRUE,
                conn |-> FALSE, idle |-> FALSE, news |-> FALSE, queue |-> q, known |-> {}]

OpenSearch == ~search.open /\ search' = TellShown([search EXCEPT !.open = TRUE])
CloseSearch == search.open /\ search' = [search EXCEPT !.open = FALSE, !.editing = FALSE]

OnForm == search.open /\ search.current = "filter"
OnResult == search.open /\ search.current = "result"

\* PLAY on a row: a dialog asks for its text, which may be cancelled.
EditPattern == OnForm /\ search' = [search EXCEPT !.editing = TRUE]
Edited ==
    /\ search.editing
    /\ \/ search' = [search EXCEPT !.editing = FALSE]
       \/ \E v \in Values : search' = [search EXCEPT !.editing = FALSE, !.form.row = v]
       \/ \E v \in Texts \cup {<<>>} : search' = [search EXCEPT !.editing = FALSE, !.form.advanced = v]

\* DELETE, CLEAR
ClearRows ==
    /\ OnForm
    /\ search' \in {[search EXCEPT !.form.row = <<>>], [search EXCEPT !.form.advanced = <<>>],
                    [search EXCEPT !.form = EmptyForm]}

\* PLAY on the button: an expression that is wrong is reported; an empty form does nothing.
StartSearch ==
    LET filter == FilterOf(search.form)
    IN  /\ OnForm
        /\ filter \notin {NoText, NoConstraints}
        /\ search' \in {SetCurrentPage(p, "result") : p \in ReloadResults([search EXCEPT !.filter = filter])}

\* SCREEN_SEARCH, GO_PARENT_DIRECTORY, GO_ROOT_DIRECTORY, ".."
GoToForm == OnResult /\ search' = SetCurrentPage(search, "filter")

\* SCREEN_UPDATE
SearchAgain == OnResult /\ search' \in ReloadResults(search)

QueueChange ==
    /\ search.conn
    /\ \E q \in SUBSET SearchSongs : search' = [search EXCEPT !.queue = q, !.news = TRUE]

SearchConnected ==
    /\ ~search.conn
    /\ search' = TellShown([search EXCEPT !.conn = TRUE, !.known = search.queue])

SearchIdle ==
    /\ search.conn
    /\ IF search.idle THEN search' \in SearchConnection(search) ELSE search' = [search EXCEPT !.idle = TRUE]

SearchNext ==
    \/ OpenSearch \/ CloseSearch \/ EditPattern \/ Edited \/ ClearRows \/ StartSearch \/ GoToForm
    \/ SearchAgain \/ QueueChange \/ SearchConnected \/ SearchIdle

SearchSpec == SearchInit /\ [][SearchNext]_search

-----------------------------------------------------------------------------
(* Properties *)

\* Every field has its type.
SearchTypeOK == search \in Searches

\* The songs that are shown are those which the filter finds (or the first of them, if the
\* connection was lost), and their highlights tell which are in the queue, although only
\* the page that is shown hears of the queue.
ResultsMarked ==
    /\ search.listed \subseteq Found(search.filter)
    /\ search.current = "result" /\ ~search.later => search.marked = search.listed \cap search.known

\* Read from left to right, an expression is a name, a colon and words, again and again.
SpacesOut(s) == SelectSeq(s, LAMBDA c : c # Space)
ColonsOf(s) == {i \in DOMAIN s : s[i] = Colon}
Meaning(s) ==
    LET t == SpacesOut(s)
        end(i) == IF \E j \in ColonsOf(t) : j > i
                  THEN (CHOOSE j \in ColonsOf(t) : j > i /\ \A k \in ColonsOf(t) : k > i => j <= k) - 2
                  ELSE Len(t)
    IN  {[at |-> i, name |-> t[i - 1], words |-> SubSeq(t, i + 1, end(i))] : i \in ColonsOf(t) \ {1}}

\* Of several that ask for songs modified lately, the first counts.
Counted(s) ==
    {m \in Meaning(s) : m.name = Modified => \A k \in Meaning(s) : k.name = Modified => m.at <= k.at}

Written(t, u, v, w) == <<t, Colon>> \o v \o <<Space, u, Colon>> \o w

\* What may be asked of a tag; a duration is one word.
Askable(t) ==
    IF t = Modified THEN {<<x>> : x \in Ages}
    ELSE {<<x>> : x \in Words} \cup {<<x, Space, y>> : x, y \in Words}

\* Whatever may be typed, up to some length, and all pairs of constraints
ExpressionTexts ==
    UNION {[1..n -> Tokens] : n \in 0..TextLength}
        \cup UNION {{Written(t, u, v, w) : v \in Askable(t), w \in Askable(u)} : t, u \in SearchNames}

\* The parser has no state: it is looked at once, when the page has been opened.
Opened ==
    /\ search.open /\ ~search.conn /\ search.current = "filter" /\ ~search.editing
    /\ ~search.loaded /\ search.queue = {} /\ search.form = EmptyForm

\* The parser, which reads from the end, understands every constraint that is written, or
\* refuses the expression; only of several "modified:" all but the first go unnoticed.
UnderstandsExpression ==
    Opened =>
      \A s \in ExpressionTexts :
        LET filter == SetAdvanced(s, NoConstraints)
        IN  filter # NoText =>
              {<<t, SpacesOut(filter[t])>> : t \in {t \in SearchNames : filter[t] # <<>>}}
                = {<<m.name, m.words>> : m \in Counted(s)}

\* Any words for two tags, or a tag and a duration, can be searched for: written one after the
\* other, they are understood, words that are names of tags included.
UnderstandsList ==
    Opened =>
      \A t, u \in SearchNames : \A v \in Askable(t), w \in Askable(u) :
        t # u => SetAdvanced(Written(t, u, v, w), NoConstraints) = [NoConstraints EXCEPT ![t] = v, ![u] = w]

\* What is written is what is searched for, and what is found is what is shown.
SearchSound == SearchTypeOK /\ ResultsMarked /\ UnderstandsExpression /\ UnderstandsList
=============================================================================
