SPECIFICATION PagesSpec
CONSTANTS
    dir1 = dir1
    dir2 = dir2
    track = track
    list1 = list1
    list2 = list2
    Root = Root
    UpEntry = UpEntry
    DirSeq <- BrowserDirs
    SongSeq <- BrowserSongs
    PlaylistSeq <- BrowserLists
    ParentOf <- BrowserParent
    Fixed <- BrowserFixed
    e1 = e1
    e2 = e2
    e3 = e3
    pl1 = pl1
    pl2 = pl2
    EditSongs = {e1, e2, e3}
    Playlists = {pl1, pl2}
    NoPlaylist = NoPlaylist
    NoEditSong = NoEditSong
    EditContents <- EditorContents
    r1 = r1
    r2 = r2
    r3 = r3
    a1 = a1
    a2 = a2
    b1 = b1
    b2 = b2
    b3 = b3
    Levels = 2
    TaggedSongs = {r1, r2, r3}
    TagOf <- LibraryTags
    s1 = s1
    s2 = s2
    artist = artist
    title = title
    day = day
    week = week
    Modified = modified
    Ages = {day, week}
    Colon = Colon
    Space = Space
    NoText = NoText
    SearchSongs = {s1, s2}
    Tags = {artist, title}
    Words = {artist, title, modified, day, week}
    FormTag = title
    Rows = {title, day}
    WordsOf <- SearchWordsOf
    Texts <- SearchTexts
    TextLength = 6
    t1 = t1
    t2 = t2
    PageSongs = {t1, t2}
    NoPageSong = NoPageSong
    SongText <- PageTexts
    Blank = 0
    LabelWidth = 2
    RowRoom = 4
    PageWidths = {1, 2, 3, 5}
    Characters = {"x"}
    Matched = {"%t"}
    Missing = {"%n"}
    Valueless = {"%u"}
    MaxFormat = 5
    n1 = n1
    n2 = n2
    PlaylistNames = {n1, n2}
    NoName = NoName
INVARIANTS
    WrittenIsShown
    SongPageSound
PROPERTIES
    DirectoryShown
    EditsAsShown
    TrailShown
    SavedAsAgreed
\* A format has been read when its last call returns.
CHECK_DEADLOCK FALSE
