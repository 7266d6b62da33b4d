SPECIFICATION InterfaceSpec
CONSTANTS
    Modulus = 64
    Heights = {1, 3, 4}
    Garbage = {0, 2, 63}
    MaxLength = 6
    ScrollOffsets = {0, 1, 4}
    OthersEdit = FALSE
    Pages = {"list", "text"}
    queue = queue
    song = song
    library = library
    artists = artists
    albums = albums
    f1 = f1
    f2 = f2
    TopPages = {queue, song, library}
    Proxy = library
    SubPages = {artists, albums}
    FirstPage = queue
    FirstSubPage = artists
    Careful = {queue}
    Frames = {f1, f2}
    NoFrame = NoFrame
    NoPage = NoPage
    Password = Password
    Sizes = {1, 2}
    Interrupting = FALSE
    narrow = narrow
    wide = wide
    Chars = {narrow, wide}
    WideChars = {wide}
    WordChars = {narrow}
    CharOrder <- TextOrder
    SampleLines <- TextSamples
    MaxLine = 2
    HistoryMax = 1
    HistoryBound = 3
    PromptWidth = 2
    MinField = 1
    WindowWidths = {1, 4}
    up = up
    down = down
    CommandSeq <- KeyCommands
    Defaults <- KeyDefaults
    KeyFiles <- WrittenKeys
    Keys = {225, 266}
    MaxKeys = 2
    Meta = TRUE
    Remote = FALSE
    NoKeys = NoKeys
    h1 = h1
    h2 = h2
    Unset = Unset
    NoValue = NoValue
    CommandLines <- ConfigCommandLines
    Environments = {Unset, h1}
    FileTexts <- ConfigTexts
    FileNames <- ConfigFileNames
    MaxColumns = 3
    ScreenWidths = {1, 2, 4, 5, 6, 9, 10, 11, 14, 15, 20, 21, 22, 23, 24, 25, 26, 31, 40, 41}
    Terminal = 8
    i1 = i1
    i2 = i2
    i3 = i3
    i4 = i4
    i5 = i5
    i6 = i6
    i7 = i7
    i8 = i8
    TreeItems = {i1, i2, i3, i4, i5, i6, i7, i8}
    KeyOf <- ItemKeys
    TreeHead = TreeHead
    NoItem = NoItem
    ListItems = {1, 2, 3, 4}
    ListHeads = {11, 12}
    NoNode = NoNode
INVARIANTS
    CursorValid
    ScreenSound
    ConfigurationTaken
PROPERTIES
    WindowKept
    LineAndHistoryKept
    KeysKept
    ContainersKept
