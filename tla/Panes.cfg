SPECIFICATION PanesSpec
CONSTANTS
    Settings = {"default", "fallback", "custom"}
    Answers = {"read", "control", "wrong", "cancel"}
    Remote = TRUE
    QueueSongs = {1, 2}
    NoSongId = 0
    QueueBound = 2
    SongIds = {1, 2}
    Duration <- SongDurations
    MaxVolume = 1
    NOutputs = 2
    NPartitions = 2
    MaxConnections = 2
    MaxMessages = 2
    Widths = {4, 7, 10}
    Lengths = {0, 5}
    Times = {0, 3}
    LeftWidth = 2
    SeparatorLength = 1
    Durations = {0, 1, 30}
    Dialogs = {1, 2}
INVARIANTS
    IdleExclusive
    DialogOwnsConnection
    TimersPending
    ChatKept
    BarSound
PROPERTIES
    SelectionFollowsSongs
    SentAsMeant
    OutputsAsTold
\* A page at rest waits for commands and events, whose number is bounded.
CHECK_DEADLOCK FALSE
