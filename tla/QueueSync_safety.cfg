SPECIFICATION SafetySpec
CONSTANTS
    s1 = s1
    s2 = s2
    s3 = s3
    u1 = u1
    u2 = u2
    Song = {s1, s2, s3}
    NoSong = NoSong
    Null = Null
    Uri = {u1, u2}
    UriOf <- MCUriOf
    Playable = {s1, s2}
    MaxLength = 3
    MaxVersion = 4
    Commands = {"add", "delete", "deleteUri", "move", "clear", "crop", "play", "update"}
    Tracks = {a, b, u}
    Tagged = {a, b}
    Legacy = {a}
    PluginList <- TwoPlugins
    p1 = p1
    p2 = p2
    NoTrack = NoTrack
SYMMETRY Symmetry
INVARIANTS
    InSync
    NoMissedUpdate
    CurrentSongRight
    ReplicaInv
PROPERTIES
    CheapRouteKeepsUp
    LyricsOfTheSong
