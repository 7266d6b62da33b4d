SPECIFICATION ProgressSpec
CONSTANTS
    s1 = s1
    s2 = s2
    s3 = s3
    u1 = u1
    u2 = u2
    Song = {s1, s2}
    NoSong = NoSong
    Null = Null
    Uri = {u1}
    UriOf <- OneUri
    Playable = {s1, s2}
    MaxLength = 2
    MaxVersion = 3
    Commands = {"delete", "play", "update"}
    Tracks = {a, u}
    Tagged = {a}
    Legacy = {}
    PluginList <- TwoPlugins
    p1 = p1
    p2 = p2
    NoTrack = NoTrack
PROPERTIES
    Converges
    LoadingEnds
\* A page without lyrics to load, and a server at its bounds, wait for the user.
CHECK_DEADLOCK FALSE
