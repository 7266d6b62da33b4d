\* Two coroutines, one of which may be started while the other is suspended.
SPECIFICATION ScreenSpec
CONSTANTS
    TopPages = {queue, song, library}
    Proxy = library
    SubPages = {artists, albums}
    FirstPage = queue
    FirstSubPage = artists
    Careful = {queue}
    Frames = {f1, f2}
    NoFrame = NoFrame
    NoPage = NoPage
    Password = Password
    Sizes = {1, 2}
    Interrupting = TRUE
INVARIANT DestroyedOnce
