SPECIFICATION Spec
CONSTANTS
    Coarse = {c1, c2}
    Fine = {f1}
    Event = {e1}
    Socket = Socket
    Nobody = Nobody
    Resolution = 2
    NBuckets = 3
    Delays = {0, 1, 3}
    Late = {0, 5}
    Slow = TRUE
    MaxTime = 10
INVARIANTS
    LoopSound
PROPERTIES
    NeverEarly
