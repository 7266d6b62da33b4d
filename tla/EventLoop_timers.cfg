SPECIFICATION LoopSpec
CONSTANTS
    Coarse = {c1, c2}
    Fine = {f1}
    Event = {e1}
    Socket = Socket
    Nobody = Nobody
    Resolution = 2
    NBuckets = 3
    Delays = {0, 1, 3, 7}
    Late = {0}
    Slow = FALSE
    MaxTime = 10
    wlan = wlan
    lan = lan
    Services = {wlan, lan}
    ServiceName <- ServerNames
    MaxResolvers = 2
PROPERTIES
    ServersAreKnown
    ImplementsTimerSet
