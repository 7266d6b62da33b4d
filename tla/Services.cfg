SPECIFICATION ServicesSpec
CONSTANTS
    Settings = {"default", "fallback", "custom"}
    Answers = {"control"}
    Remote = FALSE
    Events = {1, 2}
    Descriptors = {3, 4}
    MaxSignal = 3
    Subsystems = {"player", "sticker"}
    Known = {"player"}
    Objects = {o1, o2}
    Numbers = {n1, n2}
    MaxChoices = 2
INVARIANTS
    Attentive
    SocketsSound
    SignalsSound
    TalkSound
    AttemptsSound
PROPERTIES
    ReportsServed
