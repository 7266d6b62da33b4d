SPECIFICATION Spec
CONSTANTS
    Settings = {"default", "fallback", "custom"}
    Answers = {"read", "control", "wrong", "cancel"}
    Remote = FALSE
PROPERTIES
    RestartsOnlyWhenDead
