CONSTANTS
    Kinds = {"scope", "session", "retro", "standup"}
    Direct = {"session", "standup"}
    Jobs = {j1}
    Clients = {c1, c2}
    MaxStamp = 1
    MaxCrashes = 1
    SlowModels = TRUE
    None = None
SPECIFICATION Spec
INVARIANTS FiledRight ResultIffDone DoneIsStored
PROPERTY JobsEnd
CHECK_DEADLOCK FALSE
