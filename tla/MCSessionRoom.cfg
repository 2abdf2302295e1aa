\* A tab, two tokens, two writes, a deletion, restarts and failures.
CONSTANTS
    MaxStates = 2
    Screens = {s1}
    Tokens = {t1, t2}
SPECIFICATION RoomSpec
INVARIANTS TokensEndWithSession
PROPERTY ChangeReachesScreens
CHECK_DEADLOCK FALSE
