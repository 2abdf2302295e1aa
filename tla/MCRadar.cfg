SPECIFICATION Spec
CONSTANTS
    None = None
    Now = 14
    MonthDays = 4
    Part = 2
    Keys = {"e", "a", "b"}
    Epics = {"e"}
    Team <- MCTeam
    EpicOf <- MCEpic
    LinksOf <- MCLinks
    SubtasksOf <- MCSubtasks
    Field <- MCField
    Queries = {"all", "part"}
    Scope <- MCScope
    FirstQuery = "all"
    DoneWindow = 10
    Sizes = {2}
    Initial <- MCInitial
    Clients = {c1, c2}
    MaxClicks = 2
    MaxChanges = 1
    MaxEdits = 1
    Moving = {"a"}
    MaxMissed = 1
INVARIANTS EnrichedAreAsked AgesCounted TrendShowsDetails CopiesYield StallsAreSeen
PROPERTY RefreshEnds
CHECK_DEADLOCK FALSE
