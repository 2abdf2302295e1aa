\* Two requests of any kind but the blind writes, one of which may die.
CONSTANTS
    NoPoints = NoPoints
    Absent = Absent
    Tasks = {t1, t2, t3}
    Users = {u1, u2}
    TeamRoles = {"backend"}
    Modes = {"sp"}
    Points = {5}
    Handlers = {h1, h2}
    MaxAttempts = 2
    Ops = {"add", "edit", "delete", "move", "reorder", "reopen", "next", "finish", "start", "estimate", "summary", "join", "vote", "view"}
    Prepared = 2
    MaxImport = 1
    Backfills = FALSE
    MaxCrashes = 1
SPECIFICATION Spec
SYMMETRY Symmetry
INVARIANTS AnswersAreTrue
PROPERTIES AtomicSteps EditsWhatWasSeen
CHECK_DEADLOCK FALSE
