\* A state request writes back an old session after it has asked Jira.
CONSTANTS
    NoPoints = NoPoints
    Absent = Absent
    Tasks = {t1, t2}
    Users = {u1}
    TeamRoles = {"backend"}
    Modes = {"sp"}
    Points = {}
    Handlers = {h1, h2}
    MaxAttempts = 2
    Ops = {"vote", "view", "next"}
    Prepared = 2
    MaxImport = 1
    Backfills = TRUE
    MaxCrashes = 0
SPECIFICATION Spec
SYMMETRY Symmetry
PROPERTIES NoSilentOverwrite
CHECK_DEADLOCK FALSE
