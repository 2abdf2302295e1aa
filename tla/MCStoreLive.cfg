\* Two requests, backfills too; no symmetry, liveness is checked.
CONSTANTS
    NoPoints = NoPoints
    Absent = Absent
    Tasks = {t1, t2}
    Users = {u1}
    TeamRoles = {"backend"}
    Modes = {"sp"}
    Points = {5}
    Handlers = {h1, h2}
    MaxAttempts = 2
    Ops = {"vote", "next", "delete", "view", "finish", "start", "remove", "export", "reopen"}
    Prepared = 2
    MaxImport = 1
    Backfills = TRUE
    MaxCrashes = 1
SPECIFICATION Spec
INVARIANTS EndsAnnounced
PROPERTIES EveryRequestAnswered
CHECK_DEADLOCK FALSE
