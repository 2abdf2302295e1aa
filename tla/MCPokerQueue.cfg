\* The queue: three tasks, two voters, the flat mode, the demo page; ten
\* mutations are enough to import, play, finish, delete, reopen and play again.
CONSTANTS
    NoPoints = NoPoints
    Absent = Absent
    Tasks = {t1, t2, t3}
    Users = {u1, u2}
    TeamRoles = {"backend"}
    Modes = {"sp"}
    Points = {}
    MaxVersion = 10
    MaxImport = 3
    IsDemo = TRUE
SPECIFICATION Spec
SYMMETRY Symmetry
INVARIANTS TaskOnce HistoryMatchesLastBatch
PROPERTIES NoTaskVanishes
CHECK_DEADLOCK FALSE
