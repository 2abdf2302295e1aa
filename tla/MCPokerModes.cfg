\* Estimation modes: two tasks, two voters of three possible roles, all modes
\* and final estimates.
CONSTANTS
    NoPoints = NoPoints
    Absent = Absent
    Tasks = {t1, t2}
    Users = {u1, u2}
    TeamRoles = {"backend", "qa", "manager"}
    Modes = {"sp", "sp_dev_test", "sp_split"}
    Points = {5}
    MaxVersion = 5
    MaxImport = 2
    IsDemo = FALSE
SPECIFICATION Spec
SYMMETRY Symmetry
INVARIANTS BallotsFitMode
PROPERTIES VersionGuardsBoard ResultsStay BallotsKept
CHECK_DEADLOCK FALSE
