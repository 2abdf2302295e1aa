\* Three cards, two voters with two votes, one group, two requests of managers at a time.
CONSTANTS
    Sections = {s1, s2}
    Users = {u1, u2}
    Cards = {c1, c2, c3}
    Groups = {g1}
    Items = {i1}
    Budgets = {2}
    MaxCards = 3
    Managers = {m1, m2}
    None = None
    NoRetro = NoRetro
    NoRow = NoRow
SPECIFICATION Spec
SYMMETRY Symmetry
INVARIANTS GroupsAgree WithinBudget SnapshotIsFinal ShownIsStored
PROPERTIES FinishedIsFrozen VotesKept
CHECK_DEADLOCK FALSE
