\* Two release boards of a team and one of another, two of them at a time;
\* one question from before the team had a registry; limits of one resolved
\* question and one board read back; two requests in a row or at a time, and
\* crashes.
CONSTANTS
    Boards = {b1, b2, b3}
    Release = {b1, b2}
    Handlers = {h1, h2}
    Manual = {q0, q1}
    Legacy = {q0}
    Open = {k1}
    Queued = {k1, k2}
    Items = {i1}
    MaxItems = 1
    MaxBoards = 2
    MaxResolved = 1
    MaxBackfilled = 1
    MaxRequests = 2
    MaxRaced = 2
    None = None
    Null = Null
SPECIFICATION Spec
INVARIANTS ConfirmedStays JiraFirst PlacesTold
PROPERTY ResolvedForGood
SYMMETRY Symmetry
CHECK_DEADLOCK FALSE
