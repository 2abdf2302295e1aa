\* Concurrent writers, failing upserts, restarts.
CONSTANTS
    NoSnapshot = NoSnapshot
    MaxWrites = 3
    MaxInFlight = 2
    MaxFailures = 1
    MaxStarts = 2
SPECIFICATION SyncSpec
PROPERTIES DeletedRowFrozen PendingReachesRow
CHECK_DEADLOCK FALSE
