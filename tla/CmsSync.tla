------------------------------ MODULE CmsSync ------------------------------
(***************************************************************************)
(* How one session's row of the CMS read model follows the session in      *)
(* Redis (services/voting_service/cms_sync.py).  A request that has written*)
(* the session hands a snapshot to the scheduler when it gets Redis' reply;*)
(* the scheduler keeps the last snapshot it was handed and one background  *)
(* worker upserts it into Postgres.  When the service starts, a second     *)
(* task copies the sessions from Redis into the read model.                *)
(*                                                                         *)
(* The session is abstracted to the number of its last write: a snapshot is*)
(* the number of the write it was taken after.                             *)
(***************************************************************************)
EXTENDS Naturals, FiniteSets

CONSTANTS
    MaxWrites,   \* bound: the writes of the session
    MaxInFlight, \* bound: the writers waiting for Redis' reply at a time
    MaxFailures, \* bound: the upserts Postgres fails
    MaxStarts,   \* bound: the starts of the service; 0: it has been running
    NoSnapshot   \* no snapshot

ASSUME BoundsAssumption ==
    /\ MaxWrites \in Nat /\ MaxInFlight \in Nat
    /\ MaxFailures \in Nat /\ MaxStarts \in Nat

VARIABLES
    live,     \* the session in Redis
    replies,  \* the writes whose handler has not seen Redis' reply yet
    pending,  \* CmsSyncScheduler._pending of the session
    worker,   \* _run: "none", "ready" to take the snapshot, or "syncing"
    held,     \* the snapshot the worker upserts
    copier,   \* backfill_cms_from_redis: "read", "upsert" or "done"
    copied,   \* the session it has read
    row,      \* the row of cms_sessions
    deleted,  \* deleted_at of the row
    up,       \* the service is running
    failures, \* history: the failed upserts
    starts    \* history: the starts of the service

scheduler == <<pending, worker, held>>
backfill  == <<copier, copied>>
service   == <<up, failures, starts>>
syncVars  == <<live, replies, scheduler, backfill, row, deleted, service>>

\* A service that is starting copies; one that has been running has copied.
SyncInit ==
    /\ live = 0 /\ replies = {} /\ row = 0 /\ deleted = FALSE
    /\ pending = NoSnapshot /\ worker = "none" /\ held = NoSnapshot
    /\ up = TRUE /\ failures = 0
    /\ starts = IF MaxStarts = 0 THEN 0 ELSE 1
    /\ copier = IF MaxStarts = 0 THEN "done" ELSE "read"
    /\ copied = NoSnapshot

\* Mutant: the upsert of a soft-deleted row.
UpsertAnyway(snapshot) == row' = snapshot

\* The upsert of sync_session: a soft-deleted row is left alone.
Upsert(snapshot) == row' = IF deleted THEN row ELSE snapshot

-----------------------------------------------------------------------------
(* The requests.                                                           *)

\* Redis executes the SET of a request.
Write ==
    /\ up /\ live < MaxWrites /\ Cardinality(replies) < MaxInFlight
    /\ live' = live + 1
    /\ replies' = replies \cup {live + 1}
    /\ UNCHANGED <<scheduler, backfill, row, deleted, service>>

\* The handler of write w sees the reply and schedules its snapshot; a worker
\* is started unless there is one.
Schedule(w) ==
    /\ w \in replies
    /\ replies' = replies \ {w}
    /\ pending' = w
    /\ worker' = IF worker = "none" THEN "ready" ELSE worker
    /\ UNCHANGED <<live, held, backfill, row, deleted, service>>

\* soft_delete_session
SoftDelete ==
    /\ up /\ ~deleted
    /\ deleted' = TRUE
    /\ UNCHANGED <<live, replies, scheduler, backfill, row, service>>

-----------------------------------------------------------------------------
(* The worker.                                                             *)

\* The worker takes the pending snapshot or, when there is none, ends; no
\* request runs between that check and the release of the worker's slot.
Take ==
    /\ worker = "ready"
    /\ held' = pending
    /\ worker' = IF pending = NoSnapshot THEN "none" ELSE "syncing"
    /\ pending' = NoSnapshot
    /\ UNCHANGED <<live, replies, backfill, row, deleted, service>>

Sync ==
    /\ worker = "syncing"
    /\ Upsert(held)
    /\ worker' = "ready" /\ held' = NoSnapshot
    /\ UNCHANGED <<live, replies, pending, backfill, deleted, service>>

\* Mutant: a failed upsert ends the worker.
SyncFailsForGood ==
    /\ worker = "syncing" /\ failures < MaxFailures
    /\ failures' = failures + 1
    /\ worker' = "none" /\ held' = NoSnapshot
    /\ UNCHANGED <<live, replies, pending, backfill, row, deleted, up, starts>>

\* A failed upsert is logged and its snapshot dropped.
SyncFails ==
    /\ worker = "syncing" /\ failures < MaxFailures
    /\ failures' = failures + 1
    /\ worker' = "ready" /\ held' = NoSnapshot
    /\ UNCHANGED <<live, replies, pending, backfill, row, deleted, up, starts>>

-----------------------------------------------------------------------------
(* Starting and stopping.                                                  *)

\* A shutdown cancels the tasks, a crash ends them; an upsert under way may
\* have been committed.
Stop ==
    /\ up /\ starts < MaxStarts
    /\ up' = FALSE
    /\ \/ worker = "syncing" /\ Upsert(held)
       \/ copier = "upsert" /\ Upsert(copied)
       \/ UNCHANGED row
    /\ replies' = {}
    /\ pending' = NoSnapshot /\ worker' = "none" /\ held' = NoSnapshot
    /\ copier' = "done" /\ copied' = NoSnapshot
    /\ UNCHANGED <<live, deleted, failures, starts>>

StartAgain ==
    /\ ~up
    /\ up' = TRUE /\ starts' = starts + 1
    /\ copier' = "read"
    /\ UNCHANGED <<live, replies, scheduler, copied, row, deleted, failures>>

CopyRead ==
    /\ copier = "read"
    /\ copier' = "upsert" /\ copied' = live
    /\ UNCHANGED <<live, replies, scheduler, row, deleted, service>>

CopyUpsert ==
    /\ copier = "upsert"
    /\ Upsert(copied)
    /\ copier' = "done" /\ copied' = NoSnapshot
    /\ UNCHANGED <<live, replies, scheduler, deleted, service>>

\* The copy of the session fails and is skipped.
CopyFails ==
    /\ copier = "upsert" /\ failures < MaxFailures
    /\ failures' = failures + 1
    /\ copier' = "done" /\ copied' = NoSnapshot
    /\ UNCHANGED <<live, replies, scheduler, row, deleted, up, starts>>

-----------------------------------------------------------------------------
Requests == Write \/ SoftDelete \/ \E w \in 1..MaxWrites : Schedule(w)
Worker   == Take \/ Sync \/ SyncFails
Copier   == CopyRead \/ CopyUpsert \/ CopyFails
Service  == Stop \/ StartAgain

SyncNext == Requests \/ Worker \/ Copier \/ Service

\* The event loop runs every task that can go on: the handler that has its
\* reply, the worker and the copying task.  The service is started again.
\* Nothing makes clients write, Postgres fail or the service stop.
SyncFairness ==
    /\ \A w \in 1..MaxWrites : WF_syncVars(Schedule(w))
    /\ WF_syncVars(Worker) /\ WF_syncVars(Copier) /\ WF_syncVars(StartAgain)

SyncSpec == SyncInit /\ [][SyncNext]_syncVars /\ SyncFairness

-----------------------------------------------------------------------------
\* A snapshot never waits without a worker: a request that schedules while
\* the worker ends does not strand its snapshot.
PendingHasWorker == pending # NoSnapshot => up /\ worker # "none"

\* Nothing a late upsert brings revives or changes a deleted row.
DeletedRowFrozen == [][deleted => deleted' /\ row' = row]_syncVars

\* A snapshot that waits is upserted unless a later one replaces it, the row is
\* deleted, an upsert fails or the service stops: the worker that takes it is
\* never the one that has already decided to end.
PendingReachesRow ==
    \A w \in 1..MaxWrites, k \in 0..MaxFailures :
        pending = w /\ failures = k ~>
            \/ row = w \/ pending \notin {w, NoSnapshot}
            \/ deleted \/ failures > k \/ ~up

=============================================================================
