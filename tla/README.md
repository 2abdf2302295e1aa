# A verification development of the planning-poker voting service

The service (`services/voting_service`, with the domain in `app/`) runs planning
poker sessions: managers prepare a queue of tasks and run it as a batch of
rounds, participants vote over a web link, the CMS lists and closes sessions,
finished estimates go to Jira.  Around that core it runs retrospectives, scope
boards, daily standups and product radars, has language models analyse them in
background jobs, and lets administrators in by roles and teams.  It is one
asyncio process; live sessions are JSON documents in Redis (or Postgres, or a
file), Postgres holds a read model and everything that belongs to the CMS, and
the rest is reached over HTTP.

This directory holds TLA+ modules of the service, TLC configurations and proofs
checked by TLAPS.

    tlc -config MCPokerQueue.cfg MCPokerSession     # model checking
    tlapm PokerSessionProofs.tla                    # proofs

## Inventory

| Component | State | Operations | Hard behaviour | What makes it correct | Modules |
|---|---|---|---|---|---|
| Session aggregate, estimation modes (`app/domain/session.py`, `estimation.py`, `task.py`) | participants, `tasks_queue`, cursor, `last_batch`, `history`, start time, `tasks_version`, mode; ballots and estimates | phase, may vote, all have voted, clear the ballots | a cursor into a list that changes under it; tracks that depend on mode and role | a round is open only on a task; its ballots are of this round, in tracks of this mode | SessionOps |
| Queue management (`app/usecases/manage_tasks.py`, `app/tasks.py`) | the session | add, import, edit, delete, move, reorder, reopen | every edit may meet an open round, a completed batch or a stale screen | no task is lost or doubled, a stale edit is turned down | PokerSession |
| Batch lifecycle (`app/sessions.py`, `close_session.py`) | the session | start, next, skip, final estimate, AI summary, finish, demo page | any order of calls by several managers | reports agree; a batch that ends is announced | PokerSession |
| Live store (`redis_repository.py`, `_http_shared.py`) | one Redis key per session | `ensure_session`, `mutate_session` (WATCH/GET/MULTI/EXEC, ten rounds), saves, delete | interleaved rounds, saves after an `await`, crashes | each request is atomic, what was acknowledged is never lost | SessionStore |
| Participants, invite tokens, WebSockets (`web_api.py`, `app/invite.py`, `ws_manager.py`, `cms/lists.py`) | `web:<token>` keys, pub/sub channels, open sockets | resolve, join, vote, mint, revoke, publish, subscribe, forward, purge | a deletion against everything that lets in; publication against subscription | a deleted session's tokens end; a screen hears of every change | SessionRoom, SessionOps |
| Finish alerts (`session_finish_notify.py`) | none | send when a batch newly completes | the check is not in the mutation | announced | SessionStore |
| CMS sessions and read model (`cms/sessions.py`, `cms_sync.py`, `cms_store/sessions.py`) | pending snapshot and worker per key; rows | schedule, worker, upsert, copy at the start, close, delete | coalescing, failing upserts, restart, late syncs | the row follows the session; deleted stays deleted | CmsSync |
| Jira export of points (`update_jira_sp.py`) | the session, held across Jira calls | send story points, note them in the last batch, save | blind save; a change without a new version | loses no other write, leaves the queue alone | SessionOps, PokerSession, SessionStore |
| Retrospectives (`app/domain/retro.py`, `retro_api.py`, `cms_store/retros.py`) | phases, sections, cards, groups, votes, actions; a row | join, card, vote, group, phases, finalise, analyse | phases against late requests, votes against grouping, two stores | the vote budget, no vote lost, a finished retro is frozen | RetroBoard, Retro |
| AI jobs, standups' analyses (`ai_jobs.py`, `ai_job_runners.py`, `standup_publish_notify.py`) | `ai_job:*` and `ai_job_dedupe:*` with a TTL | get or create, update, complete, fail, poll, publish | check-then-act on two keys, updates without WATCH, stale jobs that end after all, a resource that changes while a model thinks | an analysis is filed where it belongs; a job has a result exactly when done, and ends | AiJobs |
| Scope boards (`cms/scope.py`, `cms_store/scope_boards.py`, `teams.py`) | a snapshot per board, a registry of questions per team, fields of Jira | create, refresh, question, resolve, items, comments, due date, order | whole documents written back after awaits; a registry several boards merge into; Jira first | what was confirmed stays; a board never runs ahead of Jira | ScopeBoard |
| Administrators, roles, teams (`cms/auth.py`, `cms_auth.py`, `cms/access.py`, `cms_store/rbac.py`, `cms_team_access.py`) | accounts, roles, teams, tokens with a version, failed logins | login, logout, edit accounts, roles, teams; start | a token signed while the account changes; administrators who edit each other; INCR without EXPIRE | old tokens end, somebody can sign in, a limit lifts | Access |
| Product radar (`product_radar*.py`, `scope_flow_pace.py`, `cms/radar.py`) | a snapshot | refresh in parts, edit, delete; figures and alerts | two people refresh one radar; buckets, bars and lists computed apart; copies of linked issues | a complete radar has all histories; the figures agree with each other and with the issues | RadarAnalytics, FlowAlerts, Radar |
| Postgres live store | one row | as the live store | advisory lock in one transaction | as the live store | PokerSession |
| Rate limit (`rate_limit.py`) | counters with expiry | INCR, EXPIRE | as the failed logins | bounded requests per window | Access (the login's) |
| File store, prompts, exports, Telegram, planner, listings, health, metrics, audit, scripts | none or one file | formatting, outbound calls, queries | none beyond timeouts | - | not modelled |

The components interact through calls inside one event loop (an `await` is
where another request may run), through the keys of Redis and the rows of
Postgres, through the scheduler's pending snapshot, and through Redis pub/sub.
The ten use cases of an earlier chat front end (`cast_vote.py`,
`start_batch.py`, ...) are run by no route and are not modelled.  What is hard
to test is listed, line by line, under `hazards` in `PROJECT.json`.

## Modules

    SessionOps          the session record and its mutators, as operators
      SessionOpsProofs  lemmas about the mutators, for the proofs of both below
      PokerSession      atomic requests: the contract of the store
        PokerSessionProofs
      SessionStore      the steps requests take in Redis; refines PokerSession
        SessionStoreProofs
    SessionRoom         tokens, participants, screens and deletion of a session
    CmsSync             the read model behind the session
    RetroBoard          the retrospective and its mutators, as operators
      Retro             the live state, its row, the requests that touch both
        RetroProofs
    AiJobs              jobs, runners and polls around one resource
      AiJobsProofs
    ScopeBoard          boards of a team, its questions, Jira
      ScopeBoardProofs
    Access              accounts, roles, teams, tokens
      AccessProofs
    RadarAnalytics      the figures of a radar, as functions of its issues
      FlowAlerts        its alerts
        Radar           the refresh that fills the snapshot
    CmsProofs           proofs about Radar, CmsSync and SessionRoom

Each specification has an `MC` module with the values of its instance and one
or more configurations.  A module that composes another either extends it
(operators) or refines it (`Atomic == INSTANCE PokerSession WITH ...` in
SessionStore).

**SessionOps** translates the mutators: `Enqueue`, `UpdateTask`, `DeleteTask`,
`MoveTask`, `ReorderTasks`, `Reopen`, `Start`, `Advance` (next and skip),
`SetFinalEstimate`, `SaveAiSummary`, `Close`, `Demo`, `Join`, `CastVote`, and
`Exported`, what the export to Jira leaves behind (`Sendable`: what it sends).  Each
is a function from session to session with a companion `Can...` that holds
where the code does not reject.  A task is its id.  Texts, Jira keys,
timestamps and the value of a ballot are left out; of
`current_batch_started_at` it matters whether it is set (`started`).  Indices
count from 0 as in the code.

**PokerSession** has one action per request: `AddManualTask`, `ImportJiraTasks`,
`EditTask`, `RemoveTask`, `ShiftTask`, `ReorderQueue`, `ReopenTask`, `StartBatch`,
`NextTask`, `FinalEstimate`, `StoreAiSummary`, `Finish`, `OpenDemo`, `JoinSession`,
`Vote`, `ExportPoints`.  Each is the whole mutation, the version bump included; the
export raises none.  It is what `SessionRepository.mutate_session` promises the
handlers, and the abstract specification of SessionStore.

**SessionStore** splits a request into its Redis commands.  `Submit` is the
client, with the board it has on screen; `Read`, `ReadMissing`, `Create`,
`Reread` are `ensure_session`; `Watch`, `Mutate`, `Commit`, `Conflict` are a
round of `mutate_session`; `Backfill` and `Export` are the two saves without
WATCH; `Respond` answers and sends the finish alert; `Delete` is the CMS;
`Crash` ends a request anywhere.  Between two commands a handler runs
undisturbed, as in the event loop.  `dirty` is Redis' memory of a WATCH.

**SessionRoom** is the session seen from outside: a state is the number of the
write that made it.  Handlers write and publish (`ManagerWrites`, `Vote`,
`JoinRoom`, `CmsWrites`, `Publish`, `PublishFails`), tokens are minted and
revoked, `DeleteRow`, `DropLive`, `Purge` (one token that SCAN returns),
`PurgeEnds` and `PurgeFails` are `cms_delete_session`, a screen connects, is sent
the state, subscribes and forwards (`Connect`, `SendInitial`, `Subscribe`,
`Forward`), and a listener or the whole process may fail.  It stands apart from
CmsSync since the two share no property, and their product has more than ten
million states.

**CmsSync** follows one session's row: `Write` in Redis, `Schedule` when the
handler sees the reply, the worker (`Take`, `Sync`, `SyncFails`), `SoftDelete`,
the copy at the start (`CopyRead`, `CopyUpsert`, `CopyFails`), `Stop` and
`StartAgain`.  A session is the number of its last write.  `Take` is one step
since nothing is awaited between the look at the pending snapshot and the
release of the worker's slot.

**RetroBoard** translates the aggregate of `app/domain/retro.py` as SessionOps
does the session: `AddCard`, `VoteCard` and `VoteGroup` (the two targets of
`toggle_vote`), `CreateGroup`, `Ungroup`, the action items, the phases,
`Finalize`.  `Loaded` is `RetrospectiveFactory.from_dict`, which every mutation
goes through and which repairs what disagrees.  A card without section has not
been written, a group without cards does not exist.

**Retro** adds the two stores of `retro_api.py`: the live state in Redis and the
row in Postgres.  A mutation of the live state is one action (`Join`,
`WriteCard`, `ToggleVote`, `GroupCards`, `EditActions`, `Collect`,
`ChangePhase`): its WATCH loop is that of SessionStore.  What touches both stores
is split where the code awaits: `ReadRow`, `Ensure`, `Mint` (invitation),
`CheckDraft`, `SaveConfig`, `FinalizeLive` (some time after its access check, so
that the row may be gone), `SaveSnapshot`, `Analyze` or, when Redis has lost the
live state, `Recall` from the row, `StoreSummary`, `ShowSummary` (also the
background job), `DeleteRow`, `DropLive`; `Abandon` ends a request between two of
them and `Lose` is Redis that loses a finished retrospective whose snapshot is
stored.  `ReadRow` leaves out the invitation to one that was lost so: it would
begin anew over a row that says done.

**AiJobs** has one resource, whose kind (a board, a session's task, a
retrospective, a standup) is chosen at first.  A request asks
(`AnalyzeBoard`, ..., `Publish`), looks up the dedupe key, checks the job it
names, creates a job, points the key to it and spawns the runner (`Look`,
`Check`, `Create`, `Point`, `Spawn`); `Poll...` reads a job and, where the code
does, fails it when stale.  A runner goes through the phases of its kind
(`Build`, `Generate`, `Repair`, `Save`), each followed by an `update_job` in two
commands (`UpdateRead`, `UpdateWrite`) and at the end by the release of the key.
`MoveOn` and `Delete` are the people who change the resource meanwhile; `Age`,
`Expire`, `ExpireDedupe` are time, `Crash` is the process.

**ScopeBoard** begins a request (`CreateBoard`, `RefreshBoard`,
`ResolveQuestion`, `ReorderQueue`, ... of `Arrive`) and takes it through the
steps its route awaits: `Get` the row, `Questions`, `Backfill`, `Seed`, `Track`
the team's registry, `Fetch`, `Post`, `Put`, `Place` for Jira, `Save` and `Sync`.
`Edited(op, x, snapshot)` is what each operation does to a snapshot, `Union` and
`Overlay` are what boards and registry do to each other (the vendored
`planning_poker_common.scope`, as far as the routes call it).  Two limits of the
code are constants: a registry that is empty is filled from `MaxBackfilled` boards,
those written last (`Backfilled`, LIMIT 20), and a snapshot keeps `MaxResolved`
entries of resolved questions (`LeftOf`, 100).

**Access** takes a login through its commands (`CheckLimit`, `CheckPassword`,
`ReadPrincipal`, `ClearFailures`, `IssueToken`, `CountFailure`, `SetWindow`) and
every other request through `ReadToken`, `ReadAccount` and what it came for
(`WriteRole`, `WriteAdmin`, `WriteTeam`, `FindTeam` to `EraseTeam`,
`InsertRecord`, `LoadRecord` and `SetLive`).  A role is told apart by whether it
lets manage access, since that permission alone decides whether anybody is
locked out; the others are taken as held.  The three queries of
`get_admin_principal` are one step.  `delete_team` is taken statement by
statement (`FindTeam`, the two counts, `RaiseVersions`, `EraseTeam`): it is one
transaction, but only the rows it updates keep others out (`Locked`).  A
retrospective goes live in its own row (`SetLive`); a session runs in Redis
(`running`), and its row follows with the background sync (`SyncSession`).  A token
expires at the moment somebody is about to use it: earlier makes no difference.
Changes that change nothing are not asked for.

**RadarAnalytics** and **FlowAlerts** are functions of a set of issues: what belongs
to a period, the histogram of ages with its computed buckets, the bars of closures
and the list beside them, epics and parents with the copies their links carry, who
blocks whom and through which relation, gaps among subtasks; the alerts of an issue,
their order, the two rounds of deduplication and the health.  Jira sets status and
resolution apart: an issue is done by either (`Done`), a copy of one by its status
alone.  Ages are floats in the code and parts of a day here (`Part`).  **Radar** is
the refresh in parts that makes those issues: `Click`, `Read`, `FetchMain`,
`FetchDone`, `FetchBatch`, `Save` per person, with `SetJql`, `Delete` and `Change`
(an issue is closed, opened again or resolved in Jira) in between; `Fail` is Jira's,
and `FetchBatch` may be sent the histories of a part of the batch only: the place
moves on by the whole batch, and `missed` keeps what was asked in vain.  The fields
of an issue that take no part in a race are constant (`Field`).

## Runs

Twelve, one per question; the number of distinct states is what TLC finds.

| Run | Question | Instance | States |
|---|---|---|---|
| MCPokerQueue | Do queue edits, rounds, reopenings and the demo page keep the session sound? | 3 tasks, 2 voters, flat mode, 10 mutations, imports of 3 | 15,625 (symmetry) |
| MCPokerModes | Do ballots and results stay right when modes and roles change? | 2 tasks, 2 voters of 3 roles, 3 modes, 1 estimate, exports to Jira, 5 mutations | 614,227 (symmetry) |
| MCStoreAtomic | Is every request atomic, its answer true, its edit applied to the board its sender saw? | 2 requests of 14 kinds, one may die, 2 rounds | 846,042 (symmetry) |
| MCStoreLive | Is every request answered, is each end of a batch announced? | 2 requests of 9 kinds with backfill, export, re-opening, deletion and a crash | 272,422 |
| MCStoreBackfill | Does a write ever take back another's? (it does) | 2 requests, backfill on | violation |
| MCSessionRoom | Do tokens end with the session, does a change reach the screens? | 1 screen, 2 tokens, 2 writes, deletion, failures, any number of restarts | 215,440 |
| MCCmsSync | Does the row get what waits, is a deleted row left alone? | 3 writes, 2 writers at a time, 1 failure, 2 starts | 5,656 |
| MCRetro | Are budget, grouping and phases kept, is the stored end the live one? | 3 cards, 2 sections, 2 voters with 2 votes, 1 group, 2 requests of managers, a loss in Redis | 225,044 (symmetry) |
| MCAiJobs | Is an analysis filed where it belongs, does a job end? | each of 4 kinds, 1 job, 2 pages, 1 change, 1 crash, slow models | 542,088 |
| MCScopeBoard | Do confirmed edits stay, is Jira always first? | 3 boards, 2 of them of a team, 2 there at most; 2 requests, also at a time, crashes anywhere, limits of 1 resolved question and 1 board read | 562,185 (symmetry) |
| MCAccess | Do old tokens end, can somebody sign in, does the limit lift, what does a deleted team leave behind? | 3 accounts, 2 roles, 2 teams, a session and a retrospective, 2 tokens, 2 requests at a time, 3 in all, a crash | 1,248,692 |
| MCRadar | Are all issues asked for, do the figures agree? | 3 issues with ages in half days, 2 people, 2 clicks, 1 change in Jira, 1 issue it leaves out, 1 edit, batches of 2 | 175,846 |

### Properties

PokerSession.  `TaskOnce`: queue and `last_batch` share no task.
`HistoryMatchesLastBatch`: the two report lists agree.  `BallotsFitMode`: an open
round has ballots only in tracks of the mode.  `VersionGuardsBoard`: what managers act
upon (the queue, the cursor, the estimates of the queue, which tasks are in the
last batch) changes only with `tasks_version`; the points that the export leaves in
the last batch are no part of it, since the code raises no version for them.
`ResultsStay`: results shown stay shown until the round ends.  `BallotsKept`: a
ballot survives all that happens in its round.  `NoTaskVanishes`: but for a
deletion and the reset of the demo page, and nothing else, a task stays.

SessionStore.  `AtomicSteps`: the refinement of PokerSession.
`AnswersAreTrue`: counted by `tasks_version`, each acknowledged mutation was
applied once and each refused one not at all.  `EditsWhatWasSeen`: an edit with
`expected_version` meets the board its sender saw.  `EndsAnnounced`: each request
that ends a batch announces it, two ends two requests; excepted is the one that had
read the session completed before somebody opened it again (or deleted it), whose
end nobody announces.  `EveryRequestAnswered`.

SessionRoom.  `TokensEndWithSession`: after a purge without an error none of the
tokens there were is valid, whatever was minted or revoked while it scanned.
`ChangeReachesScreens`: what is published is shown by whoever listens.  Excepted
are the gap between the first state and the subscription, and a listener whose
Redis connection has failed.

CmsSync.  `DeletedRowFrozen`, `PendingReachesRow`.

Retro.  `GroupsAgree`: cards and groups tell the same grouping.
`WithinBudget`: nobody has more votes out than allowed, whatever is grouped and
ungrouped.  `VotesKept`: grouping loses no vote.  `FinishedIsFrozen`: phases
only go on, and nothing changes what is finished.  `SnapshotIsFinal`: the row of
a finished retrospective holds what the live state ended with, however often it
is finished.  `ShownIsStored`: a summary is stored before it is shown.

AiJobs.  `FiledRight`: an analysis is only found under the snapshot or task it
was made from.  `ResultIffDone`: whoever wins the races of unwatched updates, a
job has a result exactly when it is done.  `DoneIsStored`: it is done once the
result is stored.  `JobsEnd`: no job stays queued or running.  None of them says
that a resource has one job at a time, and the run has one.

ScopeBoard.  `ConfirmedStays` (but for what a limit leaves out), `ResolvedForGood`
and `PlacesTold` (the order Jira has accepted is the order it has) are promised
while requests come one after the other (`~raced`): then they hold through every
crash between two steps.  Two at a time may lose a question, since neither the
snapshot nor the registry has a version.  `JiraFirst` holds without that condition.

Access.  `OldTokensEnd`: no request sent with a token that was there when a
confirmed change ended it passes authentication; a token that a login interleaved
with the change signs afterwards is another matter (below).  `LimitLifts`: a counter
of failed logins gets its window, as long as the service has not died.
`SomebodyRemains`: while requests come one at a time somebody active remains, which
is what the code counts; that they may manage access it does not ask.
`OnlyMissedDetached`: however requests meet, a deletion takes its team from no live
session or retrospective but one that went live after its kind was counted.

Radar.  `EnrichedAreAsked`: every issue before the place of the snapshot has its
history or was asked of Jira in vain, whoever else refreshes; the code counts the
latter as enriched all the same.  `RefreshEnds`.  `AgesCounted`: no issue is counted
twice, and none whose age is in whole days is left out.  `TrendShowsDetails`: the
bars and the list beside them show as many.  `CopiesYield`: no figure of a period
goes by a copy against what the snapshot says of the issue itself, though issues
are opened again; of an issue outside the period there is only the copy.
`StallsAreSeen`: the worst stall is not crowded out of the alerts; it says nothing
of other alerts.

Each property of a passing run has a mutant: an operator with the comment
"Mutant" that stands before the definition it would replace and makes the
mistake a slip in that code would make; with it the property fails.

### Bounds

`MaxVersion` caps the mutations of a session, `MaxImport` the tasks of an
import, `MaxCrashes`, `MaxFailures`, `MaxStarts` the faults, `MaxWrites` and
`MaxInFlight` the writers, `MaxAttempts` stands for the ten rounds, `MaxStamp`
caps the changes of an analysed resource, `MaxRequests` the requests to the CMS
and `MaxRaced` those that begin once two have met, `MaxBoards` the boards there ever
are, `MaxClicks`, `MaxChanges`, `MaxEdits` what people and Jira do to a radar,
`Moving` the issues that change and `MaxMissed` those Jira leaves out.
`MaxBackfilled`, `MaxResolved` and `Part` are no bounds: they stand for 20, 100 and
the fineness of a float, and are small so that their limits are met.

Three tasks are one before, one at and one behind the cursor; two voters are one
who has voted and one who has not; ten mutations import, play three tasks,
finish, reopen and play again. Two rounds show a first loss and a last one. Three
cards are more than the two votes a voter has, and two votes can lie on cards
that become one group; two requests of managers are what it takes to finish twice
or to delete under an invitation. Two writes in flight are the least that can be
reordered, a third overtakes the worker. A job that is created, aged, failed and
finished late meets two pages and a restart; two jobs at work for one
resource are in the proofs, not in the run. Three requests to the CMS are one to
change, one to be overtaken and one to see the outcome. An epic, its child and a stranger are what
the figures of a radar tell apart; `Now = 14` lies past the window of closed
issues. Where a property is proved the bound does not matter.

`Symmetry` permutes tasks, users, boards' issues and handlers; no run that checks
a liveness property uses it. `CHECK_DEADLOCK FALSE`: with the bounds used up, or
all requests answered, the systems stop.

### Fairness

Weak fairness throughout, and only of what the event loop has begun or time
brings about:

* SessionStore: each handler's next step.  Redis answers or the request fails;
  clients need not send and nothing need crash.  No fairness between the rounds
  is assumed: a handler that loses all of them gives up.
* CmsSync: the reply's handler, the worker, the copy and the restart; a failing
  upsert is a step of the worker, so it may fail as long as `MaxFailures` allows.
* AiJobs: the runner's next step, the creation that is under way, and time (a
  job ages after `AI_JOB_STALE_SECONDS`, expires after `AI_JOB_TTL_SECONDS`).
  Nobody has to poll.  The model answers or times out.
* Radar: each person's next step.  The browser asks for the next part as long as
  the answer says it is not complete; nobody has to click.
* SessionRoom: a publication that is due, and a listener with a message.  Its
  turns of thirty seconds are no step: an idle turn changes nothing.

PokerSession, Retro, ScopeBoard and Access have no liveness: people may walk away.

## What the checks found

MCStoreBackfill is a violation run: `NoSilentOverwrite` has a counterexample.  A
state request saves the session it held while it waited for Jira
(`_ensure_current_task_description`), and a vote in between is gone.
`Backend-Rules.mdc` says not to overwrite state silently.  The same holds of the
story point export, which moreover changes the last batch without a new
`tasks_version` (PokerSession).

The rest was met while modelling.  Each is reachable in the module named and
described under its hazard in `PROJECT.json`:

* a vote names no task, so one on a played task counts after the cursor has been
  brought back (PokerSession); two closing requests may both send the alert, and the
  second end of a batch that was opened again is announced by nobody when its closer
  had read the first (SessionStore);
* a state request creates a deleted session again (SessionRoom); so does an
  invitation a deleted retrospective (Retro);
* the scheduler keeps the snapshot handed over last, not the newest, and the copy
  at the start may put an old one over it (CmsSync);
* a listener that loses Redis ends while its socket is pinged on (SessionRoom), and
  a revocation that fails in Redis cannot be repeated;
* two requests at a time lose a question of a team, or bring a resolved one back;
  by itself a request loses those of the boards beyond the twenty it reads, and on
  a board without a registry the resolved ones beyond a hundred (ScopeBoard);
* two administrators may deactivate each other; a session whose row does not say
  yet that it runs, or a record that goes live behind the count, is detached when
  its team is deleted; an administrator linked to the team between the UPDATE and
  the DELETE keeps the tokens; a login that checks the old password and reads the
  version after the change signs a token that lives on; a process that dies between
  INCR and EXPIRE locks an account for good (Access);
* a part of a refresh that was fetched for an old query is saved under the new one,
  an issue Jira does not return counts as enriched, and an age of 7.5 days falls
  between two buckets of the histogram (Radar); the deduplication made for one issue
  runs over the whole radar, so that one stalled issue hides another's overdue date
  (FlowAlerts).

## Proofs

Everything below is proved for all values of the constants that satisfy the
assumption named in the module that declares them.

**SessionOpsProofs** says what each mutator does to a session: it leaves it
well-formed, its tasks distinct and within those handed out, and makes one of
three kinds of change: `RoundUndisturbed` (the round stays open on the same task,
with no ballot but the old ones, or no round opens), a round that opens or ends,
or participants only (join and vote: the board stays).

**PokerSessionProofs** proves every property of PokerSession.  `TypeCorrect`,
`RoundsAreSound` (`Spec => []StartedMeansActive`), `ReportsAgree`
(`Spec => []HistoryMatchesLastBatch`), `VersionsGuard`
(`Spec => VersionGuardsBoard`) and `RoundsStartClean` rest on
`IInv == TypeOK /\ StartedMeansActive /\ HistoryMatchesLastBatch`.
`StartedMeansActive` is not inductive alone: that next leaves a current task needs
the cursor to be a natural number, and that a reopened task is the current one
needs the queue to be a sequence.  `StepKinds` sorts the steps into the three
kinds or stores the points of an export (`PointsStored`), and the theorems follow
from that alone.

`TasksStayDistinct`, `BallotsAreOfMode`, `TasksAreKept`, `BallotsStay` and
`ResultsAreKept` rest on `RInv`.  It adds to `IInv` and the properties
`BoardIssued` (what is on the board has been handed out: otherwise an import could
bring a task that is there) and `Within` (the cursor is in the queue or right
behind it, so that a played task that is reopened is one of the tasks before it).

**SessionStoreProofs** proves every safety property of SessionStore, for any
number of requests, rounds and crashes.  `StoreInductive`: `SInv` says what
handlers hold between two commands.

* `Placed`: where a request is goes with what it asks for.
* `StagedFits`: what a request is about to EXEC is what its mutator makes of the
  session in Redis, unless the key has been written since its WATCH (`dirty`), in
  which case EXEC fails.
* `EndKept`: a request that has read the session completed finds it so until it is
  overtaken, by a re-opening, a blind save or a deletion; one that has ended a batch
  all the same was overtaken, is going to announce it, has done so or died.
  `EndsAreAnnounced` follows, for every end by itself, saves without WATCH,
  deletions and crashes included.

`RequestsAreAtomic` (each step is one request of PokerSession or a stutter),
`AnswersTrue` and `EditsSeen` are about requests whose writes all go through
`mutate_session`.  Their hypothesis is
`Watched == ~Backfills /\ Ops \cap {"export", "remove"} = {}`: no description
backfill (`_http_shared.py`), no export to Jira, no deletion under way.  It is not a
convenience: these three write or delete without WATCH and undo what others have
done, as MCStoreBackfill shows.  `AtomicInductive` adds to `SInv`

* `TasksAreFresh`: two requests never add the same task, and a task to be added is
  not there yet.  PokerSession's `AddManualTask` asks for it;
* `PagesFit`: a page with the version of the session has its board
  (`VersionsGuard`, seen from the page);
* `AnswersAreTrue` itself: a step of EXEC adds to both sides of the count.

A step changes one handler: `QuietStep` covers all that leave Redis alone,
`ExecIsAtomic` is the one that does not.  SessionStore begins in the middle of a
round, in a state PokerSession reaches by an import, joins, a start and votes:
the refinement is about the steps.

**RetroProofs** proves every property MCRetro checks, for finite sets of people,
cards and groups.  Its invariant adds to the properties what they rest on:

* votes lie on cards that stand alone and on groups that exist (`Agree`).  With
  it `Loaded(live) = live` (`NothingToRepair`): the factory's repairs never
  act, so a mutation is its mutator.  Without it a card could join the loose
  ones with votes nobody counted;
* a request that is about to store a snapshot holds one that matches a finished
  live state, and one that is about to drop the live state has deleted the row
  (`SnapshotsMatch`, `RowGoesFirst`): this is why two finishing requests may
  store theirs in any order, and why nothing is lost with a live state that Redis
  loses afterwards;
* a request about to show a summary has stored it (`SummaryStored`).

`BoardStep(r, s)` says what one mutation can do; lemmas without primes show that
it keeps the types, `Agree`, the order of the phases, the budget (`BoardThrifty`,
by counting: a new group takes at least one voted card from each voter it gets a
vote of) and every vote (`BoardKeepsVotes`).  `MeetingSteps` and `OnlyBoardSteps`
show that the specification does nothing else to the live state.

**ScopeBoardProofs** proves every property MCScopeBoard checks, for any number of
boards, issues, people and snapshots, and crashes anywhere.  `BoardInductive`
keeps

* however requests meet: where a request is goes with what it was asked for
  (`Stationed`), a snapshot or registry, stored or held by a request, shows only
  what Jira has taken (`AllTaken`, `JiraComesFirst`), and a board that is not there
  yet has promised nothing (`BoardsUsed`);
* while requests come one after the other (`~ raced`): the boards and the registry
  of the team hold what was confirmed (`Promises`), the one request at work holds
  no less of its own board and team (`Holds`, `ConfirmedIsKept`), the registry it
  is about to write has all that the stored one has (`Extends`,
  `ResolutionsAreForGood`), and what is left of an order makes Jira's order that of
  the board (`Placing`, `PlacesAreTold`).

The limits hold for any values of `MaxBackfilled` and `MaxResolved`: a step that
cuts a list or reads a part of the boards takes what it leaves out from the promises
(`LeaveOut`, `OneLeavesOut`), and nothing else does.

The second half is not inductive once two requests meet: each writes back a whole
document read before an await.  That loss is the code's (see above), so the
properties speak of the requests that do not race, while the first half and
`JiraFirst` do not need that.

**CmsProofs** is about three specifications that share nothing, hence their names
`Spec` (Radar), `SyncSpec` and `RoomSpec`.

Radar: every safety property, for any issues, people, queries and batch sizes, with
Jira answering any part of a batch and closing, resolving and re-opening issues at
any time.  `RadarInductive` says of every snapshot, stored or held by a request
(`Progressed`), that it has each issue once, as Jira had it at some moment
(`Sound`), that its list of keys is that of its issues, and that those before `next`
have their history or are in `missed`.  Nothing is said of when an issue was
fetched: `CopiesAlwaysYield` holds of every such snapshot because the figures take
the issue where they have it.  The others follow in the same way:

* `AgesAreCounted`, `TrendsShowDetails`.  The buckets and bars are shown to divide
  their issues: each issue lies in one place and each place is as long as its
  issues are many (`BucketsFit`, `HistogramCounts`, `DaysFit`, `TrendCounts`), and
  what is divided so adds up (`CountsAddUp`).  The step of the long buckets times
  their number reaches the oldest issue (`LongOnesFit`), and between two of them
  there is room for no whole day (`WholeDays`);
* `StallsStayInSight`.  The alerts of a list are in a strict order (`AlertsOrdered`),
  so the two that are kept are no better than any that is dropped (`DedupeIs`);
  of the two an issue keeps, one is as bad as its stall and of a kind that the
  second round does not drop (`IssueKeeps`).  At most one alert of an issue is of
  the kind that gives way to a stall (`Single`), which is why two places suffice.

`Total` and `FlattenSeq` are recursive functions.  Where a proof needs what they
compute, it takes the least case that would be wrong and derives it from the one
before (`CountsAddUp`, `FlattenIs`).

CmsSync: `PendingIsServed` (a pending snapshot has a worker, hence no failure of an
upsert and no start strands one) and `DeletedStaysFrozen`.

SessionRoom: `TokensAreEnded` (`RoomSpec => []TokensEndWithSession`).  The invariant
(`RoomInductive`) says that while the purge scans, the condemned tokens that are
still valid are among those SCAN has not returned: minting adds none to them, and
whatever revokes or expires takes some away.

**AccessProofs**: `OldTokensAreRefused`, `SomebodyAlwaysRemains`, `LimitsLift` and
`OnlyMissedAreDetached`, every property MCAccess checks, for any number of accounts,
teams, tokens and requests at once.  `AccessInductive` keeps

* `TokensFit`: a token is no newer than its account, and one that has to end is
  older.  This is why a login that read the version before a password was changed
  cannot sign a token that survives it;
* `RequestsFit`: what a request has learned still holds when it goes on.  Accounts
  and records stay known and versions only grow (`Grows`), so that a request that
  has read an old token reads a newer account;
* `Alone`: while requests come one at a time, who has signed in to ask is still
  active (`Checked`);
* `LimitLifts` itself.

`OnlyMissedAreDetached` rests on `CountsFit` instead, however many requests there
are: a deletion that has counted the sessions, or the retrospectives, of a team has
seen none live, so those that are have gone live since.

A step changes one request: `QuietKeeps` covers those that change no account,
record or token, `WritingKeeps` those that end a request with a change,
`AccountsChange` says what raising versions does to tokens.

**AiJobsProofs**: `AnalysesAreFiledRight`, `ResultsAreOfDoneJobs` and
`DoneJobsAreStored`, every safety property of AiJobs, for any number of pages,
jobs, snapshots and crashes.  `JobsInductive` keeps besides

* `ProcessesFit`: what a process has with it at each await.  A runner's analysis is
  of the stamp it read, and is stored by the time its job is called done; a
  document a runner is about to write back (`update_job` reads, waits, writes)
  is not that of a job that is done;
* `Handed`: a job that is not spawned yet is in the hands of one request, so that
  it is not run twice;
* `DoneAtEnd`: only a runner that has finished leaves a job that is done, so that
  none of its earlier updates starts from a document with a result;
* `ShownIsStored`: what a page can be shown has been stored.

Assumed of the constants, beside types:

* pages and jobs are different things (`Clients \cap Jobs = {}`, they are processes
  of one table), requests at a time are finitely many (SessionStore counts those
  that have been acknowledged);
* ScopeBoard: `None` and `Null`, a row without a snapshot, are no snapshots; the
  issues of a queue and the questions are finitely many; questions, issues and items
  are different things; a board keeps at least one resolved question;
* Access: `None` is no team and no row;
* Radar: finitely many issues, none closed in the future, links to known issues; an
  open issue is paused or in one of the three buckets that `_issue_alerts` knows,
  and the figures of its history are natural numbers (`FieldAssumption`);
* the hypothesis of `AgesAreCounted`: no issue is older than 10000 days.  The last
  bucket of the code ends there, 27 years; an older issue would be counted nowhere.

Every safety property of the passing runs is a theorem.  Out of the prover's reach,
and left to TLC: liveness under fairness (and ENABLED), that is
`EveryRequestAnswered`, `PendingReachesRow`, `JobsEnd`, `ChangeReachesScreens` and
`RefreshEnds`.  No module uses RECURSIVE.

## Not modelled

* Texts: prompts, comments in Jira, reports, Telegram messages, the labels of a
  radar.  The calls that send them are steps, their failures too.
* The figures of scope boards and of the flow pace beyond the alerts (lead times,
  people, charts): sums over fields of issues without state.  A transcription
  would say what the code says.
* Listings, searches and rosters: queries.  Sprint plans: documents that are
  stored whole.
* The file store (one process, development only).  Postgres as live store locks
  the row for the whole mutation, PokerSession is its model; a transaction of
  Postgres that fails changes nothing and ends the request, like the abandoned
  requests of Retro and the crashes of ScopeBoard and Access.
* Rate limits of the participants' routes: they count as the failed logins do and
  only refuse.
* Health, metrics, audit, maintenance scripts, use cases without a caller.
