---------------------------- MODULE PokerSession ----------------------------
(***************************************************************************)
(* One live planning session as the managers, the participants and the CMS *)
(* see it when every request is served in one atomic step: the contract    *)
(* that SessionRepository.mutate_session gives the handlers.  SessionStore *)
(* models the steps a request really takes.                                *)
(***************************************************************************)
EXTENDS SessionOps

CONSTANTS
    MaxVersion, \* bound: the mutations stop when tasks_version reaches it
    MaxImport,  \* bound: the most issues one Jira import brings
    IsDemo      \* the session is the shared demo session

ASSUME BoundsAssumption ==
    MaxVersion \in Nat /\ MaxImport \in Nat /\ IsDemo \in BOOLEAN

VARIABLES
    session,    \* the stored session
    issued      \* history: the task ids handed out so far

vars == <<session, issued>>

TypeOK == session \in Session /\ issued \subseteq Tasks

Init ==
    /\ \E mode \in Modes : session = NewSession(mode)
    /\ issued = {}

\* A mutation that counts: it writes s and bumps tasks_version.
Write(s) ==
    /\ session.tasks_version < MaxVersion
    /\ session' = s

\* Task ids come from uuid4: an id is never handed out twice.
FreshTasks(new) ==
    /\ IsInjective(new)
    /\ ToSet(new) \cap issued = {}
    /\ issued' = issued \cup ToSet(new)

-----------------------------------------------------------------------------
(* Managers.                                                               *)

AddManualTask(t) ==
    /\ FreshTasks(<<t>>)
    /\ Write(Enqueue(session, <<t>>))

ImportJiraTasks(new) ==
    /\ CanEnqueue(session, new)
    /\ FreshTasks(new)
    /\ Write(Enqueue(session, new))

EditTask(t, points) ==
    /\ CanUpdateTask(session, t)
    /\ Write(UpdateTask(session, t, points))
    /\ UNCHANGED issued

RemoveTask(t) ==
    /\ CanDeleteTask(session, t)
    /\ Write(DeleteTask(session, t))
    /\ UNCHANGED issued

ShiftTask(t, target) ==
    /\ CanMoveTask(session, t)
    /\ Write(MoveTask(session, t, target))
    /\ UNCHANGED issued

ReorderQueue(order) ==
    /\ CanReorderTasks(session, order)
    /\ Write(ReorderTasks(session, order))
    /\ UNCHANGED issued

ReopenTask(t) ==
    /\ CanReopen(session, t)
    /\ Write(Reopen(session, t))
    /\ UNCHANGED issued

StartBatch(mode) ==
    /\ CanStart(session)
    /\ Write(Start(session, mode))
    /\ UNCHANGED issued

NextTask ==
    /\ Write(Advance(session))
    /\ UNCHANGED issued

FinalEstimate(points, tracks) ==
    /\ CanSetFinalEstimate(session, tracks)
    /\ Write(SetFinalEstimate(session, points))
    /\ UNCHANGED issued

StoreAiSummary(t) ==
    /\ CanSaveAiSummary(session, t)
    /\ Write(SaveAiSummary(session))
    /\ UNCHANGED issued

\* The export of story points changes tasks of last_batch and saves them
\* without a new tasks_version.
ExportPoints(sent, points) ==
    /\ sent # {} /\ sent \subseteq Sendable(session)
    /\ session' = Exported(session, sent, points)
    /\ UNCHANGED issued

Finish ==
    /\ Write(Close(session))
    /\ UNCHANGED issued

OpenDemo(reset, rows) ==
    /\ IsDemo
    /\ IF reset \/ session.tasks_queue = <<>>
       THEN rows # <<>> /\ FreshTasks(rows)
       ELSE rows = <<>> /\ UNCHANGED issued
    /\ Write(Demo(session, reset, rows))

-----------------------------------------------------------------------------
(* Participants: joining and voting leave tasks_version alone.             *)

JoinSession(u, role) ==
    /\ session' = Join(session, u, role)
    /\ UNCHANGED issued

Vote(u, track) ==
    /\ CanCastVote(session, u, track)
    /\ session' = CastVote(session, u)
    /\ UNCHANGED issued

-----------------------------------------------------------------------------
\* The task lists of at most n elements a request can bring.
Lists(n) == UNION {[1..k -> Tasks] : k \in 0..n}

Queue == session.tasks_queue

\* Requests that may change which tasks the session holds.
Contents ==
    \/ \E t \in Tasks : AddManualTask(t)
    \/ \E new \in Lists(MaxImport) : ImportJiraTasks(new)
    \/ \E t \in Tasks : RemoveTask(t)
    \/ \E reset \in BOOLEAN, rows \in Lists(MaxImport) : OpenDemo(reset, rows)

\* Requests that arrange the tasks it holds.
Arrangement ==
    \/ \E t \in Tasks, target \in 0..Len(Queue) : ShiftTask(t, target)
    \/ \E order \in [1..Len(Queue) -> Tasks] : ReorderQueue(order)

\* Requests that run the batch.
Rounds ==
    \/ \E t \in Tasks : ReopenTask(t)
    \/ \E mode \in Modes : StartBatch(mode)
    \/ NextTask
    \/ Finish

\* Requests that store something about a task.
Annotations ==
    \/ \E t \in Tasks, points \in Points \cup {NoPoints} : EditTask(t, points)
    \/ \E points \in Points, tracks \in Forms : FinalEstimate(points, tracks)
    \/ \E t \in Tasks : StoreAiSummary(t)
    \/ \E sent \in SUBSET Sendable(session) :
          \E points \in [sent -> Points] : ExportPoints(sent, points)

Participation ==
    \/ \E u \in Users, role \in TeamRoles : JoinSession(u, role)
    \/ \E u \in Users, track \in Named : Vote(u, track)

Next == Contents \/ Arrangement \/ Rounds \/ Annotations \/ Participation

Spec == Init /\ [][Next]_vars

-----------------------------------------------------------------------------
(* Safety.                                                                 *)

\* No task is in the session twice: reopening, moving, reordering, importing
\* and finishing move a task between the queue and last_batch, never copy it.
TaskOnce ==
    IsInjective(session.tasks_queue \o session.last_batch)

\* history and last_batch are two copies of the same list: every handler that
\* files or reopens a task keeps them in step, so a report built from either
\* shows the same tasks.
HistoryMatchesLastBatch == session.history = session.last_batch

\* A batch that has a start time has a current task and is not completed: the
\* phase shown to participants is never "voting" on nothing, and a manager who
\* deletes, reorders or finishes cannot leave a round open behind the cursor.
StartedMeansActive == session.started => VotingActive(session)

\* In an open round every ballot of the current task is in a track of the
\* session's mode: changing the mode between rounds leaves no ballot behind
\* (estimation.clear_task_votes).
BallotsFitMode ==
    VotingActive(session) =>
        \A b \in session.votes[Current(session)] :
            b[2] \in MODE_CONFIGS[session.estimation_mode]

\* A change of what the guarded edits act upon always raises tasks_version, so
\* a manager whose expected_version is still current has seen the board the
\* edit applies to.  The export of story points does not raise it: what it may
\* change are the points of finished tasks, never the queue, the batch or an
\* estimate of a queued task.
VersionGuardsBoard ==
    [][Board(session') # Board(session) =>
         session'.tasks_version > session.tasks_version]_vars

\* A round, when it opens and when it passes to another task, starts with no
\* ballots: neither those of an earlier round nor those cast while waiting.
RoundStartsClean ==
    [][VotingActive(session') /\
       (VotingActive(session) => Current(session) # Current(session')) =>
         session'.votes[Current(session')] = {}]_vars

\* Participants who are shown the results of a task keep seeing them, whatever
\* the managers edit and whoever votes again, until the round ends, is started
\* anew, or somebody joins who has not voted (_build_web_session_state).
ResultsStay ==
    [][Phase(session) = "results" =>
         \/ Phase(session') \in {"results", "complete"}
         \/ NextTask \/ (\E mode \in Modes : StartBatch(mode))
         \/ \E u \in Users, role \in TeamRoles : JoinSession(u, role)
         \/ \E reset \in BOOLEAN, rows \in Lists(MaxImport) : OpenDemo(reset, rows)]_vars

\* A ballot cast in an open round stays until the round is over or the
\* manager presses start again: joining, editing, reordering and other
\* participants' votes do not lose it.
BallotsKept ==
    [][VotingActive(session) =>
         \/ NextTask \/ (\E mode \in Modes : StartBatch(mode))
         \/ Current(session) \notin OnBoard(session')
         \/ session.votes[Current(session)]
              \subseteq session'.votes[Current(session)]]_vars

\* A task leaves the session only when it is deleted or the demo is opened with
\* a reset.
NoTaskVanishes ==
    [][\/ OnBoard(session) \subseteq OnBoard(session')
       \/ \E t \in Tasks : RemoveTask(t) /\ OnBoard(session) \ {t}
                                              \subseteq OnBoard(session')
       \/ \E rows \in Lists(MaxImport) : OpenDemo(TRUE, rows)]_vars
=============================================================================
