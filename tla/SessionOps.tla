----------------------------- MODULE SessionOps -----------------------------
(***************************************************************************)
(* The planning-poker session aggregate (app/domain/session.py) and the    *)
(* mutators that the HTTP handlers and the use cases apply to it, as pure  *)
(* operators from a session record to a session record.  A mutator M comes *)
(* as a pair: CanM(s, ...) is the condition under which the code applies   *)
(* it, the rejections being its early returns and TaskQueueErrors, and     *)
(* M(s, ...) is the session it leaves.  The modules that add state and     *)
(* concurrency (PokerSession, SessionStore) apply these operators, so a    *)
(* handler is written once.                                                *)
(*                                                                         *)
(* Abstractions.  A task is its task_id; summary, url, Jira key, AI text,  *)
(* timestamps and the story points a new task may bring along are data no  *)
(* property tells apart (a task begins with NoPoints), except that         *)
(* current_batch_started_at being set or not is control: it is the Boolean *)
(* started.  Points are the values above 0.  A ballot is the pair <<user,  *)
(* track>>: the estimate it carries is not looked at, voting again         *)
(* overwrites it.  In the flat mode "sp" (Task.votes) the track is "flat". *)
(* last_batch_started_at only feeds the duration in reports, and no        *)
(* handler sets revealed_task_id or active_vote_message_id to anything but *)
(* None: the three are left out.                                           *)
(***************************************************************************)
EXTENDS Integers, Sequences, SequencesExt

CONSTANTS
    Tasks,      \* the task ids that can ever be handed out
    Users,      \* the web participants (stable id of the e-mail)
    TeamRoles,  \* the team roles participants choose among when they join
    Modes,      \* the estimation modes managers choose among
    Points,     \* the values of a final estimate
    NoPoints,   \* Task.story_points is None
    Absent      \* the user is not in Session.participants

ASSUME RolesAssumption ==
    /\ TeamRoles \subseteq {"frontend", "backend", "qa", "manager"}
    /\ Absent \notin TeamRoles

ASSUME ModesAssumption ==
    Modes \subseteq {"sp", "sp_dev_test", "sp_split"} /\ Modes # {}

-----------------------------------------------------------------------------
(* Estimation modes and their tracks (app/domain/estimation.py).           *)

Tracks == {"flat", "dev", "test", "front", "back", "qa"}

MODE_CONFIGS ==
    [sp          |-> {"flat"},
     sp_dev_test |-> {"dev", "test"},
     sp_split    |-> {"front", "back", "qa"}]

ROLE_TO_TRACK ==
    [sp_dev_test |-> [frontend |-> "dev",   backend |-> "dev",  qa |-> "test"],
     sp_split    |-> [frontend |-> "front", backend |-> "back", qa |-> "qa"]]

\* The tracks a request for a final estimate gives values for: the request
\* that gives none stands for the one with a value out of range, too.
Forms == UNION {SUBSET MODE_CONFIGS[mode] : mode \in Modes}

\* The track a vote request names, "flat" when it names none.
Named == {"flat"} \cup UNION Forms

\* The tracks a participant with this role votes in: one, or none for a role
\* the mode maps to no track.
ResolveTrack(mode, role) ==
    IF mode = "sp" THEN {"flat"}
    ELSE {ROLE_TO_TRACK[mode][r] : r \in {role} \cap DOMAIN ROLE_TO_TRACK[mode]}

-----------------------------------------------------------------------------
Session ==
    [participants          : [Users -> TeamRoles \cup {Absent}],
     tasks_queue           : Seq(Tasks),
     current_task_index    : Nat,
     history               : Seq(Tasks),
     last_batch            : Seq(Tasks),
     batch_completed       : BOOLEAN,
     started               : BOOLEAN,
     tasks_version         : Nat,
     estimation_mode       : Modes,
     votes                 : [Tasks -> SUBSET (Users \X Tracks)],
     story_points          : [Tasks -> Points \cup {NoPoints}],
     story_points_by_track : [Tasks -> Points \cup {NoPoints}]]

NewSession(mode) ==
    [participants          |-> [u \in Users |-> Absent],
     tasks_queue           |-> <<>>,
     current_task_index    |-> 0,
     history               |-> <<>>,
     last_batch            |-> <<>>,
     batch_completed       |-> FALSE,
     started               |-> FALSE,
     tasks_version         |-> 0,
     estimation_mode       |-> mode,
     votes                 |-> [t \in Tasks |-> {}],
     story_points          |-> [t \in Tasks |-> NoPoints],
     story_points_by_track |-> [t \in Tasks |-> NoPoints]]

\* Session.current_task: indices count from 0 as in the code.
HasCurrent(s) == s.current_task_index < Len(s.tasks_queue)
Current(s)    == s.tasks_queue[s.current_task_index + 1]

VotingActive(s) == HasCurrent(s) /\ s.started /\ ~s.batch_completed

\* session.can_vote: every web participant has the role PARTICIPANT.
CanVote(s, u) == s.participants[u] # Absent

TrackOf(s, u) == ResolveTrack(s.estimation_mode, s.participants[u])

HasVoted(s, u) ==
    /\ CanVote(s, u)
    /\ \E track \in TrackOf(s, u) : <<u, track>> \in s.votes[Current(s)]

AllVotersHaveVoted(s) ==
    /\ \E u \in Users : CanVote(s, u)
    /\ \A u \in Users : CanVote(s, u) => HasVoted(s, u)

\* The phase participants are shown.
Phase(s) ==
    IF s.batch_completed THEN "complete"
    ELSE IF ~VotingActive(s) THEN "waiting"
    ELSE IF AllVotersHaveVoted(s) THEN "results" ELSE "voting"

-----------------------------------------------------------------------------
(* Positions in the queue.                                                 *)

Position(q, t) == CHOOSE i \in 1..Len(q) : q[i] = t

\* Mutant: the filtered list is computed and not assigned.
WithoutNothing(q, t) == q

Without(q, t) == IF Contains(q, t) THEN RemoveAt(q, Position(q, t)) ELSE q

Clamp(i, high) == IF i <= high THEN i ELSE high

\* Session.normalize_current_task_index
Normalized(q, i) == IF q = <<>> THEN 0 ELSE Clamp(i, Len(q) - 1)

\* Mutant: the cursor does not follow its task.
CursorFixed(s, q) == Normalized(q, s.current_task_index)

\* _update_current_index_by_id: the cursor follows its task into the queue q.
CursorIn(s, q) ==
    IF HasCurrent(s) /\ Contains(q, Current(s))
    THEN Position(q, Current(s)) - 1
    ELSE Normalized(q, s.current_task_index)

\* The tasks reports count as played, and that can be reopened.
PlayedInQueue(s) ==
    IF s.batch_completed THEN Len(s.tasks_queue) ELSE s.current_task_index

Completed(s) ==
    ToSet(s.last_batch) \cup ToSet(SubSeq(s.tasks_queue, 1, PlayedInQueue(s)))

OnBoard(s) == ToSet(s.tasks_queue) \cup ToSet(s.last_batch)

\* The values a function on the tasks has in the queue.
Queued(s, f) == [t \in ToSet(s.tasks_queue) |-> f[t]]

\* What the handlers guarded by expected_version act upon.  The points of the
\* finished tasks are no part of it: the export stores the ones it has sent
\* and leaves tasks_version alone.
Board(s) ==
    <<s.tasks_queue, s.current_task_index, s.last_batch, s.history,
      s.batch_completed, s.started, s.estimation_mode,
      Queued(s, s.story_points), Queued(s, s.story_points_by_track)>>

-----------------------------------------------------------------------------
(* Queue management (app/usecases/manage_tasks.py and the Jira imports).   *)

\* new: the manual task, or the issues an import keeps after it has dropped
\* the keys the session already has.
CanEnqueue(s, new) == new # <<>>
\* Mutant: no bump_tasks_version.
EnqueueSilently(s, new) ==
    [s EXCEPT !.tasks_queue = @ \o new, !.batch_completed = FALSE]

Enqueue(s, new) ==
    [s EXCEPT !.tasks_queue     = @ \o new,
              !.batch_completed = FALSE,
              !.tasks_version   = @ + 1]

CanUpdateTask(s, t) == Contains(s.tasks_queue, t)
UpdateTask(s, t, points) ==
    [s EXCEPT !.story_points[t] = points,
              !.tasks_version   = @ + 1]

\* The current task may not be deleted or moved while it is being voted on.
Pinned(s, t) == VotingActive(s) /\ t = Current(s)

CanDeleteTask(s, t) == Contains(s.tasks_queue, t) /\ ~Pinned(s, t)
DeleteTask(s, t) ==
    LET q == Without(s.tasks_queue, t)
    IN  [s EXCEPT !.tasks_queue              = q,
                  !.current_task_index       = CursorIn(s, q),
                  !.tasks_version            = @ + 1,
                  !.votes[t]                 = {},
                  !.story_points[t]          = NoPoints,
                  !.story_points_by_track[t] = NoPoints]

CanMoveTask(s, t) == Contains(s.tasks_queue, t) /\ ~Pinned(s, t)
MoveTask(s, t, target) ==
    LET rest == Without(s.tasks_queue, t)
        q    == InsertAt(rest, Clamp(target, Len(rest)) + 1, t)
    IN  [s EXCEPT !.tasks_queue        = q,
                  !.current_task_index = CursorIn(s, q),
                  !.tasks_version      = @ + 1]

CanReorderTasks(s, order) ==
    /\ Len(order) = Len(s.tasks_queue)
    /\ IsInjective(order)
    /\ ToSet(order) = ToSet(s.tasks_queue)
    /\ VotingActive(s) =>
         Position(order, Current(s)) = Position(s.tasks_queue, Current(s))
ReorderTasks(s, order) ==
    [s EXCEPT !.tasks_queue        = order,
              !.current_task_index = CursorIn(s, order),
              !.tasks_version      = @ + 1]

CanReopen(s, t) == t \in Completed(s) /\ ~VotingActive(s)
Reopen(s, t) ==
    LET inQueue == \E i \in 1..PlayedInQueue(s) : s.tasks_queue[i] = t
        rest    == IF inQueue THEN Without(s.tasks_queue, t) ELSE s.tasks_queue
        cursor  == IF inQueue /\ Position(s.tasks_queue, t) <= s.current_task_index
                   THEN s.current_task_index - 1 ELSE s.current_task_index
        at      == Clamp(cursor, Len(rest))
    IN  [s EXCEPT !.tasks_queue        = InsertAt(rest, at + 1, t),
                  !.current_task_index = at,
                  !.last_batch         = Without(@, t),
                  !.history            = Without(@, t),
                  !.votes[t]           = {},
                  !.batch_completed    = FALSE,
                  !.started            = TRUE,
                  !.tasks_version      = @ + 1]

-----------------------------------------------------------------------------
(* Running a batch (services/voting_service/app/sessions.py).              *)

\* Mutant: the ballots of an earlier round are left.
KeepVotes(s) == s

\* clear_task_votes on the task a round begins with.
ClearCurrentVotes(s) ==
    IF HasCurrent(s) THEN [s EXCEPT !.votes[Current(s)] = {}] ELSE s

CanStart(s) == s.tasks_queue # <<>>
Start(s, mode) ==
    ClearCurrentVotes(
        [s EXCEPT !.estimation_mode    = mode,
                  !.current_task_index = Normalized(s.tasks_queue, @),
                  !.batch_completed    = FALSE,
                  !.started            = TRUE,
                  !.tasks_version      = @ + 1])

\* next and skip
Advance(s) ==
    LET cursor == IF HasCurrent(s) THEN s.current_task_index + 1
                                   ELSE s.current_task_index
        more   == cursor < Len(s.tasks_queue)
    IN  ClearCurrentVotes(
            [s EXCEPT !.current_task_index = cursor,
                      !.started            = more,
                      !.batch_completed    = ~more,
                      !.tasks_version      = @ + 1])

CanSetFinalEstimate(s, tracks) ==
    /\ HasCurrent(s)
    /\ tracks # {} /\ tracks \subseteq MODE_CONFIGS[s.estimation_mode]
SetFinalEstimate(s, points) ==
    IF s.estimation_mode = "sp"
    THEN [s EXCEPT !.story_points[Current(s)] = points,
                   !.tasks_version            = @ + 1]
    ELSE [s EXCEPT !.story_points[Current(s)]          = NoPoints,
                   !.story_points_by_track[Current(s)] = points,
                   !.tasks_version                     = @ + 1]

\* The AI summary of task t is stored only if t is still the current task.
CanSaveAiSummary(s, t) == HasCurrent(s) /\ Current(s) = t
SaveAiSummary(s) == [s EXCEPT !.tasks_version = @ + 1]

\* Mutant: last_batch is replaced, history is appended to.
CloseReplacesBatch(s) ==
    [s EXCEPT !.last_batch         = s.tasks_queue,
              !.history            = @ \o s.tasks_queue,
              !.tasks_queue        = <<>>,
              !.current_task_index = 0,
              !.batch_completed    = TRUE,
              !.started            = FALSE,
              !.tasks_version      = @ + 1]

\* CloseSessionUseCase: the manager's finish and the CMS's close.
Close(s) ==
    [s EXCEPT !.last_batch         = @ \o s.tasks_queue,
              !.history            = @ \o s.tasks_queue,
              !.tasks_queue        = <<>>,
              !.current_task_index = 0,
              !.batch_completed    = TRUE,
              !.started            = FALSE,
              !.tasks_version      = @ + 1]

\* The shared demo session: refilled when its queue is empty, restarted when
\* asked to or when no round is open.
Demo(s, reset, rows) ==
    LET wiped == IF reset
                 THEN [s EXCEPT !.participants = [u \in Users |-> Absent],
                                !.tasks_queue  = <<>>,
                                !.history      = <<>>,
                                !.last_batch   = <<>>]
                 ELSE s
        filled == IF wiped.tasks_queue = <<>>
                  THEN [wiped EXCEPT !.tasks_queue = rows] ELSE wiped
        restarted ==
            IF /\ filled.tasks_queue # <<>>
               /\ \/ reset \/ filled.batch_completed \/ ~filled.started
                  \/ ~HasCurrent(filled)
            THEN ClearCurrentVotes([filled EXCEPT !.current_task_index = 0,
                                                  !.batch_completed    = FALSE,
                                                  !.started            = TRUE])
            ELSE filled
    IN  [restarted EXCEPT !.tasks_version = @ + 1]

-----------------------------------------------------------------------------
(* The export of story points (app/usecases/update_jira_sp.py).            *)

\* The estimates it sends: by track, or the final one, or the highest vote
\* when there is none.
ByTrack(s, t) ==
    s.estimation_mode # "sp" /\ s.story_points_by_track[t] # NoPoints

Sendable(s) ==
    {t \in ToSet(s.last_batch) :
        \/ ByTrack(s, t) \/ s.story_points[t] # NoPoints
        \/ \E u \in Users : <<u, "flat">> \in s.votes[t]}

\* What Jira has accepted for the tasks sent is stored: the highest vote where
\* there was no final estimate.  tasks_version is not raised.
Exported(s, sent, points) ==
    [s EXCEPT !.story_points =
        [t \in Tasks |-> IF /\ t \in sent /\ @[t] = NoPoints
                            /\ ~ByTrack(s, t)
                         THEN points[t] ELSE @[t]]]

-----------------------------------------------------------------------------
(* Participants (app/usecases/web_join.py, app/usecases/web_vote.py).      *)

\* A new participant is inserted; one who joins again keeps the record, with
\* the team role of the new request.
Join(s, u, role) == [s EXCEPT !.participants[u] = role]

\* The vote goes to the task that is current when the request is served, and
\* in the track of the voter's role.  A track the request names ("flat" when it
\* names none) has to be that one; the flat mode does not look at it.
CanCastVote(s, u, track) ==
    /\ HasCurrent(s) /\ CanVote(s, u)
    /\ TrackOf(s, u) # {}
    /\ s.estimation_mode = "sp" \/ track \in TrackOf(s, u) \cup {"flat"}
\* Mutant: the vote replaces the task's ballots.
CastOnlyVote(s, u) ==
    [s EXCEPT !.votes[Current(s)] = {u} \X TrackOf(s, u)]

CastVote(s, u) ==
    [s EXCEPT !.votes[Current(s)] = @ \cup ({u} \X TrackOf(s, u))]
=============================================================================
