------------------------- MODULE PokerSessionProofs -------------------------
(***************************************************************************)
(* Theorems about PokerSession for every set of tasks, users and modes.    *)
(* The first part proves what a step does to the cursor, the round and the *)
(* version, the second what it does to the tasks, the ballots and the      *)
(* phase.                                                                  *)
(***************************************************************************)
EXTENDS PokerSession, SessionOpsProofs

-----------------------------------------------------------------------------
(* The inductive invariant and what a step can do under it.                *)

IInv == TypeOK /\ StartedMeansActive /\ HistoryMatchesLastBatch

\* r is s after a mutation that may open, pass on or end a round.
RoundChanged(s, r) ==
    /\ RoundSound(r)
    /\ r.tasks_version = s.tasks_version + 1
    /\ s.history = s.last_batch => r.history = r.last_batch
    /\ VotingActive(r) =>
         \/ r.votes[Current(r)] = {}
         \/ VotingActive(s) /\ Current(s) = Current(r)

\* r is s after a participant has joined or voted.
ParticipantsOnly(s, r) ==
    /\ Board(r) = Board(s)
    /\ \A t \in Tasks : s.votes[t] \subseteq r.votes[t]

LEMMA SameBoard ==
    ASSUME NEW s, NEW r, Board(r) = Board(s)
    PROVE  /\ r.started = s.started
           /\ r.history = s.history
           /\ r.last_batch = s.last_batch
           /\ VotingActive(r) <=> VotingActive(s)
           /\ Current(r) = Current(s)
  BY DEF Board, VotingActive, HasCurrent, Current

\* So is the export, which changes final estimates only.
LEMMA SameRound ==
    ASSUME NEW s, NEW r, PointsStored(s, r)
    PROVE  /\ VotingActive(r) <=> VotingActive(s)
           /\ Current(r) = Current(s) /\ Voters(r) = Voters(s)
           /\ AllVotersHaveVoted(r) <=> AllVotersHaveVoted(s)
           /\ RoundSound(s) => RoundSound(r)
  <1>1. /\ r.tasks_queue = s.tasks_queue /\ r.current_task_index = s.current_task_index
        /\ r.batch_completed = s.batch_completed /\ r.started = s.started
        /\ r.votes = s.votes /\ r.participants = s.participants
        /\ r.estimation_mode = s.estimation_mode
    BY DEF PointsStored
  <1>2. (VotingActive(r) <=> VotingActive(s)) /\ Current(r) = Current(s)
    BY <1>1 DEF VotingActive, HasCurrent, Current
  <1>3. AllVotersHaveVoted(r) <=> AllVotersHaveVoted(s)
    BY <1>1, <1>2 DEF AllVotersHaveVoted, HasVoted, CanVote, TrackOf
  <1>. QED  BY <1>1, <1>2, <1>3 DEF Voters, RoundSound

LEMMA ListsAreSequences ==
    ASSUME NEW n \in Nat, NEW new \in Lists(n)
    PROVE  new \in Seq(Tasks)
  <1>1. PICK k \in 0..n : new \in [1..k -> Tasks]  BY DEF Lists
  <1>2. k \in Nat  BY <1>1
  <1>. QED  BY <1>1, <1>2, SeqDef

LEMMA InitIInv == Init => IInv
  <1>. SUFFICES ASSUME Init PROVE IInv  OBVIOUS
  <1>1. PICK mode \in Modes : session = NewSession(mode)  BY DEF Init
  <1>2. /\ [u \in Users |-> Absent] \in [Users -> TeamRoles \cup {Absent}]
        /\ [t \in Tasks |-> {}] \in [Tasks -> SUBSET (Users \X Tracks)]
        /\ [t \in Tasks |-> NoPoints] \in [Tasks -> Points \cup {NoPoints}]
        /\ <<>> \in Seq(Tasks)
        /\ 0 \in Nat
    OBVIOUS
  <1>3. NewSession(mode) \in Session
    BY <1>2, ZenonT(30) DEF NewSession, Session
  <1>4. ~NewSession(mode).started
        /\ NewSession(mode).history = NewSession(mode).last_batch
    BY Zenon DEF NewSession
  <1>. QED
    BY <1>1, <1>3, <1>4 DEF Init, IInv, TypeOK, StartedMeansActive,
                            HistoryMatchesLastBatch

\* Every step is one of four kinds.
LEMMA StepKinds ==
    ASSUME IInv, Next
    PROVE  /\ TypeOK'
           /\ \/ RoundUndisturbed(session, session')
              \/ RoundChanged(session, session')
              \/ ParticipantsOnly(session, session')
              \/ PointsStored(session, session')
  <1>. DEFINE Kinds == \/ RoundUndisturbed(session, session')
                       \/ RoundChanged(session, session')
                       \/ ParticipantsOnly(session, session')
                       \/ PointsStored(session, session')
  <1>1. session \in Session /\ issued \subseteq Tasks  BY DEF IInv, TypeOK
  <1>2. RoundSound(session) /\ session.history = session.last_batch
    BY DEF IInv, StartedMeansActive, HistoryMatchesLastBatch, RoundSound
  <1>3. ASSUME NEW new \in Seq(Tasks), FreshTasks(new)
        PROVE  issued' \subseteq Tasks
    <2>1. ToSet(new) \subseteq Tasks  BY DEF ToSet
    <2>. QED  BY <1>1, <1>3, <2>1 DEF FreshTasks
  <1>4. ASSUME NEW t \in Tasks, AddManualTask(t)
        PROVE  TypeOK' /\ Kinds
    <2>1. <<t>> \in Seq(Tasks)  OBVIOUS
    <2>2. session' = Enqueue(session, <<t>>) /\ FreshTasks(<<t>>)
      BY <1>4, Zenon DEF AddManualTask, Write
    <2>. QED  BY <1>1, <1>3, <2>1, <2>2, EnqueueType, EnqueueUndisturbed DEF TypeOK
  <1>5. ASSUME NEW new \in Lists(MaxImport), ImportJiraTasks(new)
        PROVE  TypeOK' /\ Kinds
    <2>1. new \in Seq(Tasks)  BY ListsAreSequences, BoundsAssumption
    <2>2. session' = Enqueue(session, new) /\ FreshTasks(new)
      BY <1>5, Zenon DEF ImportJiraTasks, Write
    <2>. QED  BY <1>1, <1>3, <2>1, <2>2, EnqueueType, EnqueueUndisturbed DEF TypeOK
  <1>6. ASSUME NEW t \in Tasks, RemoveTask(t)
        PROVE  TypeOK' /\ Kinds
    <2>1. /\ CanDeleteTask(session, t)
          /\ session' = DeleteTask(session, t)
          /\ issued' = issued
      BY <1>6, Zenon DEF RemoveTask, Write
    <2>. QED  BY <1>1, <2>1, DeleteTaskType, DeleteTaskUndisturbed DEF TypeOK
  <1>7. ASSUME NEW reset \in BOOLEAN, NEW rows \in Lists(MaxImport),
               OpenDemo(reset, rows)
        PROVE  TypeOK' /\ Kinds
    <2>1. rows \in Seq(Tasks)  BY ListsAreSequences, BoundsAssumption
    <2>2. session' = Demo(session, reset, rows)
      BY <1>7, Zenon DEF OpenDemo, Write
    <2>3. reset \/ session.tasks_queue = <<>> => rows # <<>>
      BY <1>7, Zenon DEF OpenDemo
    <2>4. issued' \subseteq Tasks
      <3>1. FreshTasks(rows) \/ issued' = issued  BY <1>7, Zenon DEF OpenDemo
      <3>. QED  BY <1>1, <1>3, <2>1, <3>1
    <2>5. /\ session' \in Session
          /\ RoundSound(session')
          /\ session'.tasks_version = session.tasks_version + 1
          /\ \/ /\ session'.history = session.history
                /\ session'.last_batch = session.last_batch
             \/ session'.history = session'.last_batch
          /\ VotingActive(session') =>
               \/ session'.votes[Current(session')] = {}
               \/ VotingActive(session) /\ Current(session) = Current(session')
      BY <1>1, <1>2, <2>1, <2>2, <2>3, DemoType, Zenon
    <2>6. RoundChanged(session, session')  BY <2>5, Zenon DEF RoundChanged
    <2>. QED  BY <2>4, <2>5, <2>6 DEF TypeOK
  <1>8. ASSUME NEW t \in Tasks, NEW target \in 0..Len(Queue), ShiftTask(t, target)
        PROVE  TypeOK' /\ Kinds
    <2>1. target \in Nat  OBVIOUS
    <2>2. /\ CanMoveTask(session, t)
          /\ session' = MoveTask(session, t, target)
          /\ issued' = issued
      BY <1>8, Zenon DEF ShiftTask, Write
    <2>. QED  BY <1>1, <2>1, <2>2, MoveTaskType, MoveTaskUndisturbed DEF TypeOK
  <1>9. ASSUME NEW order \in [1..Len(Queue) -> Tasks], ReorderQueue(order)
        PROVE  TypeOK' /\ Kinds
    <2>1. Len(Queue) \in Nat  BY <1>1, SessionFields DEF Queue
    <2>2. order \in Seq(Tasks)  BY <2>1, SeqDef
    <2>3. /\ CanReorderTasks(session, order)
          /\ session' = ReorderTasks(session, order)
          /\ issued' = issued
      BY <1>9, Zenon DEF ReorderQueue, Write
    <2>. QED  BY <1>1, <2>2, <2>3, ReorderTasksType, ReorderTasksUndisturbed
              DEF TypeOK
  <1>10. ASSUME NEW t \in Tasks, ReopenTask(t)
         PROVE  TypeOK' /\ Kinds
    <2>1. session' = Reopen(session, t) /\ issued' = issued
      BY <1>10, Zenon DEF ReopenTask, Write
    <2>2. /\ session' \in Session
          /\ VotingActive(session')
          /\ session'.votes[Current(session')] = {}
          /\ session'.tasks_version = session.tasks_version + 1
          /\ session'.history = Without(session.history, t)
          /\ session'.last_batch = Without(session.last_batch, t)
      BY <1>1, <2>1, ReopenType
    <2>3. session'.history = session'.last_batch  BY <1>2, <2>2
    <2>4. RoundChanged(session, session')
      BY <2>2, <2>3, Zenon DEF RoundChanged, RoundSound
    <2>. QED  BY <1>1, <2>1, <2>2, <2>4 DEF TypeOK
  <1>11. ASSUME NEW mode \in Modes, StartBatch(mode)
         PROVE  TypeOK' /\ Kinds
    <2>1. /\ CanStart(session)
          /\ session' = Start(session, mode)
          /\ issued' = issued
      BY <1>11, Zenon DEF StartBatch, Write
    <2>2. session' \in Session /\ RoundChanged(session, session')
      BY <1>1, <1>2, <2>1, StartType, Zenon DEF RoundChanged, RoundSound
    <2>. QED  BY <1>1, <2>1, <2>2 DEF TypeOK
  <1>12. ASSUME NextTask
         PROVE  TypeOK' /\ Kinds
    <2>1. session' = Advance(session) /\ issued' = issued
      BY <1>12, Zenon DEF NextTask, Write
    <2>2. session' \in Session /\ RoundChanged(session, session')
      BY <1>1, <1>2, <2>1, AdvanceType, Zenon DEF RoundChanged
    <2>. QED  BY <1>1, <2>1, <2>2 DEF TypeOK
  <1>13. ASSUME Finish
         PROVE  TypeOK' /\ Kinds
    <2>1. session' = Close(session) /\ issued' = issued
      BY <1>13, Zenon DEF Finish, Write
    <2>2. session' \in Session /\ RoundChanged(session, session')
      BY <1>1, <1>2, <2>1, CloseType, Zenon
         DEF RoundChanged, RoundSound, VotingActive
    <2>. QED  BY <1>1, <2>1, <2>2 DEF TypeOK
  <1>14. ASSUME NEW t \in Tasks, NEW p \in Points \cup {NoPoints}, EditTask(t, p)
         PROVE  TypeOK' /\ Kinds
    <2>1. session' = UpdateTask(session, t, p) /\ issued' = issued
      BY <1>14, Zenon DEF EditTask, Write
    <2>. QED  BY <1>1, <2>1, UpdateTaskType, AnnotationsUndisturbed DEF TypeOK
  <1>15. ASSUME NEW p \in Points, NEW tracks \in Forms, FinalEstimate(p, tracks)
         PROVE  TypeOK' /\ Kinds
    <2>1. /\ HasCurrent(session)
          /\ session' = SetFinalEstimate(session, p)
          /\ issued' = issued
      BY <1>15, Zenon DEF FinalEstimate, Write, CanSetFinalEstimate
    <2>. QED  BY <1>1, <2>1, SetFinalEstimateType, AnnotationsUndisturbed DEF TypeOK
  <1>16. ASSUME NEW t \in Tasks, StoreAiSummary(t)
         PROVE  TypeOK' /\ Kinds
    <2>1. session' = SaveAiSummary(session) /\ issued' = issued
      BY <1>16, Zenon DEF StoreAiSummary, Write
    <2>. QED  BY <1>1, <2>1, SaveAiSummaryType, AnnotationsUndisturbed DEF TypeOK
  <1>17. ASSUME NEW u \in Users, NEW role \in TeamRoles, JoinSession(u, role)
         PROVE  TypeOK' /\ Kinds
    <2>1. session' = Join(session, u, role) /\ issued' = issued
      BY <1>17, Zenon DEF JoinSession
    <2>2. session' \in Session /\ ParticipantsOnly(session, session')
      BY <1>1, <2>1, JoinType DEF ParticipantsOnly
    <2>. QED  BY <1>1, <2>1, <2>2 DEF TypeOK
  <1>18. ASSUME NEW u \in Users, NEW track \in Named, Vote(u, track)
         PROVE  TypeOK' /\ Kinds
    <2>1. /\ HasCurrent(session)
          /\ session' = CastVote(session, u)
          /\ issued' = issued
      BY <1>18, Zenon DEF Vote, CanCastVote
    <2>2. session' \in Session /\ ParticipantsOnly(session, session')
      BY <1>1, <2>1, CastVoteType DEF ParticipantsOnly
    <2>. QED  BY <1>1, <2>1, <2>2 DEF TypeOK
  <1>19. ASSUME NEW sent \in SUBSET Sendable(session), NEW points \in [sent -> Points],
                ExportPoints(sent, points)
         PROVE  TypeOK' /\ Kinds
    <2>1. session' = Exported(session, sent, points) /\ issued' = issued
      BY <1>19, Zenon DEF ExportPoints
    <2>. QED  BY <1>1, <2>1, ExportedPoints DEF TypeOK
  <1>. HIDE DEF Kinds
  <1>20. TypeOK' /\ Kinds
    BY <1>4, <1>5, <1>6, <1>7, <1>8, <1>9, <1>10, <1>11, <1>12, <1>13, <1>14,
       <1>15, <1>16, <1>17, <1>18, <1>19, Zenon
       DEF Next, Contents, Arrangement, Rounds, Annotations, Participation
  <1>. QED  BY <1>20, Zenon DEF Kinds

LEMMA StepIInv == IInv /\ [Next]_vars => IInv'
  <1>. SUFFICES ASSUME IInv, [Next]_vars PROVE IInv'  OBVIOUS
  <1>1. CASE UNCHANGED vars
    <2>1. session' = session /\ issued' = issued  BY <1>1 DEF vars
    <2>. QED
      BY <2>1 DEF IInv, TypeOK, StartedMeansActive, HistoryMatchesLastBatch,
                  VotingActive, HasCurrent
  <1>2. CASE Next
    <2>1. /\ TypeOK'
          /\ \/ RoundUndisturbed(session, session')
             \/ RoundChanged(session, session')
             \/ ParticipantsOnly(session, session')
             \/ PointsStored(session, session')
      BY <1>2, StepKinds
    <2>2. RoundSound(session) /\ session.history = session.last_batch
      BY DEF IInv, StartedMeansActive, HistoryMatchesLastBatch, RoundSound
    <2>3. CASE RoundUndisturbed(session, session')
      <3>1. RoundSound(session')
        BY <2>2, <2>3, Zenon DEF RoundUndisturbed, RoundSound
      <3>2. session'.history = session'.last_batch
        BY <2>2, <2>3 DEF RoundUndisturbed
      <3>. QED  BY <2>1, <3>1, <3>2
                DEF IInv, StartedMeansActive, HistoryMatchesLastBatch, RoundSound,
                    VotingActive, HasCurrent
    <2>4. CASE RoundChanged(session, session')
      <3>1. RoundSound(session') /\ session'.history = session'.last_batch
        BY <2>2, <2>4, Zenon DEF RoundChanged
      <3>. QED  BY <2>1, <3>1
                DEF IInv, StartedMeansActive, HistoryMatchesLastBatch, RoundSound,
                    VotingActive, HasCurrent
    <2>5. CASE ParticipantsOnly(session, session')
      <3>1. /\ session'.started = session.started
            /\ session'.history = session.history
            /\ session'.last_batch = session.last_batch
            /\ VotingActive(session') <=> VotingActive(session)
        BY <2>5, SameBoard DEF ParticipantsOnly
      <3>2. RoundSound(session') /\ session'.history = session'.last_batch
        BY <2>2, <3>1, Zenon DEF RoundSound
      <3>. QED  BY <2>1, <3>2
                DEF IInv, StartedMeansActive, HistoryMatchesLastBatch, RoundSound,
                    VotingActive, HasCurrent
    <2>6. CASE PointsStored(session, session')
      <3>1. RoundSound(session')  BY <2>2, <2>6, SameRound
      <3>2. session'.history = session'.last_batch  BY <2>2, <2>6 DEF PointsStored
      <3>. QED  BY <2>1, <3>1, <3>2
                DEF IInv, StartedMeansActive, HistoryMatchesLastBatch, RoundSound,
                    VotingActive, HasCurrent
    <2>. QED  BY <2>1, <2>3, <2>4, <2>5, <2>6
  <1>. QED  BY <1>1, <1>2

-----------------------------------------------------------------------------
(* Theorems.                                                               *)

\* The inductive invariant: StartedMeansActive needs the well-formed session to
\* know where the cursor is, HistoryMatchesLastBatch that reopening a task
\* takes it from two equal lists.
THEOREM Inductive == Spec => []IInv
  BY InitIInv, StepIInv, PTL DEF Spec

\* Every handler leaves a well-formed session: no cursor below zero, no ballot
\* outside the tracks, no estimate on a task that does not exist.
THEOREM TypeCorrect == Spec => []TypeOK
  <1>1. IInv => TypeOK  BY DEF IInv
  <1>. QED  BY <1>1, Inductive, PTL

\* A batch with a start time always has a current task and is not completed,
\* for queues and sets of tasks of any size.
THEOREM RoundsAreSound == Spec => []StartedMeansActive
  <1>1. IInv => StartedMeansActive  BY DEF IInv
  <1>. QED  BY <1>1, Inductive, PTL

\* history and last_batch never diverge.
THEOREM ReportsAgree == Spec => []HistoryMatchesLastBatch
  <1>1. IInv => HistoryMatchesLastBatch  BY DEF IInv
  <1>. QED  BY <1>1, Inductive, PTL

\* A round never opens on, or passes to, a task that already has ballots.
THEOREM RoundsStartClean == Spec => RoundStartsClean
  <1>1. ASSUME IInv, [Next]_vars
        PROVE  [VotingActive(session') /\
                (VotingActive(session) => Current(session) # Current(session')) =>
                  session'.votes[Current(session')] = {}]_vars
    <2>1. CASE UNCHANGED vars  BY <2>1
    <2>2. CASE Next
      <3>1. \/ RoundUndisturbed(session, session')
            \/ RoundChanged(session, session')
            \/ ParticipantsOnly(session, session')
            \/ PointsStored(session, session')
        BY <1>1, <2>2, StepKinds
      <3>2. RoundSound(session)
        BY <1>1 DEF IInv, StartedMeansActive, RoundSound
      <3>3. CASE RoundUndisturbed(session, session')
        <4>1. VotingActive(session') => VotingActive(session)
          BY <3>2, <3>3, Zenon DEF RoundUndisturbed, RoundSound, VotingActive
        <4>. QED  BY <3>3, <4>1, Zenon DEF RoundUndisturbed
      <3>4. CASE RoundChanged(session, session')
        BY <3>4, Zenon DEF RoundChanged
      <3>5. CASE ParticipantsOnly(session, session')
        BY <3>5, SameBoard, Zenon DEF ParticipantsOnly
      <3>6. CASE PointsStored(session, session')
        BY <3>6, SameRound, Zenon
      <3>. QED  BY <3>1, <3>3, <3>4, <3>5, <3>6
    <2>. QED  BY <1>1, <2>1, <2>2
  <1>. QED  BY <1>1, Inductive, PTL DEF Spec, RoundStartsClean

-----------------------------------------------------------------------------
(* What a step does to the tasks, the ballots and the phase.               *)

\* The tasks that were handed out are those that may be on the board.
BoardIssued == OnBoard(session) \subseteq issued

RInv ==
    /\ IInv
    /\ TaskOnce
    /\ BallotsFitMode
    /\ BoardIssued
    /\ Within(session)

\* An edit leaves the round, its voters and the finished tasks alone.
Edited(s, r) == RoundUndisturbed(s, r) /\ Voters(r) = Voters(s)

Fits(s) ==
    VotingActive(s) =>
        \A b \in s.votes[Current(s)] : b[2] \in MODE_CONFIGS[s.estimation_mode]

LEMMA EditedFits ==
    ASSUME NEW s, NEW r, RoundSound(s), Edited(s, r), Fits(s)
    PROVE  Fits(r)
  <1>. SUFFICES ASSUME VotingActive(r)
                PROVE  \A b \in r.votes[Current(r)] :
                         b[2] \in MODE_CONFIGS[r.estimation_mode]
    BY Zenon DEF Fits
  <1>1. s.started  BY Zenon DEF VotingActive, Edited, RoundUndisturbed
  <1>2. VotingActive(s)  BY <1>1, Zenon DEF RoundSound
  <1>3. Current(r) = Current(s) /\ r.votes[Current(s)] = s.votes[Current(s)]
    BY <1>2, Zenon DEF Edited, RoundUndisturbed
  <1>4. r.estimation_mode = s.estimation_mode  BY DEF Edited, Voters
  <1>. QED  BY <1>2, <1>3, <1>4 DEF Fits

\* A vote that is complete stays complete while the voters and the mode stay.
LEMMA StillAllVoted ==
    ASSUME NEW s, NEW r, Voters(r) = Voters(s), Current(r) = Current(s),
           s.votes[Current(s)] \subseteq r.votes[Current(s)],
           AllVotersHaveVoted(s)
    PROVE  AllVotersHaveVoted(r)
  <1>1. r.participants = s.participants /\ r.estimation_mode = s.estimation_mode
    BY DEF Voters
  <1>. QED
    BY <1>1 DEF AllVotersHaveVoted, HasVoted, CanVote, TrackOf

LEMMA ResultsShown ==
    ASSUME NEW s
    PROVE  Phase(s) = "results" <=> VotingActive(s) /\ AllVotersHaveVoted(s)
  BY DEF Phase, VotingActive

\* No task is taken from the board, but by a deletion or a reset of the demo.
Losses ==
    \/ OnBoard(session) \subseteq OnBoard(session')
    \/ \E t \in Tasks : RemoveTask(t) /\ OnBoard(session) \ {t}
                                           \subseteq OnBoard(session')
    \/ \E rows \in Lists(MaxImport) : OpenDemo(TRUE, rows)

\* A step opens, passes on, restarts or ends the round, or keeps its ballots.
Opens ==
    /\ VotingActive(session') => session'.votes[Current(session')] = {}
    /\ NextTask \/ (\E mode \in Modes : StartBatch(mode)) \/ ~VotingActive(session)

Ends ==
    /\ session'.votes = session.votes /\ session'.batch_completed

DemoOpens ==
    /\ \E reset \in BOOLEAN, rows \in Lists(MaxImport) : OpenDemo(reset, rows)
    /\ VotingActive(session') =>
         session'.votes[Current(session')] = {} \/ Fits(session')
    /\ VotingActive(session) =>
         \/ Current(session) \notin OnBoard(session')
         \/ session'.votes = session.votes

Joins ==
    \E u \in Users, role \in TeamRoles :
        JoinSession(u, role) /\ ParticipantsOnly(session, session')

Votes ==
    \E u \in Users :
        /\ HasCurrent(session) /\ session' = CastVote(session, u)
        /\ ParticipantsOnly(session, session')
        /\ Voters(session') = Voters(session)

LEMMA SameTasks ==
    ASSUME NEW s, NEW r, r.tasks_queue = s.tasks_queue, r.last_batch = s.last_batch
    PROVE  /\ Once(r) <=> Once(s)
           /\ OnBoard(r) = OnBoard(s)
           /\ r.current_task_index = s.current_task_index => (Within(r) <=> Within(s))
  BY DEF Once, OnBoard, Within

\* Tasks handed out now are on no board yet.
LEMMA FreshRows ==
    ASSUME RInv, NEW new, FreshTasks(new)
    PROVE  /\ IsInjective(new) /\ ToSet(new) \cap OnBoard(session) = {}
           /\ ToSet(new) \subseteq issued' /\ issued \subseteq issued'
  BY DEF RInv, BoardIssued, FreshTasks

LEMMA StepTasks ==
    ASSUME RInv, Next
    PROVE  /\ TaskOnce' /\ BoardIssued' /\ Within(session') /\ Losses
  <1>. DEFINE Kept == /\ Once(session') /\ OnBoard(session') \subseteq issued'
                      /\ Within(session') /\ Losses
  <1>1. session \in Session /\ RoundSound(session)
    BY DEF RInv, IInv, TypeOK, StartedMeansActive, RoundSound
  <1>2. Once(session) /\ OnBoard(session) \subseteq issued /\ Within(session)
    BY DEF RInv, TaskOnce, BoardIssued, Once
  <1>3. ASSUME Once(session'), Within(session'), OnBoard(session') = OnBoard(session),
               issued' = issued
        PROVE  Kept
    BY <1>2, <1>3 DEF Losses
  <1>4. ASSUME session'.tasks_queue = session.tasks_queue,
               session'.last_batch = session.last_batch,
               session'.current_task_index = session.current_task_index,
               issued' = issued
        PROVE  Kept
    BY <1>2, <1>3, <1>4, SameTasks
  <1>5. ASSUME NEW new \in Seq(Tasks), FreshTasks(new), session' = Enqueue(session, new)
        PROVE  Kept
    <2>1. /\ IsInjective(new) /\ ToSet(new) \cap OnBoard(session) = {}
          /\ ToSet(new) \subseteq issued' /\ issued \subseteq issued'
      BY <1>5, FreshRows
    <2>2. /\ Once(session') /\ Within(session')
          /\ OnBoard(session') = OnBoard(session) \cup ToSet(new)
      BY <1>1, <1>2, <1>5, <2>1, EnqueueTasks
    <2>. QED  BY <1>2, <2>1, <2>2 DEF Losses
  <1>6. ASSUME NEW t \in Tasks, AddManualTask(t)
        PROVE  Kept
    <2>1. <<t>> \in Seq(Tasks)  OBVIOUS
    <2>2. session' = Enqueue(session, <<t>>) /\ FreshTasks(<<t>>)
      BY <1>6, Zenon DEF AddManualTask, Write
    <2>. HIDE DEF Kept
    <2>. QED  BY <1>5, <2>1, <2>2
  <1>7. ASSUME NEW new \in Lists(MaxImport), ImportJiraTasks(new)
        PROVE  Kept
    <2>1. new \in Seq(Tasks)  BY ListsAreSequences, BoundsAssumption
    <2>2. session' = Enqueue(session, new) /\ FreshTasks(new)
      BY <1>7, Zenon DEF ImportJiraTasks, Write
    <2>. HIDE DEF Kept
    <2>. QED  BY <1>5, <2>1, <2>2
  <1>8. ASSUME NEW t \in Tasks, RemoveTask(t)
        PROVE  Kept
    <2>1. session' = DeleteTask(session, t) /\ issued' = issued
      BY <1>8, Zenon DEF RemoveTask, Write
    <2>2. /\ Once(session') /\ Within(session')
          /\ OnBoard(session) \ {t} \subseteq OnBoard(session')
          /\ OnBoard(session') \subseteq OnBoard(session)
      BY <1>1, <1>2, <2>1, DeleteTaskTasks
    <2>. QED  BY <1>2, <1>8, <2>1, <2>2 DEF Losses
  <1>9. ASSUME NEW reset \in BOOLEAN, NEW rows \in Lists(MaxImport),
               OpenDemo(reset, rows)
        PROVE  Kept
    <2>1. rows \in Seq(Tasks)  BY ListsAreSequences, BoundsAssumption
    <2>2. session' = Demo(session, reset, rows) /\ IsDemo
      BY <1>9, Zenon DEF OpenDemo, Write
    <2>3. reset \/ session.tasks_queue = <<>> => rows # <<>> /\ FreshTasks(rows)
      BY <1>9, Zenon DEF OpenDemo
    <2>4. ~(reset \/ session.tasks_queue = <<>>) => issued' = issued
      BY <1>9, Zenon DEF OpenDemo
    <2>5. /\ reset => session'.tasks_queue = rows /\ session'.last_batch = <<>>
          /\ ~reset => /\ session'.last_batch = session.last_batch
                       /\ session'.tasks_queue = IF session.tasks_queue = <<>>
                                                 THEN rows ELSE session.tasks_queue
          /\ \/ session'.current_task_index = 0
             \/ /\ session'.current_task_index = session.current_task_index
                /\ session'.tasks_queue = session.tasks_queue
      BY <1>1, <2>1, <2>2, <2>3, DemoTasks, Zenon
    <2>6. Within(session')
      <3>1. session'.tasks_queue \in Seq(Tasks)  BY <1>1, <2>1, <2>5, SessionFields
      <3>. QED  BY <1>2, <2>5, <3>1, EmptySeq DEF Within
    <2>7. CASE reset
      <3>1. /\ session'.tasks_queue = rows /\ session'.last_batch = <<>>
            /\ IsInjective(rows) /\ ToSet(rows) \subseteq issued'
        BY <2>3, <2>5, <2>7, FreshRows
      <3>2. <<>> \in Seq(Tasks) /\ IsInjective(<<>>) /\ ToSet(<<>>) = {}
        BY DEF IsInjective, ToSet
      <3>3. Once(session')  BY <2>1, <3>1, <3>2, OnceParts
      <3>4. OpenDemo(TRUE, rows)  BY <1>9, <2>7
      <3>5. Losses  BY <3>4, Zenon DEF Losses
      <3>. QED  BY <2>2, <2>6, <3>1, <3>2, <3>3, <3>5 DEF OnBoard
    <2>8. CASE ~reset /\ session.tasks_queue = <<>>
      <3>1. /\ session'.tasks_queue = rows /\ session'.last_batch = session.last_batch
            /\ IsInjective(rows) /\ ToSet(rows) \subseteq issued'
            /\ ToSet(rows) \cap OnBoard(session) = {} /\ issued \subseteq issued'
        BY <2>3, <2>5, <2>8, FreshRows
      <3>2. ToSet(<<>>) = {}  BY DEF ToSet
      <3>3. OnBoard(session) = ToSet(session.last_batch)
        BY <2>8, <3>2 DEF OnBoard
      <3>4. session.last_batch \in Seq(Tasks) /\ IsInjective(session.last_batch)
        BY <1>1, <1>2, SessionFields, OnceParts
      <3>5. Once(session')  BY <2>1, <3>1, <3>3, <3>4, OnceParts
      <3>6. OnBoard(session') = ToSet(rows) \cup OnBoard(session)
        BY <3>1, <3>3 DEF OnBoard
      <3>. QED  BY <1>2, <2>6, <3>1, <3>5, <3>6 DEF Losses
    <2>9. CASE ~reset /\ session.tasks_queue # <<>>
      <3>1. /\ session'.tasks_queue = session.tasks_queue
            /\ session'.last_batch = session.last_batch /\ issued' = issued
        BY <2>4, <2>5, <2>9
      <3>2. Once(session') /\ OnBoard(session') = OnBoard(session)
        BY <1>2, <3>1, SameTasks
      <3>. HIDE DEF Kept
      <3>. QED  BY <1>3, <2>6, <3>1, <3>2
    <2>. QED  BY <2>7, <2>8, <2>9
  <1>10. ASSUME NEW t \in Tasks, NEW target \in 0..Len(Queue), ShiftTask(t, target)
         PROVE  Kept
    <2>1. target \in Nat  OBVIOUS
    <2>2. /\ CanMoveTask(session, t) /\ session' = MoveTask(session, t, target)
          /\ issued' = issued
      BY <1>10, Zenon DEF ShiftTask, Write
    <2>. HIDE DEF Kept
    <2>. QED  BY <1>1, <1>2, <1>3, <2>1, <2>2, MoveTaskTasks
  <1>11. ASSUME NEW order \in [1..Len(Queue) -> Tasks], ReorderQueue(order)
         PROVE  Kept
    <2>1. Len(Queue) \in Nat  BY <1>1, SessionFields DEF Queue
    <2>2. order \in Seq(Tasks)  BY <2>1, SeqDef
    <2>3. /\ CanReorderTasks(session, order) /\ session' = ReorderTasks(session, order)
          /\ issued' = issued
      BY <1>11, Zenon DEF ReorderQueue, Write
    <2>. HIDE DEF Kept
    <2>. QED  BY <1>1, <1>2, <1>3, <2>2, <2>3, ReorderTasksTasks
  <1>12. ASSUME NEW t \in Tasks, ReopenTask(t)
         PROVE  Kept
    <2>1. /\ CanReopen(session, t) /\ session' = Reopen(session, t)
          /\ issued' = issued
      BY <1>12, Zenon DEF ReopenTask, Write
    <2>. HIDE DEF Kept
    <2>. QED  BY <1>1, <1>2, <1>3, <2>1, ReopenTasks
  <1>13. ASSUME NEW mode \in Modes, StartBatch(mode)
         PROVE  Kept
    <2>1. session' = Start(session, mode) /\ issued' = issued
      BY <1>13, Zenon DEF StartBatch, Write
    <2>. HIDE DEF Kept
    <2>. QED  BY <1>1, <1>2, <1>3, <2>1, StartTasks, SameTasks
  <1>14. ASSUME NextTask
         PROVE  Kept
    <2>1. session' = Advance(session) /\ issued' = issued
      BY <1>14, Zenon DEF NextTask, Write
    <2>. HIDE DEF Kept
    <2>. QED  BY <1>1, <1>2, <1>3, <2>1, AdvanceTasks, SameTasks
  <1>15. ASSUME Finish
         PROVE  Kept
    <2>1. session' = Close(session) /\ issued' = issued
      BY <1>15, Zenon DEF Finish, Write
    <2>. HIDE DEF Kept
    <2>. QED  BY <1>1, <1>2, <1>3, <2>1, CloseTasks
  <1>16. ASSUME NEW t \in Tasks, NEW p \in Points \cup {NoPoints}, EditTask(t, p)
         PROVE  Kept
    <2>1. session' = UpdateTask(session, t, p) /\ issued' = issued
      BY <1>16, Zenon DEF EditTask, Write
    <2>. HIDE DEF Kept
    <2>. QED  BY <1>1, <1>4, <2>1, AnnotationsTasks
  <1>17. ASSUME NEW p \in Points, NEW tracks \in Forms, FinalEstimate(p, tracks)
         PROVE  Kept
    <2>1. session' = SetFinalEstimate(session, p) /\ issued' = issued
      BY <1>17, Zenon DEF FinalEstimate, Write
    <2>. HIDE DEF Kept
    <2>. QED  BY <1>1, <1>4, <2>1, AnnotationsTasks
  <1>18. ASSUME NEW t \in Tasks, StoreAiSummary(t)
         PROVE  Kept
    <2>1. session' = SaveAiSummary(session) /\ issued' = issued
      BY <1>18, Zenon DEF StoreAiSummary, Write
    <2>. HIDE DEF Kept
    <2>. QED  BY <1>1, <1>4, <2>1, AnnotationsTasks
  <1>19. ASSUME NEW u \in Users, NEW role \in TeamRoles, JoinSession(u, role)
         PROVE  Kept
    <2>1. session' = Join(session, u, role) /\ issued' = issued
      BY <1>19, Zenon DEF JoinSession
    <2>2. Board(session') = Board(session)  BY <1>1, <2>1, JoinType
    <2>. HIDE DEF Kept
    <2>. QED  BY <1>4, <2>1, <2>2 DEF Board
  <1>20. ASSUME NEW u \in Users, NEW track \in Named, Vote(u, track)
         PROVE  Kept
    <2>1. HasCurrent(session) /\ session' = CastVote(session, u) /\ issued' = issued
      BY <1>20, Zenon DEF Vote, CanCastVote
    <2>2. Board(session') = Board(session)  BY <1>1, <2>1, CastVoteType
    <2>. HIDE DEF Kept
    <2>. QED  BY <1>4, <2>1, <2>2 DEF Board
  <1>21. ASSUME NEW sent \in SUBSET Sendable(session), NEW points \in [sent -> Points],
                ExportPoints(sent, points)
         PROVE  Kept
    <2>1. session' = Exported(session, sent, points) /\ issued' = issued
      BY <1>21, Zenon DEF ExportPoints
    <2>2. PointsStored(session, session')  BY <1>1, <2>1, ExportedPoints
    <2>. HIDE DEF Kept
    <2>. QED  BY <1>4, <2>1, <2>2 DEF PointsStored
  <1>. HIDE DEF Kept
  <1>22. Kept
    BY <1>6, <1>7, <1>8, <1>9, <1>10, <1>11, <1>12, <1>13, <1>14, <1>15, <1>16,
       <1>17, <1>18, <1>19, <1>20, <1>21, Zenon
       DEF Next, Contents, Arrangement, Rounds, Annotations, Participation
  <1>. QED  BY <1>22 DEF Kept, Once, TaskOnce, BoardIssued, OnBoard

LEMMA CastVoteVoters ==
    ASSUME NEW s \in Session, NEW u
    PROVE  Voters(CastVote(s, u)) = Voters(s)
           /\ CastVote(s, u).votes
                = [s.votes EXCEPT ![Current(s)] = @ \cup ({u} \X TrackOf(s, u))]
  BY ZenonT(30) DEF CastVote, Session, Voters

LEMMA StepRounds ==
    ASSUME RInv, Next
    PROVE  \/ Edited(session, session') \/ Opens \/ Ends
           \/ DemoOpens \/ Joins \/ Votes \/ PointsStored(session, session')
  <1>. DEFINE Kinds == \/ Edited(session, session') \/ Opens \/ Ends
                       \/ DemoOpens \/ Joins \/ Votes \/ PointsStored(session, session')
  <1>1. session \in Session /\ RoundSound(session) /\ Once(session) /\ Fits(session)
    BY DEF RInv, IInv, TypeOK, StartedMeansActive, RoundSound, TaskOnce, Once,
           BallotsFitMode, Fits
  <1>2. ASSUME NEW new \in Seq(Tasks), FreshTasks(new), session' = Enqueue(session, new)
        PROVE  Kinds
    <2>1. IsInjective(new) /\ ToSet(new) \cap OnBoard(session) = {}
      BY <1>2, FreshRows
    <2>2. Edited(session, session')
      BY <1>1, <1>2, <2>1, EnqueueTasks, EnqueueUndisturbed DEF Edited
    <2>. QED  BY <2>2
  <1>3. ASSUME NEW t \in Tasks, AddManualTask(t)
        PROVE  Kinds
    <2>1. <<t>> \in Seq(Tasks)  OBVIOUS
    <2>2. session' = Enqueue(session, <<t>>) /\ FreshTasks(<<t>>)
      BY <1>3, Zenon DEF AddManualTask, Write
    <2>. HIDE DEF Kinds
    <2>. QED  BY <1>2, <2>1, <2>2
  <1>4. ASSUME NEW new \in Lists(MaxImport), ImportJiraTasks(new)
        PROVE  Kinds
    <2>1. new \in Seq(Tasks)  BY ListsAreSequences, BoundsAssumption
    <2>2. session' = Enqueue(session, new) /\ FreshTasks(new)
      BY <1>4, Zenon DEF ImportJiraTasks, Write
    <2>. HIDE DEF Kinds
    <2>. QED  BY <1>2, <2>1, <2>2
  <1>5. ASSUME NEW t \in Tasks, RemoveTask(t)
        PROVE  Kinds
    <2>1. CanDeleteTask(session, t) /\ session' = DeleteTask(session, t)
      BY <1>5, Zenon DEF RemoveTask, Write
    <2>2. Edited(session, session')
      BY <1>1, <2>1, DeleteTaskTasks, DeleteTaskUndisturbed DEF Edited
    <2>. QED  BY <2>2
  <1>6. ASSUME NEW reset \in BOOLEAN, NEW rows \in Lists(MaxImport),
               OpenDemo(reset, rows)
        PROVE  Kinds
    <2>1. rows \in Seq(Tasks)  BY ListsAreSequences, BoundsAssumption
    <2>2. session' = Demo(session, reset, rows)
      BY <1>6, Zenon DEF OpenDemo, Write
    <2>3. reset \/ session.tasks_queue = <<>> => rows # <<>> /\ FreshTasks(rows)
      BY <1>6, Zenon DEF OpenDemo
    <2>4. /\ reset => session'.tasks_queue = rows /\ session'.last_batch = <<>>
          /\ VotingActive(session') =>
               \/ session'.votes[Current(session')] = {}
               \/ /\ VotingActive(session) /\ Current(session) = Current(session')
                  /\ session'.votes = session.votes
                  /\ session'.estimation_mode = session.estimation_mode
          /\ ~reset /\ VotingActive(session) => session'.votes = session.votes
      BY <1>1, <2>1, <2>2, <2>3, DemoTasks, Zenon
    <2>5. VotingActive(session') =>
            session'.votes[Current(session')] = {} \/ Fits(session')
      BY <1>1, <2>4, Zenon DEF Fits
    <2>6. ASSUME reset, VotingActive(session)
          PROVE  Current(session) \notin OnBoard(session')
      <3>1. ToSet(rows) \cap OnBoard(session) = {}  BY <2>3, <2>6, FreshRows
      <3>2. Current(session) \in OnBoard(session)
        BY <1>1, <2>6, SessionFields, Elements
           DEF VotingActive, HasCurrent, Current, OnBoard, ToSet
      <3>3. ToSet(<<>>) = {}  BY DEF ToSet
      <3>4. OnBoard(session') = ToSet(rows)  BY <2>4, <2>6, <3>3 DEF OnBoard
      <3>. QED  BY <3>1, <3>2, <3>4
    <2>7. DemoOpens  BY <1>6, <2>4, <2>5, <2>6, Zenon DEF DemoOpens
    <2>. QED  BY <2>7
  <1>7. ASSUME NEW t \in Tasks, NEW target \in 0..Len(Queue), ShiftTask(t, target)
        PROVE  Kinds
    <2>1. target \in Nat  OBVIOUS
    <2>2. CanMoveTask(session, t) /\ session' = MoveTask(session, t, target)
      BY <1>7, Zenon DEF ShiftTask, Write
    <2>3. Edited(session, session')
      BY <1>1, <2>1, <2>2, MoveTaskTasks, MoveTaskUndisturbed DEF Edited
    <2>. QED  BY <2>3
  <1>8. ASSUME NEW order \in [1..Len(Queue) -> Tasks], ReorderQueue(order)
        PROVE  Kinds
    <2>1. Len(Queue) \in Nat  BY <1>1, SessionFields DEF Queue
    <2>2. order \in Seq(Tasks)  BY <2>1, SeqDef
    <2>3. CanReorderTasks(session, order) /\ session' = ReorderTasks(session, order)
      BY <1>8, Zenon DEF ReorderQueue, Write
    <2>4. Edited(session, session')
      BY <1>1, <2>2, <2>3, ReorderTasksTasks, ReorderTasksUndisturbed DEF Edited
    <2>. QED  BY <2>4
  <1>9. ASSUME NEW t \in Tasks, ReopenTask(t)
        PROVE  Kinds
    <2>1. CanReopen(session, t) /\ session' = Reopen(session, t)
      BY <1>9, Zenon DEF ReopenTask, Write
    <2>2. session'.votes[Current(session')] = {}  BY <1>1, <2>1, ReopenType
    <2>3. ~VotingActive(session)  BY <2>1 DEF CanReopen
    <2>4. Opens  BY <2>2, <2>3, Zenon DEF Opens
    <2>. QED  BY <2>4
  <1>10. ASSUME NEW mode \in Modes, StartBatch(mode)
         PROVE  Kinds
    <2>1. CanStart(session) /\ session' = Start(session, mode)
      BY <1>10, Zenon DEF StartBatch, Write
    <2>2. session'.votes[Current(session')] = {}  BY <1>1, <2>1, StartType
    <2>3. Opens  BY <1>10, <2>2, Zenon DEF Opens
    <2>. QED  BY <2>3
  <1>11. ASSUME NextTask
         PROVE  Kinds
    <2>1. session' = Advance(session)  BY <1>11, Zenon DEF NextTask, Write
    <2>2. VotingActive(session') => session'.votes[Current(session')] = {}
      BY <1>1, <2>1, AdvanceType
    <2>3. Opens  BY <1>11, <2>2, Zenon DEF Opens
    <2>. QED  BY <2>3
  <1>12. ASSUME Finish
         PROVE  Kinds
    <2>1. session' = Close(session)  BY <1>12, Zenon DEF Finish, Write
    <2>2. Ends  BY <1>1, <2>1, CloseTasks DEF Ends
    <2>. QED  BY <2>2
  <1>13. ASSUME NEW t \in Tasks, NEW p \in Points \cup {NoPoints}, EditTask(t, p)
         PROVE  Kinds
    <2>1. session' = UpdateTask(session, t, p)  BY <1>13, Zenon DEF EditTask, Write
    <2>2. Edited(session, session')
      BY <1>1, <2>1, AnnotationsTasks, AnnotationsUndisturbed DEF Edited
    <2>. QED  BY <2>2
  <1>14. ASSUME NEW p \in Points, NEW tracks \in Forms, FinalEstimate(p, tracks)
         PROVE  Kinds
    <2>1. session' = SetFinalEstimate(session, p)
      BY <1>14, Zenon DEF FinalEstimate, Write
    <2>2. Edited(session, session')
      BY <1>1, <2>1, AnnotationsTasks, AnnotationsUndisturbed DEF Edited
    <2>. QED  BY <2>2
  <1>15. ASSUME NEW t \in Tasks, StoreAiSummary(t)
         PROVE  Kinds
    <2>1. session' = SaveAiSummary(session)  BY <1>15, Zenon DEF StoreAiSummary, Write
    <2>2. Edited(session, session')
      BY <1>1, <2>1, AnnotationsTasks, AnnotationsUndisturbed DEF Edited
    <2>. QED  BY <2>2
  <1>16. ASSUME NEW u \in Users, NEW role \in TeamRoles, JoinSession(u, role)
         PROVE  Kinds
    <2>1. session' = Join(session, u, role)  BY <1>16, Zenon DEF JoinSession
    <2>2. ParticipantsOnly(session, session')
      BY <1>1, <2>1, JoinType DEF ParticipantsOnly
    <2>3. Joins  BY <1>16, <2>2 DEF Joins
    <2>. QED  BY <2>3
  <1>17. ASSUME NEW u \in Users, NEW track \in Named, Vote(u, track)
         PROVE  Kinds
    <2>1. HasCurrent(session) /\ session' = CastVote(session, u)
      BY <1>17, Zenon DEF Vote, CanCastVote
    <2>2. ParticipantsOnly(session, session') /\ Voters(session') = Voters(session)
      BY <1>1, <2>1, CastVoteType, CastVoteVoters DEF ParticipantsOnly
    <2>3. Votes  BY <2>1, <2>2 DEF Votes
    <2>. QED  BY <2>3
  <1>18. ASSUME NEW sent \in SUBSET Sendable(session), NEW points \in [sent -> Points],
                ExportPoints(sent, points)
         PROVE  Kinds
    <2>1. session' = Exported(session, sent, points)
      BY <1>18, Zenon DEF ExportPoints
    <2>. QED  BY <1>1, <2>1, ExportedPoints
  <1>. HIDE DEF Kinds
  <1>19. Kinds
    BY <1>3, <1>4, <1>5, <1>6, <1>7, <1>8, <1>9, <1>10, <1>11, <1>12, <1>13,
       <1>14, <1>15, <1>16, <1>17, <1>18, Zenon
       DEF Next, Contents, Arrangement, Rounds, Annotations, Participation
  <1>. QED  BY <1>19, Zenon DEF Kinds

\* Joining and voting leave the ballots in the tracks of the mode.
LEMMA ParticipantsFit ==
    ASSUME RInv, Joins \/ Votes
    PROVE  Fits(session')
  <1>1. session \in Session /\ Fits(session)
    BY DEF RInv, IInv, TypeOK, BallotsFitMode, Fits
  <1>2. session.estimation_mode \in Modes  BY <1>1, SessionFields
  <1>3. /\ Board(session') = Board(session)
        /\ VotingActive(session') <=> VotingActive(session)
        /\ Current(session') = Current(session)
    BY SameBoard DEF Joins, Votes, ParticipantsOnly
  <1>4. session'.estimation_mode = session.estimation_mode
    BY <1>3 DEF Board
  <1>5. CASE Joins
    <2>1. session'.votes = session.votes
      BY <1>1, <1>5, JoinType DEF Joins, JoinSession
    <2>. QED  BY <1>1, <1>3, <1>4, <2>1, Zenon DEF Fits
  <1>6. CASE Votes
    <2>1. PICK u \in Users : HasCurrent(session) /\ session' = CastVote(session, u)
      BY <1>6 DEF Votes
    <2>. DEFINE c == Current(session)
                b == {u} \X TrackOf(session, u)
    <2>2. session'.votes = [session.votes EXCEPT ![c] = @ \cup b]
      BY <1>1, <2>1, CastVoteVoters, Zenon
    <2>3. c \in Tasks /\ session.votes \in [Tasks -> SUBSET (Users \X Tracks)]
      BY <1>1, <2>1, CurrentType, SessionFields
    <2>4. \A x \in b : x[2] \in MODE_CONFIGS[session.estimation_mode]
      BY <1>2, TracksOfMode DEF TrackOf
    <2>. HIDE DEF b, c
    <2>5. session'.votes[c] = session.votes[c] \cup b  BY <2>2, <2>3
    <2>. QED  BY <1>1, <1>3, <1>4, <2>4, <2>5 DEF Fits, c
  <1>. QED  BY <1>5, <1>6

LEMMA InitRInv == Init => RInv
  <1>. SUFFICES ASSUME Init PROVE RInv  OBVIOUS
  <1>1. PICK mode \in Modes : session = NewSession(mode)  BY DEF Init
  <1>2. /\ session.tasks_queue = <<>> /\ session.last_batch = <<>>
        /\ session.current_task_index = 0 /\ ~session.started
    BY <1>1, Zenon DEF NewSession
  <1>3. <<>> \in Seq(Tasks) /\ IsInjective(<<>>) /\ ToSet(<<>>) = {}
    BY DEF IsInjective, ToSet
  <1>4. TaskOnce
    BY <1>2, <1>3, OnceParts DEF TaskOnce, Once
  <1>5. BoardIssued /\ Within(session) /\ BallotsFitMode
    BY <1>2, <1>3 DEF BoardIssued, OnBoard, Within, BallotsFitMode, VotingActive
  <1>. QED  BY <1>4, <1>5, InitIInv DEF RInv

LEMMA StepRInv == RInv /\ [Next]_vars => RInv'
  <1>. SUFFICES ASSUME RInv, [Next]_vars PROVE RInv'  OBVIOUS
  <1>1. IInv'  BY StepIInv DEF RInv
  <1>2. CASE UNCHANGED vars
    <2>1. session' = session /\ issued' = issued  BY <1>2 DEF vars
    <2>. QED
      BY <1>1, <2>1 DEF RInv, TaskOnce, BoardIssued, OnBoard, Within,
                        BallotsFitMode, VotingActive, HasCurrent, Current
  <1>3. CASE Next
    <2>1. TaskOnce' /\ BoardIssued' /\ Within(session')  BY <1>3, StepTasks
    <2>2. RoundSound(session) /\ Fits(session)
      BY DEF RInv, IInv, StartedMeansActive, RoundSound, BallotsFitMode, Fits
    <2>3. Fits(session')
      <3>1. CASE Edited(session, session')  BY <2>2, <3>1, EditedFits
      <3>2. CASE Opens  BY <3>2 DEF Opens, Fits
      <3>3. CASE Ends  BY <3>3 DEF Ends, Fits, VotingActive
      <3>4. CASE DemoOpens  BY <3>4 DEF DemoOpens, Fits
      <3>5. CASE Joins \/ Votes  BY <3>5, ParticipantsFit
      <3>6. CASE PointsStored(session, session')
        BY <2>2, <3>6, SameRound, Zenon DEF Fits, PointsStored
      <3>. QED  BY <1>3, <3>1, <3>2, <3>3, <3>4, <3>5, <3>6, StepRounds
    <2>4. BallotsFitMode'
      BY <2>3 DEF BallotsFitMode, Fits, VotingActive, HasCurrent, Current
    <2>. QED  BY <1>1, <2>1, <2>4 DEF RInv, Within
  <1>. QED  BY <1>2, <1>3

-----------------------------------------------------------------------------
(* Theorems about the tasks and the ballots.                               *)

\* The second inductive invariant.  BoardIssued says why a fresh task is none
\* the session holds, Within that a played task that is reopened is one of the
\* queue's.
THEOREM TasksAndBallotsInductive == Spec => []RInv
  BY InitRInv, StepRInv, PTL DEF Spec

\* No handler copies a task: queues of any length, imports of any size.
THEOREM TasksStayDistinct == Spec => []TaskOnce
  <1>1. RInv => TaskOnce  BY DEF RInv
  <1>. QED  BY <1>1, TasksAndBallotsInductive, PTL

\* The ballots of an open round are in the tracks of its mode.
THEOREM BallotsAreOfMode == Spec => []BallotsFitMode
  <1>1. RInv => BallotsFitMode  BY DEF RInv
  <1>. QED  BY <1>1, TasksAndBallotsInductive, PTL

\* No request changes what the guarded edits act upon without raising
\* tasks_version.  The tasks the export sends are finished ones, and TaskOnce
\* says that none of them is in the queue as well.
THEOREM VersionsGuard == Spec => VersionGuardsBoard
  <1>1. ASSUME RInv, [Next]_vars
        PROVE  [Board(session') # Board(session) =>
                  session'.tasks_version > session.tasks_version]_vars
    <2>1. CASE UNCHANGED vars  BY <2>1
    <2>2. CASE Next
      <3>1. session.tasks_version \in Nat /\ Once(session)
        BY <1>1, SessionFields DEF RInv, IInv, TypeOK, TaskOnce, Once
      <3>2. \/ session'.tasks_version = session.tasks_version + 1
            \/ Board(session') = Board(session)
        BY <1>1, <2>2, <3>1, StepKinds, Zenon
           DEF RInv, RoundUndisturbed, RoundChanged, ParticipantsOnly, PointsStored
      <3>. QED  BY <3>1, <3>2
    <2>. QED  BY <1>1, <2>1, <2>2
  <1>. QED  BY <1>1, TasksAndBallotsInductive, PTL DEF Spec, VersionGuardsBoard

\* A task leaves the session by its deletion and the reset of the demo only.
THEOREM TasksAreKept == Spec => NoTaskVanishes
  <1>1. ASSUME RInv, [Next]_vars
        PROVE  [\/ OnBoard(session) \subseteq OnBoard(session')
                \/ \E t \in Tasks : RemoveTask(t) /\ OnBoard(session) \ {t}
                                                       \subseteq OnBoard(session')
                \/ \E rows \in Lists(MaxImport) : OpenDemo(TRUE, rows)]_vars
    <2>1. CASE UNCHANGED vars  BY <2>1
    <2>2. CASE Next  BY <1>1, <2>2, StepTasks DEF Losses
    <2>. QED  BY <1>1, <2>1, <2>2
  <1>. QED  BY <1>1, TasksAndBallotsInductive, PTL DEF Spec, NoTaskVanishes

\* A ballot of an open round is kept by every request but start and next.
THEOREM BallotsStay == Spec => BallotsKept
  <1>1. ASSUME RInv, [Next]_vars
        PROVE  [VotingActive(session) =>
                  \/ NextTask \/ (\E mode \in Modes : StartBatch(mode))
                  \/ Current(session) \notin OnBoard(session')
                  \/ session.votes[Current(session)]
                       \subseteq session'.votes[Current(session)]]_vars
    <2>1. CASE UNCHANGED vars  BY <2>1
    <2>2. ASSUME Next, VotingActive(session)
          PROVE  \/ NextTask \/ (\E mode \in Modes : StartBatch(mode))
                 \/ Current(session) \notin OnBoard(session')
                 \/ session.votes[Current(session)]
                      \subseteq session'.votes[Current(session)]
      <3>1. CASE Edited(session, session')
        BY <2>2, <3>1 DEF Edited, RoundUndisturbed
      <3>2. CASE Opens  BY <2>2, <3>2 DEF Opens
      <3>3. CASE Ends  BY <3>3 DEF Ends
      <3>4. CASE DemoOpens  BY <2>2, <3>4 DEF DemoOpens
      <3>5. CASE Joins \/ Votes
        <4>1. Current(session) \in Tasks
          BY <1>1, <2>2, CurrentType DEF RInv, IInv, TypeOK, VotingActive
        <4>. QED  BY <3>5, <4>1 DEF Joins, Votes, ParticipantsOnly
      <3>6. CASE PointsStored(session, session')  BY <3>6 DEF PointsStored
      <3>. QED  BY <1>1, <2>2, <3>1, <3>2, <3>3, <3>4, <3>5, <3>6, StepRounds
    <2>. QED  BY <1>1, <2>1, <2>2
  <1>. QED  BY <1>1, TasksAndBallotsInductive, PTL DEF Spec, BallotsKept

\* Results once shown are taken back by nobody's edit or vote.
THEOREM ResultsAreKept == Spec => ResultsStay
  <1>1. ASSUME RInv, [Next]_vars
        PROVE  [Phase(session) = "results" =>
                  \/ Phase(session') \in {"results", "complete"}
                  \/ NextTask \/ (\E mode \in Modes : StartBatch(mode))
                  \/ \E u \in Users, role \in TeamRoles : JoinSession(u, role)
                  \/ \E reset \in BOOLEAN, rows \in Lists(MaxImport) :
                        OpenDemo(reset, rows)]_vars
    <2>1. CASE UNCHANGED vars  BY <2>1
    <2>2. ASSUME Next, Phase(session) = "results"
          PROVE  \/ Phase(session') \in {"results", "complete"}
                 \/ NextTask \/ (\E mode \in Modes : StartBatch(mode))
                 \/ \E u \in Users, role \in TeamRoles : JoinSession(u, role)
                 \/ \E reset \in BOOLEAN, rows \in Lists(MaxImport) :
                       OpenDemo(reset, rows)
      <3>. DEFINE Shown == VotingActive(session') /\ AllVotersHaveVoted(session')
      <3>1. VotingActive(session) /\ AllVotersHaveVoted(session)
        BY <2>2, ResultsShown
      <3>2. Shown => Phase(session') = "results"  BY ResultsShown
      <3>3. CASE Edited(session, session')
        <4>1. /\ VotingActive(session') /\ Current(session') = Current(session)
              /\ session'.votes[Current(session)] = session.votes[Current(session)]
              /\ Voters(session') = Voters(session)
          BY <3>1, <3>3, Zenon DEF Edited, RoundUndisturbed
        <4>2. AllVotersHaveVoted(session')  BY <3>1, <4>1, StillAllVoted
        <4>. QED  BY <3>2, <4>1, <4>2
      <3>4. CASE Opens  BY <3>1, <3>4 DEF Opens
      <3>5. CASE Ends  BY <3>5 DEF Ends, Phase
      <3>6. CASE DemoOpens  BY <3>6 DEF DemoOpens
      <3>7. CASE Joins  BY <3>7 DEF Joins
      <3>8. CASE Votes
        <4>1. Current(session) \in Tasks
          BY <1>1, <3>1, CurrentType DEF RInv, IInv, TypeOK, VotingActive
        <4>2. /\ VotingActive(session') /\ Current(session') = Current(session)
              /\ session.votes[Current(session)] \subseteq session'.votes[Current(session)]
              /\ Voters(session') = Voters(session)
          BY <3>1, <3>8, <4>1, SameBoard DEF Votes, ParticipantsOnly
        <4>3. AllVotersHaveVoted(session')  BY <3>1, <4>2, StillAllVoted
        <4>. QED  BY <3>2, <4>2, <4>3
      <3>9. CASE PointsStored(session, session')  BY <3>1, <3>2, <3>9, SameRound
      <3>. QED  BY <1>1, <2>2, <3>3, <3>4, <3>5, <3>6, <3>7, <3>8, <3>9, StepRounds
    <2>. QED  BY <1>1, <2>1, <2>2
  <1>. QED  BY <1>1, TasksAndBallotsInductive, PTL DEF Spec, ResultsStay
=============================================================================
