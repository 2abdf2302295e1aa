-------------------------- MODULE SessionOpsProofs --------------------------
(***************************************************************************)
(* Lemmas about the operators of SessionOps, for every set of tasks, users *)
(* and modes: what the queue helpers and the mutators return, what they do *)
(* to an open round and its ballots, and which tasks the lists hold        *)
(* afterwards.  PokerSessionProofs and SessionStoreProofs cite them.       *)
(***************************************************************************)
EXTENDS SessionOps, SequenceTheorems, TLAPS

-----------------------------------------------------------------------------
(* Queue helpers.                                                          *)

LEMMA InsertAtType ==
    ASSUME NEW S, NEW q \in Seq(S), NEW t \in S, NEW i \in 1..(Len(q) + 1)
    PROVE  /\ InsertAt(q, i, t) \in Seq(S)
           /\ Len(InsertAt(q, i, t)) = Len(q) + 1
           /\ InsertAt(q, i, t)[i] = t
  <1>. DEFINE a == SubSeq(q, 1, i - 1)
              b == SubSeq(q, i, Len(q))
              x == a \o <<t>>
  <1>1. a \in Seq(S) /\ b \in Seq(S)  OBVIOUS
  <1>2. Len(a) = i - 1 /\ Len(b) = Len(q) - i + 1  OBVIOUS
  <1>3. InsertAt(q, i, t) = x \o b  BY DEF InsertAt
  <1>. HIDE DEF a, b
  <1>4. x \in Seq(S) /\ Len(x) = i /\ x[i] = t
    <2> DEFINE e == <<t>>
    <2>1. e \in Seq(S) /\ Len(e) = 1 /\ e[1] = t  OBVIOUS
    <2>. HIDE DEF e
    <2>2. /\ a \o e \in Seq(S) /\ Len(a \o e) = Len(a) + Len(e)
          /\ \A k \in 1..(Len(a) + Len(e)) :
               (a \o e)[k] = IF k <= Len(a) THEN a[k] ELSE e[k - Len(a)]
      BY <1>1, <2>1, ConcatProperties, Zenon
    <2>3. /\ Len(a \o e) = i /\ ~ i <= Len(a) /\ i - Len(a) = 1
          /\ i \in 1..(Len(a) + Len(e))
      BY <1>2, <2>1, <2>2
    <2>4. (a \o e)[i] = e[i - Len(a)]  BY <2>2, <2>3, Zenon
    <2>5. x = a \o e  BY DEF e
    <2>. QED  BY <2>1, <2>2, <2>3, <2>4, <2>5, Zenon
  <1>. HIDE DEF x
  <1>5. x \o b \in Seq(S) /\ Len(x \o b) = Len(x) + Len(b)
    BY <1>1, <1>4, ConcatProperties
  <1>6. (x \o b)[i] = x[i]  BY <1>1, <1>2, <1>4, ConcatProperties
  <1>7. Len(x) + Len(b) = Len(q) + 1  BY <1>2, <1>4
  <1>. QED  BY <1>3, <1>4, <1>5, <1>6, <1>7

LEMMA RemoveAtType ==
    ASSUME NEW S, NEW q \in Seq(S), NEW i \in 1..Len(q)
    PROVE  /\ RemoveAt(q, i) \in Seq(S)
           /\ Len(RemoveAt(q, i)) = Len(q) - 1
  <1>. DEFINE a == SubSeq(q, 1, i - 1)
              b == SubSeq(q, i + 1, Len(q))
  <1>1. a \in Seq(S) /\ b \in Seq(S)  OBVIOUS
  <1>2. Len(a) = i - 1 /\ Len(b) = Len(q) - i  OBVIOUS
  <1>3. RemoveAt(q, i) = a \o b  BY DEF RemoveAt
  <1>. HIDE DEF a, b
  <1>. QED  BY <1>1, <1>2, <1>3

LEMMA PositionType ==
    ASSUME NEW S, NEW q \in Seq(S), NEW t, Contains(q, t)
    PROVE  /\ Position(q, t) \in 1..Len(q)
           /\ q[Position(q, t)] = t
  BY DEF Position, Contains

LEMMA WithoutType ==
    ASSUME NEW S, NEW q \in Seq(S), NEW t
    PROVE  Without(q, t) \in Seq(S)
  BY RemoveAtType, PositionType DEF Without

\* Removing another task keeps a task in the queue.
LEMMA WithoutKeeps ==
    ASSUME NEW S, NEW q \in Seq(S), NEW t, NEW c,
           Contains(q, t), Contains(q, c), c # t
    PROVE  Contains(Without(q, t), c)
  <1>. DEFINE p == Position(q, t)
              a == SubSeq(q, 1, p - 1)
              b == SubSeq(q, p + 1, Len(q))
  <1>1. p \in 1..Len(q) /\ q[p] = t  BY PositionType
  <1>2. Without(q, t) = a \o b  BY DEF Without, RemoveAt
  <1>3. PICK j \in 1..Len(q) : q[j] = c  BY DEF Contains
  <1>. HIDE DEF p
  <1>4. a \in Seq(S) /\ b \in Seq(S) /\ Len(a) = p - 1 /\ Len(b) = Len(q) - p
    BY <1>1
  <1>5. CASE j < p
    <2>1. a[j] = c  BY <1>1, <1>3, <1>5
    <2>. HIDE DEF a, b
    <2>2. (a \o b)[j] = c /\ j \in 1..Len(a \o b)  BY <1>1, <1>3, <1>4, <1>5, <2>1
    <2>. QED  BY <1>2, <2>2 DEF Contains
  <1>6. CASE j > p
    <2>1. b[j - p] = c  BY <1>1, <1>3, <1>6
    <2>. HIDE DEF a, b
    <2>2. (a \o b)[j - 1] = c /\ j - 1 \in 1..Len(a \o b)
      BY <1>1, <1>3, <1>4, <1>6, <2>1
    <2>. QED  BY <1>2, <2>2 DEF Contains
  <1>. QED  BY <1>1, <1>3, <1>5, <1>6

LEMMA InsertKeeps ==
    ASSUME NEW S, NEW q \in Seq(S), NEW t \in S, NEW i \in 1..(Len(q) + 1),
           NEW c, Contains(q, c)
    PROVE  Contains(InsertAt(q, i, t), c)
  <1>. DEFINE a == SubSeq(q, 1, i - 1)
              b == SubSeq(q, i, Len(q))
  <1>1. a \in Seq(S) /\ b \in Seq(S) /\ Len(a) = i - 1 /\ Len(b) = Len(q) - i + 1
    OBVIOUS
  <1>2. InsertAt(q, i, t) = a \o <<t>> \o b  BY DEF InsertAt
  <1>3. PICK j \in 1..Len(q) : q[j] = c  BY DEF Contains
  <1>4. CASE j < i
    <2>1. a[j] = c  BY <1>3, <1>4
    <2>. HIDE DEF a, b
    <2>2. /\ (a \o <<t>> \o b)[j] = c
          /\ j \in 1..Len(a \o <<t>> \o b)
      BY <1>1, <1>3, <1>4, <2>1
    <2>. QED  BY <1>2, <2>2 DEF Contains
  <1>5. CASE j >= i
    <2>1. b[j - i + 1] = c  BY <1>3, <1>5
    <2>. HIDE DEF a, b
    <2>2. /\ (a \o <<t>> \o b)[j + 1] = c
          /\ j + 1 \in 1..Len(a \o <<t>> \o b)
      BY <1>1, <1>3, <1>5, <2>1
    <2>. QED  BY <1>2, <2>2 DEF Contains
  <1>. QED  BY <1>3, <1>4, <1>5

-----------------------------------------------------------------------------
(* The mutators map sessions to sessions, and keep an open round open.     *)

\* The part of StartedMeansActive that concerns a session record.
RoundSound(s) == s.started => VotingActive(s)

LEMMA SessionFields ==
    ASSUME NEW s \in Session
    PROVE  /\ s.participants \in [Users -> TeamRoles \cup {Absent}]
           /\ s.tasks_queue \in Seq(Tasks)
           /\ s.current_task_index \in Nat
           /\ s.history \in Seq(Tasks)
           /\ s.last_batch \in Seq(Tasks)
           /\ s.batch_completed \in BOOLEAN
           /\ s.started \in BOOLEAN
           /\ s.tasks_version \in Nat
           /\ s.estimation_mode \in Modes
           /\ s.votes \in [Tasks -> SUBSET (Users \X Tracks)]
           /\ s.story_points \in [Tasks -> Points \cup {NoPoints}]
           /\ s.story_points_by_track \in [Tasks -> Points \cup {NoPoints}]
           /\ s.tasks_version + 1 \in Nat
  <1>1. s.tasks_version \in Nat  BY Zenon DEF Session
  <1>2. s.tasks_version + 1 \in Nat  BY <1>1
  <1>. QED  BY <1>2, Zenon DEF Session

LEMMA CurrentType ==
    ASSUME NEW s \in Session, HasCurrent(s)
    PROVE  Current(s) \in Tasks
  <1>1. s.tasks_queue \in Seq(Tasks) /\ s.current_task_index \in Nat
    BY SessionFields
  <1>. QED  BY <1>1 DEF HasCurrent, Current

\* The cursor follows its task into a queue that still holds it.
LEMMA CursorInType ==
    ASSUME NEW s \in Session, NEW q \in Seq(Tasks)
    PROVE  /\ CursorIn(s, q) \in Nat
           /\ HasCurrent(s) /\ Contains(q, Current(s)) =>
                CursorIn(s, q) < Len(q) /\ q[CursorIn(s, q) + 1] = Current(s)
  <1>1. s.current_task_index \in Nat  BY SessionFields
  <1>2. CASE HasCurrent(s) /\ Contains(q, Current(s))
    <2>1. /\ Position(q, Current(s)) \in 1..Len(q)
          /\ q[Position(q, Current(s))] = Current(s)
      BY <1>2, PositionType
    <2>2. CursorIn(s, q) = Position(q, Current(s)) - 1  BY <1>2 DEF CursorIn
    <2>. QED  BY <2>1, <2>2
  <1>3. CASE ~(HasCurrent(s) /\ Contains(q, Current(s)))
    <2>1. CursorIn(s, q) = Normalized(q, s.current_task_index)
      BY <1>3, Zenon DEF CursorIn
    <2>2. Normalized(q, s.current_task_index) \in Nat
      BY <1>1 DEF Normalized, Clamp
    <2>. QED  BY <1>3, <2>1, <2>2
  <1>. QED  BY <1>2, <1>3

LEMMA VotesCleared ==
    ASSUME NEW s \in Session, NEW t
    PROVE  [s.votes EXCEPT ![t] = {}] \in [Tasks -> SUBSET (Users \X Tracks)]
  BY SessionFields

LEMMA PointsSet ==
    ASSUME NEW f \in [Tasks -> Points \cup {NoPoints}], NEW t,
           NEW p \in Points \cup {NoPoints}
    PROVE  [f EXCEPT ![t] = p] \in [Tasks -> Points \cup {NoPoints}]
  OBVIOUS

LEMMA EnqueueType ==
    ASSUME NEW s \in Session, NEW new \in Seq(Tasks)
    PROVE  Enqueue(s, new) \in Session
  <1>1. s.tasks_queue \o new \in Seq(Tasks)  BY SessionFields
  <1>. QED  BY <1>1, SessionFields, ZenonT(30) DEF Enqueue, Session

LEMMA UpdateTaskType ==
    ASSUME NEW s \in Session, NEW t, NEW p \in Points \cup {NoPoints}
    PROVE  UpdateTask(s, t, p) \in Session
  <1>1. [s.story_points EXCEPT ![t] = p] \in [Tasks -> Points \cup {NoPoints}]
    BY SessionFields, PointsSet
  <1>. QED  BY <1>1, SessionFields, ZenonT(30) DEF UpdateTask, Session

LEMMA DeleteTaskType ==
    ASSUME NEW s \in Session, NEW t
    PROVE  DeleteTask(s, t) \in Session
  <1>. DEFINE q == Without(s.tasks_queue, t)
  <1>1. q \in Seq(Tasks)  BY SessionFields, WithoutType
  <1>2. CursorIn(s, q) \in Nat  BY <1>1, CursorInType
  <1>3. NoPoints \in Points \cup {NoPoints}  OBVIOUS
  <1>4. /\ [s.story_points EXCEPT ![t] = NoPoints] \in [Tasks -> Points \cup {NoPoints}]
        /\ [s.story_points_by_track EXCEPT ![t] = NoPoints] \in [Tasks -> Points \cup {NoPoints}]
    BY <1>3, SessionFields, PointsSet
  <1>. HIDE DEF q
  <1>5. [s EXCEPT !.tasks_queue              = q,
                  !.current_task_index       = CursorIn(s, q),
                  !.tasks_version            = @ + 1,
                  !.votes[t]                 = {},
                  !.story_points[t]          = NoPoints,
                  !.story_points_by_track[t] = NoPoints] \in Session
    BY <1>1, <1>2, <1>4, VotesCleared, SessionFields, ZenonT(30) DEF Session
  <1>. QED  BY <1>5, Zenon DEF DeleteTask, q

LEMMA MovedQueue ==
    ASSUME NEW s \in Session, NEW t \in Tasks, NEW target \in Nat
    PROVE  LET rest == Without(s.tasks_queue, t)
               at   == Clamp(target, Len(rest)) + 1
           IN  /\ rest \in Seq(Tasks)
               /\ at \in 1..(Len(rest) + 1)
               /\ InsertAt(rest, at, t) \in Seq(Tasks)
  <1>. DEFINE rest == Without(s.tasks_queue, t)
              at   == Clamp(target, Len(rest)) + 1
  <1>1. rest \in Seq(Tasks)  BY SessionFields, WithoutType
  <1>. HIDE DEF rest
  <1>2. at \in 1..(Len(rest) + 1)  BY <1>1 DEF Clamp
  <1>. HIDE DEF at
  <1>3. InsertAt(rest, at, t) \in Seq(Tasks)  BY <1>1, <1>2, InsertAtType
  <1>. QED  BY <1>1, <1>2, <1>3, Zenon DEF rest, at

LEMMA MoveTaskType ==
    ASSUME NEW s \in Session, NEW t \in Tasks, NEW target \in Nat
    PROVE  MoveTask(s, t, target) \in Session
  <1>. DEFINE rest == Without(s.tasks_queue, t)
              q    == InsertAt(rest, Clamp(target, Len(rest)) + 1, t)
  <1>1. q \in Seq(Tasks)  BY MovedQueue, Zenon
  <1>2. CursorIn(s, q) \in Nat  BY <1>1, CursorInType
  <1>. HIDE DEF q
  <1>3. [s EXCEPT !.tasks_queue        = q,
                  !.current_task_index = CursorIn(s, q),
                  !.tasks_version      = @ + 1] \in Session
    BY <1>1, <1>2, SessionFields, ZenonT(30) DEF Session
  <1>. QED  BY <1>3, Zenon DEF MoveTask, q

LEMMA ReorderTasksType ==
    ASSUME NEW s \in Session, NEW order \in Seq(Tasks)
    PROVE  ReorderTasks(s, order) \in Session
  <1>1. CursorIn(s, order) \in Nat  BY CursorInType
  <1>. QED  BY <1>1, SessionFields, ZenonT(30) DEF ReorderTasks, Session

LEMMA ReopenedQueue ==
    ASSUME NEW s \in Session, NEW t \in Tasks
    PROVE  LET inQueue == \E i \in 1..PlayedInQueue(s) : s.tasks_queue[i] = t
               rest    == IF inQueue THEN Without(s.tasks_queue, t)
                                     ELSE s.tasks_queue
               cursor  == IF inQueue /\ Position(s.tasks_queue, t)
                                          <= s.current_task_index
                          THEN s.current_task_index - 1
                          ELSE s.current_task_index
               at      == Clamp(cursor, Len(rest))
               q       == InsertAt(rest, at + 1, t)
           IN  /\ q \in Seq(Tasks)
               /\ at \in Nat
               /\ at < Len(q)
               /\ q[at + 1] = t
  <1>. DEFINE inQueue == \E i \in 1..PlayedInQueue(s) : s.tasks_queue[i] = t
              rest    == IF inQueue THEN Without(s.tasks_queue, t)
                                    ELSE s.tasks_queue
              cursor  == IF inQueue /\ Position(s.tasks_queue, t)
                                         <= s.current_task_index
                         THEN s.current_task_index - 1
                         ELSE s.current_task_index
              at      == Clamp(cursor, Len(rest))
              q       == InsertAt(rest, at + 1, t)
  <1>1. /\ s.tasks_queue \in Seq(Tasks)
        /\ s.current_task_index \in Nat
        /\ s.batch_completed \in BOOLEAN
    BY SessionFields
  <1>2. rest \in Seq(Tasks)  BY <1>1, WithoutType
  <1>3. cursor \in Nat
    <2>1. CASE inQueue /\ Position(s.tasks_queue, t) <= s.current_task_index
      <3>1. Contains(s.tasks_queue, t)
            \/ \E i \in 1..s.current_task_index : s.tasks_queue[i] = t
        BY <1>1, <2>1 DEF PlayedInQueue, Contains
      <3>2. s.current_task_index # 0
        <4>1. CASE Contains(s.tasks_queue, t)
          <5>1. Position(s.tasks_queue, t) \in 1..Len(s.tasks_queue)
            BY <1>1, <4>1, PositionType
          <5>. QED  BY <1>1, <2>1, <5>1
        <4>2. CASE \E i \in 1..s.current_task_index : s.tasks_queue[i] = t
          BY <1>1, <4>2
        <4>. QED  BY <3>1, <4>1, <4>2
      <3>. HIDE DEF inQueue
      <3>. QED  BY <1>1, <2>1, <3>2
    <2>2. CASE ~(inQueue /\ Position(s.tasks_queue, t) <= s.current_task_index)
      <3>. HIDE DEF inQueue
      <3>. QED  BY <1>1, <2>2
    <2>. QED  BY <2>1, <2>2
  <1>. HIDE DEF inQueue, rest, cursor
  <1>4. at \in Nat /\ at + 1 \in 1..(Len(rest) + 1)  BY <1>2, <1>3 DEF Clamp
  <1>. HIDE DEF at
  <1>5. /\ q \in Seq(Tasks)
        /\ Len(q) = Len(rest) + 1
        /\ q[at + 1] = t
    BY <1>2, <1>4, InsertAtType
  <1>6. at < Len(q)  BY <1>2, <1>4, <1>5
  <1>. HIDE DEF q
  <1>7. /\ q \in Seq(Tasks)
        /\ at \in Nat
        /\ at < Len(q)
        /\ q[at + 1] = t
    BY <1>4, <1>5, <1>6
  <1>. QED  BY <1>7, Zenon DEF inQueue, rest, cursor, at, q

\* A reopened task is the current task of an open round.
LEMMA ReopenType ==
    ASSUME NEW s \in Session, NEW t \in Tasks
    PROVE  /\ Reopen(s, t) \in Session
           /\ VotingActive(Reopen(s, t))
           /\ Current(Reopen(s, t)) = t
           /\ Reopen(s, t).votes[t] = {}
           /\ Reopen(s, t).tasks_version = s.tasks_version + 1
           /\ Reopen(s, t).history = Without(s.history, t)
           /\ Reopen(s, t).last_batch = Without(s.last_batch, t)
  <1>. DEFINE inQueue == \E i \in 1..PlayedInQueue(s) : s.tasks_queue[i] = t
              rest    == IF inQueue THEN Without(s.tasks_queue, t)
                                    ELSE s.tasks_queue
              cursor  == IF inQueue /\ Position(s.tasks_queue, t)
                                         <= s.current_task_index
                         THEN s.current_task_index - 1
                         ELSE s.current_task_index
              at      == Clamp(cursor, Len(rest))
              q       == InsertAt(rest, at + 1, t)
              r       == [s EXCEPT !.tasks_queue        = q,
                                   !.current_task_index = at,
                                   !.last_batch         = Without(@, t),
                                   !.history            = Without(@, t),
                                   !.votes[t]           = {},
                                   !.batch_completed    = FALSE,
                                   !.started            = TRUE,
                                   !.tasks_version      = @ + 1]
  <1>1. q \in Seq(Tasks) /\ at \in Nat /\ at < Len(q) /\ q[at + 1] = t
    BY ReopenedQueue, Zenon
  <1>2. Reopen(s, t) = r  BY Zenon DEF Reopen
  <1>. HIDE DEF q, at
  <1>3. /\ Without(s.history, t) \in Seq(Tasks)
        /\ Without(s.last_batch, t) \in Seq(Tasks)
    BY SessionFields, WithoutType
  <1>4. r \in Session
    BY <1>1, <1>3, VotesCleared, SessionFields, ZenonT(30) DEF Session
  <1>5. /\ r.tasks_queue = q
        /\ r.current_task_index = at
        /\ r.batch_completed = FALSE
        /\ r.started = TRUE
        /\ r.votes = [s.votes EXCEPT ![t] = {}]
        /\ r.tasks_version = s.tasks_version + 1
        /\ r.history = Without(s.history, t)
        /\ r.last_batch = Without(s.last_batch, t)
    BY ZenonT(30) DEF Session
  <1>. HIDE DEF r
  <1>6. VotingActive(r) /\ Current(r) = t
    BY <1>1, <1>5 DEF VotingActive, HasCurrent, Current
  <1>7. r.votes[t] = {}  BY <1>5, SessionFields
  <1>. QED  BY <1>2, <1>4, <1>5, <1>6, <1>7

\* Starting a round touches the ballots of the current task and nothing else.
LEMMA ClearCurrentVotesType ==
    ASSUME NEW s \in Session
    PROVE  LET r == ClearCurrentVotes(s)
           IN  /\ r \in Session
               /\ HasCurrent(r) <=> HasCurrent(s)
               /\ HasCurrent(s) =>
                    Current(r) = Current(s) /\ r.votes[Current(s)] = {}
               /\ r.batch_completed = s.batch_completed
               /\ r.started = s.started
               /\ r.tasks_version = s.tasks_version
               /\ r.tasks_queue = s.tasks_queue
               /\ r.history = s.history
               /\ r.last_batch = s.last_batch
  <1>. DEFINE r == ClearCurrentVotes(s)
  <1>1. CASE ~HasCurrent(s)
    <2>1. r = s  BY <1>1 DEF ClearCurrentVotes
    <2>. QED  BY <1>1, <2>1
  <1>2. CASE HasCurrent(s)
    <2>1. r = [s EXCEPT !.votes[Current(s)] = {}]
      BY <1>2, Zenon DEF ClearCurrentVotes
    <2>2. r \in Session
      BY <2>1, VotesCleared, SessionFields, ZenonT(30) DEF Session
    <2>3. /\ r.tasks_queue = s.tasks_queue
          /\ r.current_task_index = s.current_task_index
          /\ r.batch_completed = s.batch_completed
          /\ r.started = s.started
          /\ r.tasks_version = s.tasks_version
          /\ r.history = s.history
          /\ r.last_batch = s.last_batch
          /\ r.votes = [s.votes EXCEPT ![Current(s)] = {}]
      BY <2>1, ZenonT(30) DEF Session
    <2>4. r.votes[Current(s)] = {}
      BY <1>2, <2>3, CurrentType, SessionFields
    <2>. HIDE DEF r
    <2>5. (HasCurrent(r) <=> HasCurrent(s)) /\ Current(r) = Current(s)
      BY <2>3, Zenon DEF HasCurrent, Current
    <2>6. /\ r \in Session
          /\ HasCurrent(r) <=> HasCurrent(s)
          /\ Current(r) = Current(s) /\ r.votes[Current(s)] = {}
      BY <2>2, <2>4, <2>5
    <2>. QED  BY <2>3, <2>6, Zenon DEF r
  <1>. QED  BY <1>1, <1>2

LEMMA StartType ==
    ASSUME NEW s \in Session, NEW mode \in Modes, CanStart(s)
    PROVE  /\ Start(s, mode) \in Session
           /\ VotingActive(Start(s, mode))
           /\ Start(s, mode).votes[Current(Start(s, mode))] = {}
           /\ Start(s, mode).tasks_version = s.tasks_version + 1
           /\ Start(s, mode).history = s.history
           /\ Start(s, mode).last_batch = s.last_batch
  <1>. DEFINE i == Normalized(s.tasks_queue, s.current_task_index)
              r == [s EXCEPT !.estimation_mode    = mode,
                             !.current_task_index = i,
                             !.batch_completed    = FALSE,
                             !.started            = TRUE,
                             !.tasks_version      = @ + 1]
  <1>1. i \in Nat /\ i < Len(s.tasks_queue)
    <2>1. /\ s.tasks_queue \in Seq(Tasks) /\ s.tasks_queue # <<>>
          /\ s.current_task_index \in Nat
      BY SessionFields DEF CanStart
    <2>2. Len(s.tasks_queue) \in Nat \ {0}  BY <2>1
    <2>. QED  BY <2>1, <2>2 DEF Normalized, Clamp
  <1>2. Start(s, mode) = ClearCurrentVotes(r)  BY Zenon DEF Start
  <1>. HIDE DEF i
  <1>3. r \in Session  BY <1>1, SessionFields, ZenonT(30) DEF Session
  <1>4. /\ r.tasks_queue = s.tasks_queue
        /\ r.current_task_index = i
        /\ r.batch_completed = FALSE
        /\ r.started = TRUE
        /\ r.tasks_version = s.tasks_version + 1
        /\ r.history = s.history
        /\ r.last_batch = s.last_batch
    BY ZenonT(30) DEF Session
  <1>. HIDE DEF r
  <1>5. HasCurrent(r)  BY <1>1, <1>4 DEF HasCurrent
  <1>6. VotingActive(Start(s, mode))
    BY <1>2, <1>3, <1>4, <1>5, ClearCurrentVotesType, Zenon DEF VotingActive
  <1>. QED  BY <1>2, <1>3, <1>4, <1>5, <1>6, ClearCurrentVotesType, Zenon

LEMMA AdvanceType ==
    ASSUME NEW s \in Session
    PROVE  /\ Advance(s) \in Session
           /\ RoundSound(Advance(s))
           /\ VotingActive(Advance(s)) =>
                Advance(s).votes[Current(Advance(s))] = {}
           /\ Advance(s).tasks_version = s.tasks_version + 1
           /\ Advance(s).history = s.history
           /\ Advance(s).last_batch = s.last_batch
  <1>. DEFINE cursor == IF HasCurrent(s) THEN s.current_task_index + 1
                                         ELSE s.current_task_index
              more   == cursor < Len(s.tasks_queue)
              r      == [s EXCEPT !.current_task_index = cursor,
                                  !.started            = more,
                                  !.batch_completed    = ~more,
                                  !.tasks_version      = @ + 1]
  <1>1. cursor \in Nat  BY SessionFields
  <1>2. Advance(s) = ClearCurrentVotes(r)  BY Zenon DEF Advance
  <1>3. more \in BOOLEAN /\ (~more) \in BOOLEAN  OBVIOUS
  <1>. HIDE DEF cursor
  <1>4. r \in Session  BY <1>1, <1>3, SessionFields, ZenonT(30) DEF Session
  <1>5. /\ r.tasks_queue = s.tasks_queue
        /\ r.current_task_index = cursor
        /\ r.batch_completed = ~more
        /\ r.started = more
        /\ r.tasks_version = s.tasks_version + 1
        /\ r.history = s.history
        /\ r.last_batch = s.last_batch
    BY ZenonT(30) DEF Session
  <1>. HIDE DEF r
  <1>6. r.started => HasCurrent(r) /\ ~r.batch_completed
    BY <1>5, Zenon DEF HasCurrent
  <1>7. RoundSound(Advance(s))
    BY <1>2, <1>4, <1>6, ClearCurrentVotesType, Zenon DEF RoundSound, VotingActive
  <1>8. VotingActive(Advance(s)) =>
          Advance(s).votes[Current(Advance(s))] = {}
    BY <1>2, <1>4, ClearCurrentVotesType, ZenonT(30) DEF VotingActive
  <1>. QED  BY <1>2, <1>4, <1>5, <1>7, <1>8, ClearCurrentVotesType, ZenonT(30)

LEMMA SetFinalEstimateType ==
    ASSUME NEW s \in Session, NEW p \in Points, HasCurrent(s)
    PROVE  SetFinalEstimate(s, p) \in Session
  <1>. DEFINE c == Current(s)
  <1>1. p \in Points \cup {NoPoints} /\ NoPoints \in Points \cup {NoPoints}
    OBVIOUS
  <1>2. /\ [s.story_points EXCEPT ![c] = p] \in [Tasks -> Points \cup {NoPoints}]
        /\ [s.story_points EXCEPT ![c] = NoPoints] \in [Tasks -> Points \cup {NoPoints}]
        /\ [s.story_points_by_track EXCEPT ![c] = p] \in [Tasks -> Points \cup {NoPoints}]
    BY <1>1, SessionFields, PointsSet
  <1>3. [s EXCEPT !.story_points[c] = p,
                  !.tasks_version   = @ + 1] \in Session
    BY <1>2, SessionFields, ZenonT(30) DEF Session
  <1>4. [s EXCEPT !.story_points[c]          = NoPoints,
                  !.story_points_by_track[c] = p,
                  !.tasks_version            = @ + 1] \in Session
    BY <1>2, SessionFields, ZenonT(30) DEF Session
  <1>. QED  BY <1>3, <1>4, Zenon DEF SetFinalEstimate

LEMMA SaveAiSummaryType ==
    ASSUME NEW s \in Session
    PROVE  SaveAiSummary(s) \in Session
  BY SessionFields, ZenonT(30) DEF SaveAiSummary, Session

LEMMA CloseType ==
    ASSUME NEW s \in Session
    PROVE  /\ Close(s) \in Session
           /\ ~Close(s).started
           /\ Close(s).tasks_version = s.tasks_version + 1
           /\ Close(s).history = s.history \o s.tasks_queue
           /\ Close(s).last_batch = s.last_batch \o s.tasks_queue
  <1>1. /\ s.last_batch \o s.tasks_queue \in Seq(Tasks)
        /\ s.history \o s.tasks_queue \in Seq(Tasks)
        /\ <<>> \in Seq(Tasks)
        /\ 0 \in Nat
    BY SessionFields
  <1>. QED  BY <1>1, SessionFields, ZenonT(30) DEF Close, Session

LEMMA JoinType ==
    ASSUME NEW s \in Session, NEW u \in Users, NEW role \in TeamRoles
    PROVE  /\ Join(s, u, role) \in Session
           /\ Board(Join(s, u, role)) = Board(s)
           /\ Join(s, u, role).votes = s.votes
  <1>1. [s.participants EXCEPT ![u] = role] \in [Users -> TeamRoles \cup {Absent}]
    BY SessionFields
  <1>2. Join(s, u, role) \in Session
    BY <1>1, SessionFields, ZenonT(30) DEF Join, Session
  <1>. QED  BY <1>2, ZenonT(30) DEF Join, Board, Queued, Session

\* A participant votes in tracks of the session's mode only.
LEMMA TracksOfMode ==
    ASSUME NEW mode \in Modes, NEW role
    PROVE  /\ ResolveTrack(mode, role) \subseteq MODE_CONFIGS[mode]
           /\ MODE_CONFIGS[mode] \subseteq Tracks
  <1>1. CASE mode = "sp"
    <2>1. ResolveTrack(mode, role) = {"flat"}  BY <1>1 DEF ResolveTrack
    <2>2. MODE_CONFIGS[mode] = {"flat"}  BY <1>1 DEF MODE_CONFIGS
    <2>. QED  BY <2>1, <2>2 DEF Tracks
  <1>2. CASE mode = "sp_dev_test"
    <2>1. ROLE_TO_TRACK[mode] =
            [frontend |-> "dev", backend |-> "dev", qa |-> "test"]
      BY <1>2 DEF ROLE_TO_TRACK
    <2>2. MODE_CONFIGS[mode] = {"dev", "test"}  BY <1>2 DEF MODE_CONFIGS
    <2>3. ResolveTrack(mode, role) =
            {ROLE_TO_TRACK[mode][r] : r \in {role} \cap DOMAIN ROLE_TO_TRACK[mode]}
      BY <1>2 DEF ResolveTrack
    <2>. QED  BY <2>1, <2>2, <2>3 DEF Tracks
  <1>3. CASE mode = "sp_split"
    <2>1. ROLE_TO_TRACK[mode] =
            [frontend |-> "front", backend |-> "back", qa |-> "qa"]
      BY <1>3 DEF ROLE_TO_TRACK
    <2>2. MODE_CONFIGS[mode] = {"front", "back", "qa"}  BY <1>3 DEF MODE_CONFIGS
    <2>3. ResolveTrack(mode, role) =
            {ROLE_TO_TRACK[mode][r] : r \in {role} \cap DOMAIN ROLE_TO_TRACK[mode]}
      BY <1>3 DEF ResolveTrack
    <2>. QED  BY <2>1, <2>2, <2>3 DEF Tracks
  <1>. QED  BY <1>1, <1>2, <1>3, ModesAssumption

LEMMA CastVoteType ==
    ASSUME NEW s \in Session, NEW u \in Users, HasCurrent(s)
    PROVE  /\ CastVote(s, u) \in Session
           /\ Board(CastVote(s, u)) = Board(s)
           /\ \A t \in Tasks : s.votes[t] \subseteq CastVote(s, u).votes[t]
  <1>. DEFINE c == Current(s)
              b == {u} \X TrackOf(s, u)
              v == [s.votes EXCEPT ![c] = @ \cup b]
  <1>1. TrackOf(s, u) \subseteq Tracks
    BY TracksOfMode, SessionFields DEF TrackOf
  <1>2. b \subseteq Users \X Tracks  BY <1>1
  <1>3. CastVote(s, u) = [s EXCEPT !.votes[c] = @ \cup b]  BY Zenon DEF CastVote
  <1>. HIDE DEF b, c
  <1>4. v \in [Tasks -> SUBSET (Users \X Tracks)]  BY <1>2, SessionFields
  <1>5. \A t \in Tasks : s.votes[t] \subseteq v[t]  BY SessionFields
  <1>6. CastVote(s, u) \in Session
    BY <1>3, <1>4, SessionFields, ZenonT(30) DEF Session
  <1>7. CastVote(s, u).votes = v  BY <1>3, ZenonT(30) DEF Session
  <1>8. Board(CastVote(s, u)) = Board(s)
    BY <1>3, ZenonT(30) DEF Board, Queued, Session
  <1>. QED  BY <1>5, <1>6, <1>7, <1>8

-----------------------------------------------------------------------------
(* Edits of the queue and of the tasks.                                    *)

\* r is s after an edit that raises the version and leaves an open round, its
\* task and its ballots alone.
RoundUndisturbed(s, r) ==
    /\ r.tasks_version = s.tasks_version + 1
    /\ r.history = s.history
    /\ r.last_batch = s.last_batch
    /\ r.started = s.started
    /\ VotingActive(s) =>
         /\ VotingActive(r)
         /\ Current(r) = Current(s)
         /\ r.votes[Current(s)] = s.votes[Current(s)]

\* Edits that leave the cursor and the tasks up to it in place.
LEMMA SamePlace ==
    ASSUME NEW s, NEW r, NEW q, NEW i, NEW v,
           r.tasks_queue = q, r.current_task_index = i,
           r.started = s.started, r.votes = v,
           VotingActive(s) =>
             /\ ~r.batch_completed
             /\ i < Len(q)
             /\ q[i + 1] = Current(s)
             /\ v[Current(s)] = s.votes[Current(s)],
           r.tasks_version = s.tasks_version + 1,
           r.history = s.history, r.last_batch = s.last_batch
    PROVE  RoundUndisturbed(s, r)
  <1>1. ASSUME VotingActive(s)
        PROVE  VotingActive(r) /\ Current(r) = Current(s)
               /\ r.votes[Current(s)] = s.votes[Current(s)]
    <2>1. s.started  BY <1>1, Zenon DEF VotingActive
    <2>2. i < Len(q) /\ q[i + 1] = Current(s) /\ ~r.batch_completed
          /\ v[Current(s)] = s.votes[Current(s)]
      BY <1>1, Zenon
    <2>. QED  BY <2>1, <2>2, Zenon DEF VotingActive, HasCurrent, Current
  <1>. QED  BY <1>1, Zenon DEF RoundUndisturbed

LEMMA EnqueueUndisturbed ==
    ASSUME NEW s \in Session, NEW new \in Seq(Tasks)
    PROVE  RoundUndisturbed(s, Enqueue(s, new))
  <1>. DEFINE r == Enqueue(s, new)
              q == s.tasks_queue \o new
              i == s.current_task_index
  <1>1. /\ r.tasks_queue = q
        /\ r.current_task_index = i
        /\ r.batch_completed = FALSE
        /\ r.started = s.started
        /\ r.votes = s.votes
        /\ r.tasks_version = s.tasks_version + 1
        /\ r.history = s.history
        /\ r.last_batch = s.last_batch
    BY ZenonT(30) DEF Enqueue, Session
  <1>2. s.tasks_queue \in Seq(Tasks) /\ i \in Nat  BY SessionFields
  <1>3. HasCurrent(s) => i < Len(q) /\ q[i + 1] = Current(s)
    BY <1>2 DEF HasCurrent, Current
  <1>. HIDE DEF r, q, i
  <1>4. RoundUndisturbed(s, r)
    BY <1>1, <1>3, SamePlace, Zenon DEF VotingActive
  <1>. QED  BY <1>4, Zenon DEF r

LEMMA DeleteTaskUndisturbed ==
    ASSUME NEW s \in Session, NEW t, CanDeleteTask(s, t)
    PROVE  RoundUndisturbed(s, DeleteTask(s, t))
  <1>. DEFINE r == DeleteTask(s, t)
              q == Without(s.tasks_queue, t)
              i == CursorIn(s, q)
              v == [s.votes EXCEPT ![t] = {}]
  <1>1. /\ r.tasks_queue = q
        /\ r.current_task_index = i
        /\ r.batch_completed = s.batch_completed
        /\ r.started = s.started
        /\ r.votes = v
        /\ r.tasks_version = s.tasks_version + 1
        /\ r.history = s.history
        /\ r.last_batch = s.last_batch
    BY ZenonT(30) DEF DeleteTask, Session
  <1>2. ASSUME VotingActive(s)
        PROVE  i < Len(q) /\ q[i + 1] = Current(s)
               /\ v[Current(s)] = s.votes[Current(s)]
    <2>1. HasCurrent(s) /\ t # Current(s) /\ Contains(s.tasks_queue, t)
      BY <1>2, Zenon DEF CanDeleteTask, Pinned, VotingActive
    <2>2. s.tasks_queue \in Seq(Tasks)  BY SessionFields
    <2>3. Contains(s.tasks_queue, Current(s))
      BY <2>1, <2>2, SessionFields DEF HasCurrent, Current, Contains
    <2>4. Contains(q, Current(s))  BY <2>1, <2>2, <2>3, WithoutKeeps
    <2>5. q \in Seq(Tasks)  BY <2>2, WithoutType
    <2>6. v[Current(s)] = s.votes[Current(s)]
      BY <2>1, CurrentType, SessionFields
    <2>. HIDE DEF q
    <2>. QED  BY <2>1, <2>4, <2>5, <2>6, CursorInType
  <1>. HIDE DEF r, q, i, v
  <1>3. RoundUndisturbed(s, r)
    BY <1>1, <1>2, SamePlace, Zenon DEF VotingActive
  <1>. QED  BY <1>3, Zenon DEF r

LEMMA MoveTaskUndisturbed ==
    ASSUME NEW s \in Session, NEW t \in Tasks, NEW target \in Nat,
           CanMoveTask(s, t)
    PROVE  RoundUndisturbed(s, MoveTask(s, t, target))
  <1>. DEFINE r    == MoveTask(s, t, target)
              rest == Without(s.tasks_queue, t)
              at   == Clamp(target, Len(rest)) + 1
              q    == InsertAt(rest, at, t)
              i    == CursorIn(s, q)
  <1>1. /\ r.tasks_queue = q
        /\ r.current_task_index = i
        /\ r.batch_completed = s.batch_completed
        /\ r.started = s.started
        /\ r.votes = s.votes
        /\ r.tasks_version = s.tasks_version + 1
        /\ r.history = s.history
        /\ r.last_batch = s.last_batch
    BY ZenonT(30) DEF MoveTask, Session
  <1>2. /\ rest \in Seq(Tasks)
        /\ at \in 1..(Len(rest) + 1)
        /\ q \in Seq(Tasks)
    BY MovedQueue, Zenon
  <1>3. ASSUME VotingActive(s)
        PROVE  i < Len(q) /\ q[i + 1] = Current(s)
    <2>1. HasCurrent(s) /\ t # Current(s) /\ Contains(s.tasks_queue, t)
      BY <1>3, Zenon DEF CanMoveTask, Pinned, VotingActive
    <2>2. s.tasks_queue \in Seq(Tasks)  BY SessionFields
    <2>3. Contains(s.tasks_queue, Current(s))
      BY <2>1, <2>2, SessionFields DEF HasCurrent, Current, Contains
    <2>4. Contains(rest, Current(s))  BY <2>1, <2>2, <2>3, WithoutKeeps
    <2>. HIDE DEF rest, at
    <2>5. Contains(q, Current(s))  BY <1>2, <2>4, InsertKeeps
    <2>. HIDE DEF q
    <2>. QED  BY <1>2, <2>1, <2>5, CursorInType
  <1>. HIDE DEF r, q, i
  <1>4. RoundUndisturbed(s, r)
    BY <1>1, <1>3, SamePlace, Zenon DEF VotingActive
  <1>. QED  BY <1>4, Zenon DEF r

LEMMA ReorderTasksUndisturbed ==
    ASSUME NEW s \in Session, NEW order \in Seq(Tasks),
           CanReorderTasks(s, order)
    PROVE  RoundUndisturbed(s, ReorderTasks(s, order))
  <1>. DEFINE r == ReorderTasks(s, order)
              i == CursorIn(s, order)
  <1>1. /\ r.tasks_queue = order
        /\ r.current_task_index = i
        /\ r.batch_completed = s.batch_completed
        /\ r.started = s.started
        /\ r.votes = s.votes
        /\ r.tasks_version = s.tasks_version + 1
        /\ r.history = s.history
        /\ r.last_batch = s.last_batch
    BY ZenonT(30) DEF ReorderTasks, Session
  <1>2. ASSUME VotingActive(s)
        PROVE  i < Len(order) /\ order[i + 1] = Current(s)
    <2>1. HasCurrent(s)  BY <1>2, Zenon DEF VotingActive
    <2>2. s.tasks_queue \in Seq(Tasks) /\ s.current_task_index \in Nat
      BY SessionFields
    <2>3. Current(s) \in ToSet(s.tasks_queue)
      BY <2>1, <2>2 DEF HasCurrent, Current, ToSet
    <2>4. Current(s) \in ToSet(order)  BY <2>3 DEF CanReorderTasks
    <2>5. Contains(order, Current(s))  BY <2>4 DEF Contains, ToSet
    <2>. QED  BY <2>1, <2>5, CursorInType
  <1>. HIDE DEF r, i
  <1>3. RoundUndisturbed(s, r)
    BY <1>1, <1>2, SamePlace, Zenon DEF VotingActive
  <1>. QED  BY <1>3, Zenon DEF r

LEMMA AnnotationsUndisturbed ==
    ASSUME NEW s \in Session, NEW t, NEW p
    PROVE  /\ RoundUndisturbed(s, UpdateTask(s, t, p))
           /\ RoundUndisturbed(s, SetFinalEstimate(s, p))
           /\ RoundUndisturbed(s, SaveAiSummary(s))
  <1>1. ASSUME NEW r,
               r.tasks_queue = s.tasks_queue,
               r.current_task_index = s.current_task_index,
               r.batch_completed = s.batch_completed,
               r.started = s.started,
               r.votes = s.votes,
               r.tasks_version = s.tasks_version + 1,
               r.history = s.history,
               r.last_batch = s.last_batch
        PROVE  RoundUndisturbed(s, r)
    BY <1>1, Zenon DEF RoundUndisturbed, VotingActive, HasCurrent, Current
  <1>2. RoundUndisturbed(s, UpdateTask(s, t, p))
    <2>. DEFINE r == UpdateTask(s, t, p)
    <2>1. /\ r.tasks_queue = s.tasks_queue
          /\ r.current_task_index = s.current_task_index
          /\ r.batch_completed = s.batch_completed
          /\ r.started = s.started
          /\ r.votes = s.votes
          /\ r.tasks_version = s.tasks_version + 1
          /\ r.history = s.history
          /\ r.last_batch = s.last_batch
      BY ZenonT(30) DEF UpdateTask, Session
    <2>. QED  BY <1>1, <2>1, Zenon
  <1>3. RoundUndisturbed(s, SetFinalEstimate(s, p))
    <2>. DEFINE r == SetFinalEstimate(s, p)
    <2>1. /\ r.tasks_queue = s.tasks_queue
          /\ r.current_task_index = s.current_task_index
          /\ r.batch_completed = s.batch_completed
          /\ r.started = s.started
          /\ r.votes = s.votes
          /\ r.tasks_version = s.tasks_version + 1
          /\ r.history = s.history
          /\ r.last_batch = s.last_batch
      <3>1. CASE s.estimation_mode = "sp"
        <4>1. r = [s EXCEPT !.story_points[Current(s)] = p,
                            !.tasks_version            = @ + 1]
          BY <3>1, Zenon DEF SetFinalEstimate
        <4>. HIDE DEF r
        <4>. QED  BY <4>1, ZenonT(30) DEF Session
      <3>2. CASE s.estimation_mode # "sp"
        <4>1. r = [s EXCEPT !.story_points[Current(s)]          = NoPoints,
                            !.story_points_by_track[Current(s)] = p,
                            !.tasks_version                     = @ + 1]
          BY <3>2, Zenon DEF SetFinalEstimate
        <4>. HIDE DEF r
        <4>. QED  BY <4>1, ZenonT(30) DEF Session
      <3>. QED  BY <3>1, <3>2
    <2>. QED  BY <1>1, <2>1, Zenon
  <1>4. RoundUndisturbed(s, SaveAiSummary(s))
    <2>. DEFINE r == SaveAiSummary(s)
    <2>1. /\ r.tasks_queue = s.tasks_queue
          /\ r.current_task_index = s.current_task_index
          /\ r.batch_completed = s.batch_completed
          /\ r.started = s.started
          /\ r.votes = s.votes
          /\ r.tasks_version = s.tasks_version + 1
          /\ r.history = s.history
          /\ r.last_batch = s.last_batch
      BY ZenonT(30) DEF SaveAiSummary, Session
    <2>. QED  BY <1>1, <2>1, Zenon
  <1>. QED  BY <1>2, <1>3, <1>4

\* The demo page either leaves the round alone or opens a clean one.
LEMMA DemoType ==
    ASSUME NEW s \in Session, RoundSound(s), NEW reset \in BOOLEAN,
           NEW rows \in Seq(Tasks),
           reset \/ s.tasks_queue = <<>> => rows # <<>>
    PROVE  LET r == Demo(s, reset, rows)
           IN  /\ r \in Session
               /\ RoundSound(r)
               /\ r.tasks_version = s.tasks_version + 1
               /\ \/ r.history = s.history /\ r.last_batch = s.last_batch
                  \/ r.history = r.last_batch
               /\ VotingActive(r) =>
                    \/ r.votes[Current(r)] = {}
                    \/ VotingActive(s) /\ Current(s) = Current(r)
  <1>. DEFINE wiped == IF reset
                       THEN [s EXCEPT !.participants = [u \in Users |-> Absent],
                                      !.tasks_queue  = <<>>,
                                      !.history      = <<>>,
                                      !.last_batch   = <<>>]
                       ELSE s
              filled == IF wiped.tasks_queue = <<>>
                        THEN [wiped EXCEPT !.tasks_queue = rows] ELSE wiped
              opened == [filled EXCEPT !.current_task_index = 0,
                                       !.batch_completed    = FALSE,
                                       !.started            = TRUE]
              stale  == /\ filled.tasks_queue # <<>>
                        /\ \/ reset \/ filled.batch_completed
                           \/ ~filled.started
                           \/ ~HasCurrent(filled)
              restarted == IF stale THEN ClearCurrentVotes(opened) ELSE filled
              r == [restarted EXCEPT !.tasks_version = @ + 1]
  <1>1. Demo(s, reset, rows) = r  BY Zenon DEF Demo
  <1>2. wiped \in Session
    <2>1. /\ [u \in Users |-> Absent] \in [Users -> TeamRoles \cup {Absent}]
          /\ <<>> \in Seq(Tasks)
      OBVIOUS
    <2>2. [s EXCEPT !.participants = [u \in Users |-> Absent],
                    !.tasks_queue  = <<>>,
                    !.history      = <<>>,
                    !.last_batch   = <<>>] \in Session
      BY <2>1, SessionFields, ZenonT(30) DEF Session
    <2>. QED  BY <2>2, Zenon
  <1>3. /\ wiped.tasks_version = s.tasks_version
        /\ \/ wiped.history = s.history /\ wiped.last_batch = s.last_batch
           \/ wiped.history = wiped.last_batch
    <2>1. CASE reset
      <3>1. wiped = [s EXCEPT !.participants = [u \in Users |-> Absent],
                              !.tasks_queue  = <<>>,
                              !.history      = <<>>,
                              !.last_batch   = <<>>]
        BY <2>1, Zenon
      <3>. HIDE DEF wiped
      <3>. QED  BY <3>1, ZenonT(30) DEF Session
    <2>2. CASE ~reset
      <3>1. wiped = s  BY <2>2, Zenon
      <3>. QED  BY <3>1, Zenon
    <2>. QED  BY <2>1, <2>2
  <1>4. ~reset => wiped = s  BY Zenon
  <1>. HIDE DEF wiped
  <1>5. /\ filled \in Session
        /\ filled.tasks_version = wiped.tasks_version
        /\ filled.history = wiped.history
        /\ filled.last_batch = wiped.last_batch
    <2>1. /\ [wiped EXCEPT !.tasks_queue = rows] \in Session
          /\ [wiped EXCEPT !.tasks_queue = rows].tasks_version = wiped.tasks_version
          /\ [wiped EXCEPT !.tasks_queue = rows].history = wiped.history
          /\ [wiped EXCEPT !.tasks_queue = rows].last_batch = wiped.last_batch
      BY <1>2, SessionFields, ZenonT(30) DEF Session
    <2>. QED  BY <1>2, <2>1, Zenon
  <1>6. wiped.tasks_queue # <<>> => filled = wiped  BY Zenon
  <1>7. filled.tasks_queue = <<>> => wiped.tasks_queue = <<>>  BY <1>6, Zenon
  <1>. HIDE DEF filled
  <1>8. opened \in Session
    <2>1. 0 \in Nat  OBVIOUS
    <2>. QED  BY <1>5, <2>1, SessionFields, ZenonT(30) DEF Session
  <1>9. /\ opened.tasks_queue = filled.tasks_queue
        /\ opened.current_task_index = 0
        /\ opened.batch_completed = FALSE
        /\ opened.started = TRUE
        /\ opened.tasks_version = filled.tasks_version
        /\ opened.history = filled.history
        /\ opened.last_batch = filled.last_batch
    BY <1>5, ZenonT(30) DEF Session
  <1>. HIDE DEF opened
  <1>10. stale => HasCurrent(opened)
    <2>1. filled.tasks_queue \in Seq(Tasks)  BY <1>5, SessionFields
    <2>2. filled.tasks_queue # <<>> => 0 < Len(filled.tasks_queue)  BY <2>1
    <2>. QED  BY <1>9, <2>2, Zenon DEF HasCurrent
  <1>11. CASE stale
    <2>1. restarted = ClearCurrentVotes(opened)  BY <1>11, Zenon
    <2>. HIDE DEF restarted
    <2>2. /\ restarted \in Session
          /\ VotingActive(restarted)
          /\ restarted.votes[Current(restarted)] = {}
          /\ restarted.tasks_version = s.tasks_version
          /\ restarted.history = filled.history
          /\ restarted.last_batch = filled.last_batch
      <3>1. HasCurrent(opened)  BY <1>10, <1>11
      <3>. HIDE DEF stale
      <3>. QED
        BY <1>3, <1>5, <1>8, <1>9, <2>1, <3>1, ClearCurrentVotesType, Zenon
           DEF VotingActive
    <2>3. r \in Session
      BY <2>2, SessionFields, ZenonT(30) DEF Session
    <2>4. /\ r.tasks_queue = restarted.tasks_queue
          /\ r.current_task_index = restarted.current_task_index
          /\ r.started = restarted.started
          /\ r.batch_completed = restarted.batch_completed
          /\ r.votes = restarted.votes
          /\ r.tasks_version = restarted.tasks_version + 1
          /\ r.history = restarted.history
          /\ r.last_batch = restarted.last_batch
      BY <2>2, ZenonT(30) DEF Session
    <2>. HIDE DEF r, stale
    <2>5. VotingActive(r) /\ r.votes[Current(r)] = {}
      BY <2>2, <2>4, Zenon DEF VotingActive, HasCurrent, Current
    <2>6. r.tasks_version = s.tasks_version + 1  BY <2>2, <2>4, Zenon
    <2>7. \/ r.history = s.history /\ r.last_batch = s.last_batch
          \/ r.history = r.last_batch
      BY <1>3, <1>5, <2>2, <2>4, Zenon
    <2>8. RoundSound(r)  BY <2>5, Zenon DEF RoundSound
    <2>. QED  BY <1>1, <2>3, <2>5, <2>6, <2>7, <2>8, Zenon
  <1>12. CASE ~stale
    <2>1. r = [filled EXCEPT !.tasks_version = @ + 1]  BY <1>12, Zenon
    <2>2. ~reset /\ filled = s
      <3>1. CASE wiped.tasks_queue # <<>>
        <4>1. filled.tasks_queue # <<>>  BY <1>6, <3>1, Zenon
        <4>2. ~reset  BY <1>12, <4>1, Zenon
        <4>. QED  BY <1>4, <1>6, <3>1, <4>2, Zenon
      <3>2. CASE wiped.tasks_queue = <<>>
        <4>1. filled = [wiped EXCEPT !.tasks_queue = rows]
          BY <3>2, Zenon DEF filled
        <4>2. filled.tasks_queue = rows /\ filled.started = wiped.started
          BY <1>2, <4>1, Zenon DEF Session
        <4>3. rows # <<>>  BY <1>4, <3>2, Zenon
        <4>4. ~reset /\ filled.started  BY <1>12, <4>2, <4>3, Zenon
        <4>5. s.started /\ s.tasks_queue = <<>>  BY <1>4, <3>2, <4>2, <4>4, Zenon
        <4>6. HasCurrent(s)  BY <4>5, Zenon DEF RoundSound, VotingActive
        <4>7. Len(s.tasks_queue) = 0  BY <4>5
        <4>. QED  BY <4>6, <4>7, SessionFields DEF HasCurrent
      <3>. QED  BY <3>1, <3>2
    <2>. HIDE DEF r, stale, restarted
    <2>3. r \in Session  BY <2>1, <2>2, SessionFields, ZenonT(30) DEF Session
    <2>4. /\ r.tasks_queue = s.tasks_queue
          /\ r.current_task_index = s.current_task_index
          /\ r.started = s.started
          /\ r.batch_completed = s.batch_completed
          /\ r.tasks_version = s.tasks_version + 1
          /\ r.history = s.history
          /\ r.last_batch = s.last_batch
      BY <2>1, <2>2, ZenonT(30) DEF Session
    <2>5. (VotingActive(r) <=> VotingActive(s)) /\ Current(r) = Current(s)
      BY <2>4, Zenon DEF VotingActive, HasCurrent, Current
    <2>6. RoundSound(r)  BY <2>4, <2>5, Zenon DEF RoundSound
    <2>. QED  BY <1>1, <2>3, <2>4, <2>5, <2>6, Zenon
  <1>. QED  BY <1>11, <1>12

-----------------------------------------------------------------------------
(* What the list helpers do to the tasks of a list without repetitions.    *)

LEMMA Elements ==
    ASSUME NEW S, NEW q \in Seq(S)
    PROVE  /\ Len(q) \in Nat /\ DOMAIN q = 1..Len(q)
           /\ ToSet(q) = {q[i] : i \in 1..Len(q)}
           /\ \A x : x \in ToSet(q) <=> Contains(q, x)
  BY LenProperties DEF ToSet, Contains

LEMMA ConcatElements ==
    ASSUME NEW S, NEW a \in Seq(S), NEW b \in Seq(S)
    PROVE  /\ ToSet(a \o b) = ToSet(a) \cup ToSet(b)
           /\ IsInjective(a \o b) <=> /\ IsInjective(a) /\ IsInjective(b)
                                      /\ ToSet(a) \cap ToSet(b) = {}
  <1>. DEFINE c == a \o b
  <1>1. /\ c \in Seq(S) /\ Len(c) = Len(a) + Len(b)
        /\ Len(a) \in Nat /\ Len(b) \in Nat
        /\ \A i \in 1..Len(a) : i \in 1..Len(c) /\ c[i] = a[i]
        /\ \A i \in 1..Len(b) : Len(a) + i \in 1..Len(c) /\ c[Len(a) + i] = b[i]
    <2>1. /\ c \in Seq(S) /\ Len(c) = Len(a) + Len(b)
          /\ Len(a) \in Nat /\ Len(b) \in Nat
          /\ \A i \in 1..(Len(a) + Len(b)) :
               c[i] = IF i <= Len(a) THEN a[i] ELSE b[i - Len(a)]
      BY ConcatProperties, LenProperties
    <2>. HIDE DEF c
    <2>2. ASSUME NEW i \in 1..Len(b)
          PROVE  Len(a) + i \in 1..Len(c) /\ c[Len(a) + i] = b[i]
      <3>1. /\ Len(a) + i \in 1..Len(c) /\ ~(Len(a) + i <= Len(a))
            /\ (Len(a) + i) - Len(a) = i
        BY <2>1
      <3>. QED  BY <2>1, <3>1
    <2>. QED  BY <2>1, <2>2
  <1>. HIDE DEF c
  <1>2. \A k \in 1..Len(c) : \/ k \in 1..Len(a)
                             \/ \E i \in 1..Len(b) : k = Len(a) + i
    <2>. SUFFICES ASSUME NEW k \in 1..Len(c), k \notin 1..Len(a)
                  PROVE  \E i \in 1..Len(b) : k = Len(a) + i
      OBVIOUS
    <2>1. k - Len(a) \in 1..Len(b) /\ k = Len(a) + (k - Len(a))  BY <1>1
    <2>. QED  BY <2>1
  <1>3. /\ DOMAIN a = 1..Len(a) /\ DOMAIN b = 1..Len(b) /\ DOMAIN c = 1..Len(c)
    BY <1>1, Elements
  <1>4. ToSet(c) = ToSet(a) \cup ToSet(b)
    <2>1. \A k \in 1..Len(c) : c[k] \in ToSet(a) \cup ToSet(b)
      BY <1>1, <1>2, <1>3 DEF ToSet
    <2>2. \A i \in 1..Len(a) : a[i] \in ToSet(c)  BY <1>1, <1>3 DEF ToSet
    <2>3. \A i \in 1..Len(b) : b[i] \in ToSet(c)  BY <1>1, <1>3 DEF ToSet
    <2>. QED  BY <1>3, <2>1, <2>2, <2>3 DEF ToSet
  <1>5. ASSUME IsInjective(c)
        PROVE  /\ IsInjective(a) /\ IsInjective(b)
               /\ ToSet(a) \cap ToSet(b) = {}
    <2>1. IsInjective(a)  BY <1>1, <1>3, <1>5 DEF IsInjective
    <2>2. ASSUME NEW i \in 1..Len(b), NEW j \in 1..Len(b), b[i] = b[j]
          PROVE  i = j
      <3>1. Len(a) + i = Len(a) + j  BY <1>1, <1>3, <1>5, <2>2 DEF IsInjective
      <3>. QED  BY <1>1, <3>1
    <2>3. ASSUME NEW i \in 1..Len(a), NEW j \in 1..Len(b), a[i] = b[j]
          PROVE  FALSE
      <3>1. i = Len(a) + j  BY <1>1, <1>3, <1>5, <2>3 DEF IsInjective
      <3>. QED  BY <1>1, <3>1
    <2>. QED  BY <1>3, <2>1, <2>2, <2>3 DEF IsInjective, ToSet
  <1>6. ASSUME IsInjective(a), IsInjective(b), ToSet(a) \cap ToSet(b) = {},
               NEW k \in 1..Len(c), NEW l \in 1..Len(c), c[k] = c[l]
        PROVE  k = l
    <2>1. \A i \in 1..Len(a) : c[i] \in ToSet(a)  BY <1>1, <1>3 DEF ToSet
    <2>2. \A i \in 1..Len(b) : c[Len(a) + i] \in ToSet(b)  BY <1>1, <1>3 DEF ToSet
    <2>3. CASE k \in 1..Len(a) /\ l \in 1..Len(a)
      BY <1>1, <1>3, <1>6, <2>3 DEF IsInjective
    <2>4. ASSUME NEW i \in 1..Len(b), NEW j \in 1..Len(b),
                 k = Len(a) + i, l = Len(a) + j
          PROVE  k = l
      <3>1. b[i] = b[j]  BY <1>1, <1>6, <2>4
      <3>2. i = j  BY <1>3, <1>6, <3>1 DEF IsInjective
      <3>. QED  BY <2>4, <3>2
    <2>. QED  BY <1>2, <1>6, <2>1, <2>2, <2>3, <2>4
  <1>. QED  BY <1>3, <1>4, <1>5, <1>6 DEF IsInjective, c

LEMMA WithoutElements ==
    ASSUME NEW S, NEW q \in Seq(S), IsInjective(q), NEW t
    PROVE  /\ Without(q, t) \in Seq(S) /\ IsInjective(Without(q, t))
           /\ ToSet(Without(q, t)) = ToSet(q) \ {t}
  <1>1. CASE ~Contains(q, t)
    <2>1. Without(q, t) = q  BY <1>1, Zenon DEF Without
    <2>. QED  BY <1>1, <2>1, Elements
  <1>2. CASE Contains(q, t)
    <2>. DEFINE p == Position(q, t)
                a == SubSeq(q, 1, p - 1)
                b == SubSeq(q, p + 1, Len(q))
    <2>1. p \in 1..Len(q) /\ q[p] = t  BY <1>2, PositionType
    <2>2. Without(q, t) = a \o b  BY <1>2, Zenon DEF Without, RemoveAt
    <2>3. Len(q) \in Nat /\ DOMAIN q = 1..Len(q) /\ ToSet(q) = {q[i] : i \in 1..Len(q)}
      BY Elements
    <2>. HIDE DEF p
    <2>4. /\ a \in Seq(S) /\ Len(a) = p - 1 /\ \A i \in 1..(p - 1) : a[i] = q[i]
          /\ b \in Seq(S) /\ Len(b) = Len(q) - p
          /\ \A i \in 1..(Len(q) - p) : b[i] = q[p + i]
      <3>1. /\ a \in Seq(S) /\ Len(a) = p - 1 /\ \A i \in 1..(p - 1) : a[i] = q[i]
        BY <2>1, <2>3
      <3>2. /\ b \in Seq(S) /\ Len(b) = Len(q) - p
            /\ \A i \in 1..(Len(q) - p) : b[i] = q[p + i]
        <4>1. \A i \in (p + 1)..Len(q) : q[i] \in S
          BY <2>1, <2>3
        <4>2. /\ b \in Seq(S)
              /\ Len(b) = IF p + 1 <= Len(q) THEN Len(q) - (p + 1) + 1 ELSE 0
              /\ \A i \in 1..(Len(q) - (p + 1) + 1) : b[i] = q[(p + 1) + i - 1]
          BY <2>1, <2>3, <4>1, SubSeqProperties
        <4>. HIDE DEF b
        <4>3. Len(b) = Len(q) - p
          <5>1. Len(b) = IF p + 1 <= Len(q) THEN Len(q) - (p + 1) + 1 ELSE 0
            BY <4>2
          <5>2. p \in 1..Len(q) /\ Len(q) \in Nat  BY <2>1, <2>3
          <5>. QED  BY <5>1, <5>2
        <4>4. \A i \in 1..(Len(q) - p) :
                i \in 1..(Len(q) - (p + 1) + 1) /\ (p + 1) + i - 1 = p + i
          BY <2>1, <2>3
        <4>. QED  BY <4>2, <4>3, <4>4
      <3>. QED  BY <3>1, <3>2
    <2>. HIDE DEF a, b
    <2>5. IsInjective(a) /\ IsInjective(b)
      <3>1. DOMAIN a = 1..(p - 1) /\ DOMAIN b = 1..(Len(q) - p)
        BY <2>1, <2>3, <2>4, Elements
      <3>2. IsInjective(a)  BY <2>1, <2>3, <2>4, <3>1 DEF IsInjective
      <3>3. ASSUME NEW i \in 1..(Len(q) - p), NEW j \in 1..(Len(q) - p), b[i] = b[j]
            PROVE  i = j
        <4>1. p + i \in 1..Len(q) /\ p + j \in 1..Len(q)  BY <2>1, <2>3
        <4>2. q[p + i] = q[p + j]  BY <2>4, <3>3
        <4>3. p + i = p + j  BY <2>3, <4>1, <4>2 DEF IsInjective
        <4>. QED  BY <2>1, <4>3
      <3>. QED  BY <3>1, <3>2, <3>3 DEF IsInjective
    <2>6. ToSet(a) = {q[i] : i \in 1..(p - 1)}
      <3>1. ToSet(a) = {a[i] : i \in 1..(p - 1)}  BY <2>4, Elements
      <3>. QED  BY <2>4, <3>1, Zenon
    <2>7. ToSet(b) = {q[i] : i \in (p + 1)..Len(q)}
      <3>1. ToSet(b) = {b[i] : i \in 1..(Len(q) - p)}  BY <2>4, Elements
      <3>2. \A i \in 1..(Len(q) - p) : p + i \in (p + 1)..Len(q) /\ b[i] = q[p + i]
        BY <2>1, <2>3, <2>4
      <3>3. \A i \in (p + 1)..Len(q) :
              i - p \in 1..(Len(q) - p) /\ b[i - p] = q[p + (i - p)] /\ p + (i - p) = i
        BY <2>1, <2>3, <2>4
      <3>. QED  BY <3>1, <3>2, <3>3
    <2>8. \A i \in 1..Len(q) : q[i] = t => i = p  BY <2>1, <2>3 DEF IsInjective
    <2>9. \A i \in 1..(p - 1), j \in (p + 1)..Len(q) : q[i] # q[j]
      BY <2>1, <2>3 DEF IsInjective
    <2>10. ToSet(a) \cap ToSet(b) = {}  BY <2>6, <2>7, <2>9
    <2>11. ToSet(a) \cup ToSet(b) = ToSet(q) \ {t}
      <3>1. \A i \in 1..(p - 1) : i \in 1..Len(q) /\ i # p  BY <2>1, <2>3
      <3>2. \A i \in (p + 1)..Len(q) : i \in 1..Len(q) /\ i # p  BY <2>1, <2>3
      <3>3. \A i \in 1..Len(q) : i # p => i \in 1..(p - 1) \/ i \in (p + 1)..Len(q)
        BY <2>1, <2>3
      <3>. QED  BY <2>1, <2>3, <2>6, <2>7, <2>8, <3>1, <3>2, <3>3
    <2>12. a \o b \in Seq(S)  BY <2>4, ConcatProperties
    <2>. QED  BY <2>2, <2>4, <2>5, <2>10, <2>11, <2>12, ConcatElements
  <1>. QED  BY <1>1, <1>2

LEMMA InsertElements ==
    ASSUME NEW S, NEW q \in Seq(S), IsInjective(q), NEW t \in S, t \notin ToSet(q),
           NEW i \in 1..(Len(q) + 1)
    PROVE  /\ InsertAt(q, i, t) \in Seq(S) /\ IsInjective(InsertAt(q, i, t))
           /\ ToSet(InsertAt(q, i, t)) = ToSet(q) \cup {t}
  <1>. DEFINE a == SubSeq(q, 1, i - 1)
              b == SubSeq(q, i, Len(q))
              x == a \o <<t>>
  <1>1. a \in Seq(S) /\ b \in Seq(S)  OBVIOUS
  <1>2. q = a \o b
    <2>1. Len(q) \in Nat  OBVIOUS
    <2>2. (i - 1) + 1 = i /\ 1 \in 1..(Len(q) + 1) /\ i - 1 \in 0..Len(q)
          /\ Len(q) \in (i - 1)..Len(q) /\ 1 - 1 = 0
      BY <2>1
    <2>3. a \o b = SubSeq(q, 1, Len(q))
      BY <2>2, ConcatAdjacentSubSeq
    <2>. QED  BY <2>3, SubSeqFull
  <1>3. InsertAt(q, i, t) = x \o b  BY DEF InsertAt
  <1>4. <<t>> \in Seq(S) /\ IsInjective(<<t>>) /\ ToSet(<<t>>) = {t}
    BY DEF IsInjective, ToSet
  <1>. HIDE DEF a, b
  <1>5. /\ IsInjective(a) /\ IsInjective(b) /\ ToSet(a) \cap ToSet(b) = {}
        /\ ToSet(q) = ToSet(a) \cup ToSet(b)
    BY <1>1, <1>2, ConcatElements
  <1>6. x \in Seq(S) /\ IsInjective(x) /\ ToSet(x) = ToSet(a) \cup {t}
    <2>1. ToSet(a) \cap {t} = {}  BY <1>5
    <2>2. x \in Seq(S)  BY <1>1, <1>4, ConcatProperties
    <2>. QED  BY <1>1, <1>4, <1>5, <2>1, <2>2, ConcatElements
  <1>. HIDE DEF x
  <1>7. ToSet(x) \cap ToSet(b) = {}  BY <1>5, <1>6
  <1>8. x \o b \in Seq(S)  BY <1>1, <1>6, ConcatProperties
  <1>9. IsInjective(x \o b) /\ ToSet(x \o b) = ToSet(x) \cup ToSet(b)
    BY <1>1, <1>5, <1>6, <1>7, ConcatElements
  <1>. QED  BY <1>3, <1>5, <1>6, <1>8, <1>9

-----------------------------------------------------------------------------
(* What each mutator does to the tasks, the participants and the mode.     *)

\* No task is in the record s twice.
Once(s) == IsInjective(s.tasks_queue \o s.last_batch)

LEMMA OnceParts ==
    ASSUME NEW s, s.tasks_queue \in Seq(Tasks), s.last_batch \in Seq(Tasks)
    PROVE  Once(s) <=> /\ IsInjective(s.tasks_queue) /\ IsInjective(s.last_batch)
                       /\ ToSet(s.tasks_queue) \cap ToSet(s.last_batch) = {}
  BY ConcatElements DEF Once

\* The cursor is at most one past the queue: a reopened task is looked for
\* among the tasks before it.
Within(s) == s.current_task_index <= Len(s.tasks_queue)

LEMMA CursorInWithin ==
    ASSUME NEW s \in Session, NEW q \in Seq(Tasks)
    PROVE  CursorIn(s, q) <= Len(q)
  <1>1. s.current_task_index \in Nat /\ Len(q) \in Nat  BY SessionFields
  <1>2. CASE HasCurrent(s) /\ Contains(q, Current(s))
    <2>1. CursorIn(s, q) < Len(q)  BY <1>2, CursorInType
    <2>2. CursorIn(s, q) \in Nat  BY CursorInType
    <2>. QED  BY <1>1, <2>1, <2>2
  <1>3. CASE ~(HasCurrent(s) /\ Contains(q, Current(s)))
    <2>1. CursorIn(s, q) = Normalized(q, s.current_task_index)
      BY <1>3, Zenon DEF CursorIn
    <2>2. q # <<>> => Len(q) - 1 \in Nat  BY EmptySeq
    <2>3. Normalized(q, s.current_task_index) <= Len(q)
      BY <1>1, <2>2 DEF Normalized, Clamp
    <2>. QED  BY <2>1, <2>3
  <1>. QED  BY <1>2, <1>3

\* The participants and the mode, which tell what a complete vote is.
Voters(s) == <<s.participants, s.estimation_mode>>

LEMMA EnqueueTasks ==
    ASSUME NEW s \in Session, Once(s), NEW new \in Seq(Tasks), IsInjective(new),
           ToSet(new) \cap OnBoard(s) = {}
    PROVE  /\ Once(Enqueue(s, new)) /\ Voters(Enqueue(s, new)) = Voters(s)
           /\ OnBoard(Enqueue(s, new)) = OnBoard(s) \cup ToSet(new)
           /\ Within(s) => Within(Enqueue(s, new))
  <1>. DEFINE r == Enqueue(s, new)
  <1>1. /\ r.tasks_queue = s.tasks_queue \o new /\ r.last_batch = s.last_batch
        /\ r.current_task_index = s.current_task_index /\ Voters(r) = Voters(s)
    BY ZenonT(30) DEF Enqueue, Session, Voters
  <1>2. s.tasks_queue \in Seq(Tasks) /\ s.last_batch \in Seq(Tasks)
    BY SessionFields
  <1>3. /\ IsInjective(s.tasks_queue) /\ IsInjective(s.last_batch)
        /\ ToSet(s.tasks_queue) \cap ToSet(s.last_batch) = {}
    BY <1>2, OnceParts
  <1>. HIDE DEF r
  <1>4. s.tasks_queue \o new \in Seq(Tasks)  BY <1>2, ConcatProperties
  <1>5. /\ ToSet(s.tasks_queue \o new) = ToSet(s.tasks_queue) \cup ToSet(new)
        /\ IsInjective(s.tasks_queue \o new)
    BY <1>2, <1>3, ConcatElements DEF OnBoard
  <1>6. ToSet(s.tasks_queue \o new) \cap ToSet(s.last_batch) = {}
    BY <1>3, <1>5 DEF OnBoard
  <1>7. Once(r)  BY <1>1, <1>2, <1>3, <1>4, <1>5, <1>6, OnceParts
  <1>8. OnBoard(r) = OnBoard(s) \cup ToSet(new)  BY <1>1, <1>5 DEF OnBoard
  <1>9. Within(s) => Within(r)
    <2>1. Len(s.tasks_queue \o new) = Len(s.tasks_queue) + Len(new)
          /\ Len(new) \in Nat /\ Len(s.tasks_queue) \in Nat
      BY <1>2, ConcatProperties
    <2>2. s.current_task_index \in Nat  BY SessionFields
    <2>. QED  BY <1>1, <2>1, <2>2 DEF Within
  <1>. QED  BY <1>1, <1>7, <1>8, <1>9 DEF r

LEMMA DeleteTaskTasks ==
    ASSUME NEW s \in Session, Once(s), NEW t
    PROVE  /\ Once(DeleteTask(s, t)) /\ Voters(DeleteTask(s, t)) = Voters(s)
           /\ Within(DeleteTask(s, t))
           /\ OnBoard(s) \ {t} \subseteq OnBoard(DeleteTask(s, t))
           /\ OnBoard(DeleteTask(s, t)) \subseteq OnBoard(s)
  <1>. DEFINE r == DeleteTask(s, t)
              q == Without(s.tasks_queue, t)
  <1>1. /\ r.tasks_queue = q /\ r.last_batch = s.last_batch
        /\ r.current_task_index = CursorIn(s, q) /\ Voters(r) = Voters(s)
    BY ZenonT(30) DEF DeleteTask, Session, Voters
  <1>2. s.tasks_queue \in Seq(Tasks) /\ s.last_batch \in Seq(Tasks)
    BY SessionFields
  <1>3. /\ IsInjective(s.tasks_queue) /\ IsInjective(s.last_batch)
        /\ ToSet(s.tasks_queue) \cap ToSet(s.last_batch) = {}
    BY <1>2, OnceParts
  <1>4. q \in Seq(Tasks) /\ IsInjective(q) /\ ToSet(q) = ToSet(s.tasks_queue) \ {t}
    BY <1>2, <1>3, WithoutElements
  <1>. HIDE DEF r, q
  <1>5. ToSet(q) \cap ToSet(s.last_batch) = {}  BY <1>3, <1>4
  <1>6. Once(r)  BY <1>1, <1>2, <1>3, <1>4, <1>5, OnceParts
  <1>7. OnBoard(s) \ {t} \subseteq OnBoard(r) /\ OnBoard(r) \subseteq OnBoard(s)
    BY <1>1, <1>4 DEF OnBoard
  <1>8. Within(r)  BY <1>1, <1>4, CursorInWithin DEF Within
  <1>. QED  BY <1>1, <1>6, <1>7, <1>8 DEF r

LEMMA MoveTaskTasks ==
    ASSUME NEW s \in Session, Once(s), NEW t \in Tasks, NEW target \in Nat,
           CanMoveTask(s, t)
    PROVE  /\ Once(MoveTask(s, t, target)) /\ Voters(MoveTask(s, t, target)) = Voters(s)
           /\ Within(MoveTask(s, t, target))
           /\ OnBoard(MoveTask(s, t, target)) = OnBoard(s)
  <1>. DEFINE r    == MoveTask(s, t, target)
              rest == Without(s.tasks_queue, t)
              at   == Clamp(target, Len(rest)) + 1
              q    == InsertAt(rest, at, t)
  <1>1. /\ r.tasks_queue = q /\ r.last_batch = s.last_batch
        /\ r.current_task_index = CursorIn(s, q) /\ Voters(r) = Voters(s)
    BY ZenonT(30) DEF MoveTask, Session, Voters
  <1>2. s.tasks_queue \in Seq(Tasks) /\ s.last_batch \in Seq(Tasks)
    BY SessionFields
  <1>3. /\ IsInjective(s.tasks_queue) /\ IsInjective(s.last_batch)
        /\ ToSet(s.tasks_queue) \cap ToSet(s.last_batch) = {}
    BY <1>2, OnceParts
  <1>4. t \in ToSet(s.tasks_queue)  BY <1>2, Elements, Zenon DEF CanMoveTask
  <1>5. /\ rest \in Seq(Tasks) /\ IsInjective(rest)
        /\ ToSet(rest) = ToSet(s.tasks_queue) \ {t}
    BY <1>2, <1>3, WithoutElements
  <1>6. at \in 1..(Len(rest) + 1)  BY MovedQueue, Zenon
  <1>. HIDE DEF r, at, rest
  <1>7. q \in Seq(Tasks) /\ IsInjective(q) /\ ToSet(q) = ToSet(rest) \cup {t}
    BY <1>5, <1>6, InsertElements
  <1>. HIDE DEF q
  <1>8. ToSet(q) = ToSet(s.tasks_queue)  BY <1>4, <1>5, <1>7
  <1>9. Once(r)  BY <1>1, <1>2, <1>3, <1>7, <1>8, OnceParts
  <1>10. OnBoard(r) = OnBoard(s)  BY <1>1, <1>8 DEF OnBoard
  <1>11. Within(r)  BY <1>1, <1>7, CursorInWithin DEF Within
  <1>. QED  BY <1>1, <1>9, <1>10, <1>11 DEF r

LEMMA ReorderTasksTasks ==
    ASSUME NEW s \in Session, Once(s), NEW order \in Seq(Tasks),
           CanReorderTasks(s, order)
    PROVE  /\ Once(ReorderTasks(s, order)) /\ Voters(ReorderTasks(s, order)) = Voters(s)
           /\ Within(ReorderTasks(s, order))
           /\ OnBoard(ReorderTasks(s, order)) = OnBoard(s)
  <1>. DEFINE r == ReorderTasks(s, order)
  <1>1. /\ r.tasks_queue = order /\ r.last_batch = s.last_batch
        /\ r.current_task_index = CursorIn(s, order) /\ Voters(r) = Voters(s)
    BY ZenonT(30) DEF ReorderTasks, Session, Voters
  <1>2. s.tasks_queue \in Seq(Tasks) /\ s.last_batch \in Seq(Tasks)
    BY SessionFields
  <1>3. IsInjective(order) /\ ToSet(order) = ToSet(s.tasks_queue)
    BY Zenon DEF CanReorderTasks
  <1>. HIDE DEF r
  <1>4. Once(r)  BY <1>1, <1>2, <1>3, OnceParts
  <1>5. Within(r)  BY <1>1, CursorInWithin DEF Within
  <1>. QED  BY <1>1, <1>3, <1>4, <1>5 DEF OnBoard, r

LEMMA AnnotationsTasks ==
    ASSUME NEW s \in Session, NEW t, NEW p
    PROVE  /\ UpdateTask(s, t, p).tasks_queue = s.tasks_queue
           /\ UpdateTask(s, t, p).last_batch = s.last_batch
           /\ Voters(UpdateTask(s, t, p)) = Voters(s)
           /\ UpdateTask(s, t, p).current_task_index = s.current_task_index
           /\ SetFinalEstimate(s, p).tasks_queue = s.tasks_queue
           /\ SetFinalEstimate(s, p).last_batch = s.last_batch
           /\ Voters(SetFinalEstimate(s, p)) = Voters(s)
           /\ SetFinalEstimate(s, p).current_task_index = s.current_task_index
           /\ SaveAiSummary(s).tasks_queue = s.tasks_queue
           /\ SaveAiSummary(s).last_batch = s.last_batch
           /\ Voters(SaveAiSummary(s)) = Voters(s)
           /\ SaveAiSummary(s).current_task_index = s.current_task_index
  <1>1. /\ UpdateTask(s, t, p).tasks_queue = s.tasks_queue
        /\ UpdateTask(s, t, p).last_batch = s.last_batch
        /\ Voters(UpdateTask(s, t, p)) = Voters(s)
        /\ UpdateTask(s, t, p).current_task_index = s.current_task_index
    BY ZenonT(30) DEF UpdateTask, Session, Voters
  <1>2. /\ SaveAiSummary(s).tasks_queue = s.tasks_queue
        /\ SaveAiSummary(s).last_batch = s.last_batch
        /\ Voters(SaveAiSummary(s)) = Voters(s)
        /\ SaveAiSummary(s).current_task_index = s.current_task_index
    BY ZenonT(30) DEF SaveAiSummary, Session, Voters
  <1>. DEFINE r == SetFinalEstimate(s, p)
  <1>3. /\ r.tasks_queue = s.tasks_queue /\ r.last_batch = s.last_batch
        /\ r.current_task_index = s.current_task_index /\ Voters(r) = Voters(s)
    <2>1. CASE s.estimation_mode = "sp"
      <3>1. r = [s EXCEPT !.story_points[Current(s)] = p,
                          !.tasks_version            = @ + 1]
        BY <2>1, Zenon DEF SetFinalEstimate
      <3>. HIDE DEF r
      <3>. QED  BY <3>1, ZenonT(30) DEF Session, Voters
    <2>2. CASE s.estimation_mode # "sp"
      <3>1. r = [s EXCEPT !.story_points[Current(s)]          = NoPoints,
                          !.story_points_by_track[Current(s)] = p,
                          !.tasks_version                     = @ + 1]
        BY <2>2, Zenon DEF SetFinalEstimate
      <3>. HIDE DEF r
      <3>. QED  BY <3>1, ZenonT(30) DEF Session, Voters
    <2>. QED  BY <2>1, <2>2
  <1>. QED  BY <1>1, <1>2, <1>3, Zenon

\* A reopened task was in exactly one of the two lists, and ends in the queue.
LEMMA ReopenTasks ==
    ASSUME NEW s \in Session, Once(s), Within(s), NEW t \in Tasks,
           CanReopen(s, t)
    PROVE  /\ Once(Reopen(s, t)) /\ Within(Reopen(s, t))
           /\ OnBoard(Reopen(s, t)) = OnBoard(s)
  <1>. DEFINE inQueue == \E i \in 1..PlayedInQueue(s) : s.tasks_queue[i] = t
              rest    == IF inQueue THEN Without(s.tasks_queue, t)
                                    ELSE s.tasks_queue
              cursor  == IF inQueue /\ Position(s.tasks_queue, t)
                                         <= s.current_task_index
                         THEN s.current_task_index - 1
                         ELSE s.current_task_index
              at      == Clamp(cursor, Len(rest))
              q       == InsertAt(rest, at + 1, t)
              last    == Without(s.last_batch, t)
              r       == Reopen(s, t)
  <1>1. r.tasks_queue = q /\ r.last_batch = last /\ r.current_task_index = at
    BY ZenonT(30) DEF Reopen, Session
  <1>2. s.tasks_queue \in Seq(Tasks) /\ s.last_batch \in Seq(Tasks)
    BY SessionFields
  <1>3. /\ IsInjective(s.tasks_queue) /\ IsInjective(s.last_batch)
        /\ ToSet(s.tasks_queue) \cap ToSet(s.last_batch) = {}
    BY <1>2, OnceParts
  <1>4. /\ last \in Seq(Tasks) /\ IsInjective(last)
        /\ ToSet(last) = ToSet(s.last_batch) \ {t}
    BY <1>2, <1>3, WithoutElements
  <1>5. /\ rest \in Seq(Tasks) /\ IsInjective(rest) /\ t \notin ToSet(rest)
        /\ t \in OnBoard(s)
        /\ ToSet(rest) = ToSet(s.tasks_queue) \ {t}
    <2>1. /\ PlayedInQueue(s) \in 0..Len(s.tasks_queue)
          /\ ToSet(s.tasks_queue) = {s.tasks_queue[i] : i \in 1..Len(s.tasks_queue)}
      BY <1>2, SessionFields, Elements DEF PlayedInQueue, Within
    <2>. DEFINE played == SubSeq(s.tasks_queue, 1, PlayedInQueue(s))
    <2>2. ToSet(played) = {s.tasks_queue[i] : i \in 1..PlayedInQueue(s)}
      <3>1. /\ played \in Seq(Tasks) /\ Len(played) = PlayedInQueue(s)
            /\ \A i \in 1..PlayedInQueue(s) : played[i] = s.tasks_queue[i]
        BY <1>2, <2>1
      <3>. HIDE DEF played
      <3>. QED  BY <3>1, Elements
    <2>3. inQueue <=> t \in ToSet(played)  BY <2>2
    <2>4. t \in ToSet(s.last_batch) \cup ToSet(played)
      BY Zenon DEF CanReopen, Completed
    <2>5. ToSet(played) \subseteq ToSet(s.tasks_queue)  BY <2>1, <2>2
    <2>. HIDE DEF played, inQueue
    <2>6. CASE inQueue
      <3>1. rest = Without(s.tasks_queue, t)  BY <2>6
      <3>. QED
        BY <1>2, <1>3, <2>3, <2>5, <2>6, <3>1, WithoutElements DEF OnBoard
    <2>7. CASE ~inQueue
      <3>1. rest = s.tasks_queue /\ t \in ToSet(s.last_batch)  BY <2>3, <2>4, <2>7
      <3>. QED  BY <1>2, <1>3, <3>1 DEF OnBoard
    <2>. QED  BY <2>6, <2>7
  <1>6. at + 1 \in 1..(Len(rest) + 1) /\ at \in Nat /\ at < Len(q)
    <2>1. at \in Nat /\ at < Len(q)  BY ReopenedQueue, Zenon
    <2>. HIDE DEF rest, cursor, q
    <2>2. at <= Len(rest)  BY <1>5 DEF Clamp
    <2>. QED  BY <1>5, <2>1, <2>2
  <1>. HIDE DEF r, rest, last, cursor
  <1>. HIDE DEF at
  <1>7. q \in Seq(Tasks) /\ IsInjective(q) /\ ToSet(q) = ToSet(rest) \cup {t}
    BY <1>5, <1>6, InsertElements
  <1>. HIDE DEF q
  <1>8. ToSet(q) \cap ToSet(last) = {}  BY <1>3, <1>4, <1>5, <1>7
  <1>9. Once(r)  BY <1>1, <1>4, <1>7, <1>8, OnceParts
  <1>10. OnBoard(r) = OnBoard(s)  BY <1>1, <1>4, <1>5, <1>7 DEF OnBoard
  <1>11. Within(r)
    <2>1. at \in Nat /\ Len(q) \in Nat /\ at < Len(q)  BY <1>6, <1>7
    <2>. QED  BY <1>1, <2>1 DEF Within
  <1>. QED  BY <1>9, <1>10, <1>11 DEF r

LEMMA ClearedTasks ==
    ASSUME NEW s \in Session
    PROVE  /\ ClearCurrentVotes(s).tasks_queue = s.tasks_queue
           /\ ClearCurrentVotes(s).last_batch = s.last_batch
           /\ ClearCurrentVotes(s).current_task_index = s.current_task_index
  <1>. DEFINE r == ClearCurrentVotes(s)
  <1>1. CASE ~HasCurrent(s)
    <2>1. r = s  BY <1>1 DEF ClearCurrentVotes
    <2>. QED  BY <2>1
  <1>2. CASE HasCurrent(s)
    <2>1. r = [s EXCEPT !.votes[Current(s)] = {}]
      BY <1>2, Zenon DEF ClearCurrentVotes
    <2>. HIDE DEF r
    <2>2. /\ r.tasks_queue = s.tasks_queue /\ r.last_batch = s.last_batch
          /\ r.current_task_index = s.current_task_index
      BY <2>1, ZenonT(30) DEF Session
    <2>. QED  BY <2>2 DEF r
  <1>. QED  BY <1>1, <1>2

LEMMA StartTasks ==
    ASSUME NEW s \in Session, NEW mode \in Modes
    PROVE  /\ Start(s, mode).tasks_queue = s.tasks_queue
           /\ Start(s, mode).last_batch = s.last_batch
           /\ Within(Start(s, mode))
  <1>. DEFINE i == Normalized(s.tasks_queue, s.current_task_index)
              r == [s EXCEPT !.estimation_mode    = mode,
                             !.current_task_index = i,
                             !.batch_completed    = FALSE,
                             !.started            = TRUE,
                             !.tasks_version      = @ + 1]
  <1>1. i \in Nat /\ i <= Len(s.tasks_queue)
    <2>1. /\ s.tasks_queue \in Seq(Tasks) /\ s.current_task_index \in Nat
          /\ Len(s.tasks_queue) \in Nat
          /\ s.tasks_queue # <<>> => Len(s.tasks_queue) \in Nat \ {0}
      BY SessionFields, EmptySeq
    <2>. QED  BY <2>1 DEF Normalized, Clamp
  <1>2. Start(s, mode) = ClearCurrentVotes(r)  BY Zenon DEF Start
  <1>. HIDE DEF i
  <1>3. r \in Session  BY <1>1, SessionFields, ZenonT(30) DEF Session
  <1>4. /\ r.tasks_queue = s.tasks_queue /\ r.last_batch = s.last_batch
        /\ r.current_task_index = i
    BY ZenonT(30) DEF Session
  <1>. HIDE DEF r
  <1>. QED  BY <1>1, <1>2, <1>3, <1>4, ClearedTasks DEF Within

LEMMA AdvanceTasks ==
    ASSUME NEW s \in Session, Within(s)
    PROVE  /\ Advance(s).tasks_queue = s.tasks_queue
           /\ Advance(s).last_batch = s.last_batch
           /\ Within(Advance(s))
  <1>. DEFINE cursor == IF HasCurrent(s) THEN s.current_task_index + 1
                                         ELSE s.current_task_index
              more   == cursor < Len(s.tasks_queue)
              r      == [s EXCEPT !.current_task_index = cursor,
                                  !.started            = more,
                                  !.batch_completed    = ~more,
                                  !.tasks_version      = @ + 1]
  <1>1. cursor \in Nat /\ cursor <= Len(s.tasks_queue)
    <2>1. s.current_task_index \in Nat /\ Len(s.tasks_queue) \in Nat
      BY SessionFields
    <2>. QED  BY <2>1 DEF HasCurrent, Within
  <1>2. Advance(s) = ClearCurrentVotes(r)  BY Zenon DEF Advance
  <1>3. more \in BOOLEAN /\ (~more) \in BOOLEAN  OBVIOUS
  <1>. HIDE DEF cursor
  <1>4. r \in Session  BY <1>1, <1>3, SessionFields, ZenonT(30) DEF Session
  <1>5. /\ r.tasks_queue = s.tasks_queue /\ r.last_batch = s.last_batch
        /\ r.current_task_index = cursor
    BY ZenonT(30) DEF Session
  <1>. HIDE DEF r
  <1>. QED  BY <1>1, <1>2, <1>4, <1>5, ClearedTasks DEF Within

LEMMA CloseTasks ==
    ASSUME NEW s \in Session, Once(s)
    PROVE  /\ Once(Close(s)) /\ Within(Close(s)) /\ OnBoard(Close(s)) = OnBoard(s)
           /\ Close(s).votes = s.votes /\ Close(s).batch_completed
  <1>1. /\ Close(s).tasks_queue = <<>> /\ Close(s).current_task_index = 0
        /\ Close(s).last_batch = s.last_batch \o s.tasks_queue
        /\ Close(s).votes = s.votes /\ Close(s).batch_completed
    BY ZenonT(30) DEF Close, Session
  <1>2. s.tasks_queue \in Seq(Tasks) /\ s.last_batch \in Seq(Tasks)
    BY SessionFields
  <1>3. /\ IsInjective(s.tasks_queue) /\ IsInjective(s.last_batch)
        /\ ToSet(s.tasks_queue) \cap ToSet(s.last_batch) = {}
    BY <1>2, OnceParts
  <1>4. /\ s.last_batch \o s.tasks_queue \in Seq(Tasks)
        /\ IsInjective(s.last_batch \o s.tasks_queue)
        /\ ToSet(s.last_batch \o s.tasks_queue)
             = ToSet(s.last_batch) \cup ToSet(s.tasks_queue)
    BY <1>2, <1>3, ConcatElements, ConcatProperties
  <1>5. <<>> \in Seq(Tasks) /\ IsInjective(<<>>) /\ ToSet(<<>>) = {}
    BY DEF IsInjective, ToSet
  <1>6. Once(Close(s))  BY <1>1, <1>4, <1>5, OnceParts
  <1>7. Within(Close(s))  BY <1>1 DEF Within
  <1>. QED  BY <1>1, <1>4, <1>5, <1>6, <1>7 DEF OnBoard

\* The demo page goes on with the round that is open, or opens one at the first
\* task; only a reset takes tasks away.
LEMMA DemoTasks ==
    ASSUME NEW s \in Session, RoundSound(s), NEW reset \in BOOLEAN,
           NEW rows \in Seq(Tasks),
           reset \/ s.tasks_queue = <<>> => rows # <<>>
    PROVE  LET r == Demo(s, reset, rows)
           IN  /\ reset => r.tasks_queue = rows /\ r.last_batch = <<>>
               /\ ~reset => /\ r.last_batch = s.last_batch
                            /\ r.tasks_queue = IF s.tasks_queue = <<>> THEN rows
                                               ELSE s.tasks_queue
               /\ \/ r.current_task_index = 0
                  \/ /\ r.current_task_index = s.current_task_index
                     /\ r.tasks_queue = s.tasks_queue
               /\ VotingActive(r) =>
                    \/ r.votes[Current(r)] = {}
                    \/ /\ VotingActive(s) /\ Current(s) = Current(r)
                       /\ r.votes = s.votes /\ r.estimation_mode = s.estimation_mode
               /\ ~reset /\ VotingActive(s) => r.votes = s.votes
  <1>. DEFINE wiped == IF reset
                       THEN [s EXCEPT !.participants = [u \in Users |-> Absent],
                                      !.tasks_queue  = <<>>,
                                      !.history      = <<>>,
                                      !.last_batch   = <<>>]
                       ELSE s
              filled == IF wiped.tasks_queue = <<>>
                        THEN [wiped EXCEPT !.tasks_queue = rows] ELSE wiped
              opened == [filled EXCEPT !.current_task_index = 0,
                                       !.batch_completed    = FALSE,
                                       !.started            = TRUE]
              stale  == /\ filled.tasks_queue # <<>>
                        /\ \/ reset \/ filled.batch_completed
                           \/ ~filled.started
                           \/ ~HasCurrent(filled)
              restarted == IF stale THEN ClearCurrentVotes(opened) ELSE filled
              r == [restarted EXCEPT !.tasks_version = @ + 1]
              queue == IF reset \/ s.tasks_queue = <<>> THEN rows ELSE s.tasks_queue
              last  == IF reset THEN <<>> ELSE s.last_batch
  <1>1. Demo(s, reset, rows) = r  BY Zenon DEF Demo
  <1>2. /\ wiped \in Session /\ wiped.last_batch = last
        /\ wiped.tasks_queue = IF reset THEN <<>> ELSE s.tasks_queue
        /\ ~reset => wiped = s
    <2>1. CASE reset
      <3>1. /\ [u \in Users |-> Absent] \in [Users -> TeamRoles \cup {Absent}]
            /\ <<>> \in Seq(Tasks)
        OBVIOUS
      <3>2. wiped = [s EXCEPT !.participants = [u \in Users |-> Absent],
                              !.tasks_queue  = <<>>,
                              !.history      = <<>>,
                              !.last_batch   = <<>>]
        BY <2>1, Zenon
      <3>. HIDE DEF wiped
      <3>3. wiped \in Session
        BY <3>1, <3>2, SessionFields, ZenonT(30) DEF Session
      <3>4. wiped.last_batch = <<>> /\ wiped.tasks_queue = <<>>
        BY <3>2, ZenonT(30) DEF Session
      <3>. QED  BY <2>1, <3>3, <3>4, Zenon
    <2>2. CASE ~reset
      <3>1. wiped = s  BY <2>2, Zenon
      <3>. HIDE DEF wiped
      <3>. QED  BY <2>2, <3>1, Zenon
    <2>. QED  BY <2>1, <2>2
  <1>. HIDE DEF wiped
  <1>3. /\ filled \in Session /\ filled.last_batch = last
        /\ filled.tasks_queue = queue
        /\ ~reset /\ s.tasks_queue # <<>> => filled = s
    <2>1. CASE wiped.tasks_queue = <<>>
      <3>1. filled = [wiped EXCEPT !.tasks_queue = rows]  BY <2>1, Zenon
      <3>. HIDE DEF filled
      <3>2. /\ filled \in Session /\ filled.tasks_queue = rows
            /\ filled.last_batch = wiped.last_batch
        BY <1>2, <3>1, SessionFields, ZenonT(30) DEF Session
      <3>3. reset \/ s.tasks_queue = <<>>  BY <1>2, <2>1, Zenon
      <3>. QED  BY <1>2, <3>2, <3>3, Zenon
    <2>2. CASE wiped.tasks_queue # <<>>
      <3>1. filled = wiped  BY <2>2, Zenon
      <3>2. ~reset /\ s.tasks_queue # <<>>  BY <1>2, <2>2, Zenon
      <3>. HIDE DEF filled
      <3>. QED  BY <1>2, <3>1, <3>2, Zenon
    <2>. QED  BY <2>1, <2>2
  <1>4. filled.tasks_queue # <<>>
    <2>1. reset \/ s.tasks_queue = <<>> => rows # <<>>  OBVIOUS
    <2>. HIDE DEF filled
    <2>. QED  BY <1>3, <2>1, Zenon
  <1>5. s.tasks_queue = <<>> => ~s.started
    <2>1. s.tasks_queue = <<>> => ~HasCurrent(s)
      BY SessionFields DEF HasCurrent
    <2>. QED  BY <2>1, Zenon DEF RoundSound, VotingActive
  <1>6. /\ wiped.started = s.started
        /\ filled.started = wiped.started
    <2>1. wiped.started = s.started  BY ZenonT(30) DEF wiped, Session
    <2>2. filled.started = wiped.started  BY <1>2, ZenonT(30) DEF filled, Session
    <2>. QED  BY <2>1, <2>2
  <1>. HIDE DEF filled
  <1>7. CASE ~stale
    <2>1. r = [filled EXCEPT !.tasks_version = @ + 1]  BY <1>7, Zenon
    <2>2. ~reset /\ filled.started  BY <1>4, <1>7, Zenon
    <2>3. filled = s /\ s.tasks_queue # <<>>  BY <1>3, <1>5, <1>6, <2>2, Zenon
    <2>. HIDE DEF r, stale, restarted
    <2>4. /\ r.tasks_queue = s.tasks_queue /\ r.last_batch = s.last_batch
          /\ r.current_task_index = s.current_task_index
          /\ r.started = s.started /\ r.batch_completed = s.batch_completed
          /\ r.votes = s.votes /\ r.estimation_mode = s.estimation_mode
      BY <2>1, <2>3, ZenonT(30) DEF Session
    <2>5. (VotingActive(r) <=> VotingActive(s)) /\ Current(r) = Current(s)
      BY <2>4, Zenon DEF VotingActive, HasCurrent, Current
    <2>. QED  BY <1>1, <2>2, <2>3, <2>4, <2>5, Zenon
  <1>8. CASE stale
    <2>1. restarted = ClearCurrentVotes(opened)  BY <1>8, Zenon
    <2>2. opened \in Session
      <3>1. 0 \in Nat  OBVIOUS
      <3>. QED  BY <1>3, <3>1, SessionFields, ZenonT(30) DEF Session
    <2>3. /\ opened.tasks_queue = queue /\ opened.last_batch = last
          /\ opened.current_task_index = 0
      BY <1>3, ZenonT(30) DEF Session
    <2>4. ~reset => ~VotingActive(s)
      <3>1. CASE s.tasks_queue = <<>>  BY <1>5, <3>1, Zenon DEF VotingActive
      <3>2. CASE s.tasks_queue # <<>> /\ ~reset
        <4>1. filled = s  BY <1>3, <3>2, Zenon
        <4>. QED  BY <1>8, <3>2, <4>1, Zenon DEF VotingActive
      <3>. QED  BY <3>1, <3>2
    <2>5. HasCurrent(opened)
      <3>1. queue \in Seq(Tasks) /\ queue # <<>>  BY <1>3, <1>4, SessionFields
      <3>2. 0 < Len(queue)  BY <3>1, EmptySeq
      <3>. HIDE DEF queue, opened
      <3>. QED  BY <2>3, <3>2, Zenon DEF HasCurrent
    <2>. HIDE DEF opened, restarted, stale, queue, last
    <2>6. /\ restarted \in Session /\ restarted.tasks_queue = queue
          /\ restarted.last_batch = last /\ restarted.current_task_index = 0
          /\ restarted.votes[Current(restarted)] = {}
      BY <2>1, <2>2, <2>3, <2>5, ClearCurrentVotesType, ClearedTasks, Zenon
    <2>7. /\ r.tasks_queue = restarted.tasks_queue
          /\ r.last_batch = restarted.last_batch
          /\ r.current_task_index = restarted.current_task_index
          /\ r.votes = restarted.votes
      BY <2>6, ZenonT(30) DEF Session
    <2>. HIDE DEF r
    <2>8. r.votes[Current(r)] = {}  BY <2>6, <2>7, Zenon DEF Current
    <2>9. /\ r.tasks_queue = queue /\ r.last_batch = last
          /\ r.current_task_index = 0
      BY <2>6, <2>7
    <2>. QED  BY <1>1, <2>4, <2>8, <2>9, Zenon DEF queue, last
  <1>. QED  BY <1>7, <1>8
-----------------------------------------------------------------------------
(* The export of story points.                                             *)

\* r is s with other final estimates, and these not in the queue.
PointsStored(s, r) ==
    /\ r.tasks_queue = s.tasks_queue
    /\ r.current_task_index = s.current_task_index
    /\ r.last_batch = s.last_batch
    /\ r.history = s.history
    /\ r.batch_completed = s.batch_completed
    /\ r.started = s.started
    /\ r.votes = s.votes
    /\ r.participants = s.participants
    /\ r.estimation_mode = s.estimation_mode
    /\ r.tasks_version = s.tasks_version
    /\ Once(s) => Board(r) = Board(s)

\* The tasks sent are finished ones, which are not in the queue: the board is
\* the same although tasks_version is.
LEMMA ExportedPoints ==
    ASSUME NEW s \in Session, NEW sent \in SUBSET Sendable(s),
           NEW points \in [sent -> Points]
    PROVE  Exported(s, sent, points) \in Session /\ PointsStored(s, Exported(s, sent, points))
  <1>. DEFINE sp == [t \in Tasks |-> IF /\ t \in sent /\ s.story_points[t] = NoPoints
                                       /\ ~ByTrack(s, t)
                                    THEN points[t] ELSE s.story_points[t]]
              r == Exported(s, sent, points)
  <1>1. r = [s EXCEPT !.story_points = sp]  BY Zenon DEF Exported
  <1>2. sp \in [Tasks -> Points \cup {NoPoints}]  BY SessionFields
  <1>3. \A t \in Tasks \ sent : sp[t] = s.story_points[t]  OBVIOUS
  <1>. HIDE DEF sp, r
  <1>4. r \in Session  BY <1>1, <1>2, SessionFields, ZenonT(30) DEF Session
  <1>5. /\ r.tasks_queue = s.tasks_queue /\ r.last_batch = s.last_batch
        /\ r.current_task_index = s.current_task_index
        /\ r.history = s.history /\ r.batch_completed = s.batch_completed
        /\ r.started = s.started /\ r.votes = s.votes
        /\ r.participants = s.participants /\ r.estimation_mode = s.estimation_mode
        /\ r.tasks_version = s.tasks_version
        /\ r.story_points_by_track = s.story_points_by_track /\ r.story_points = sp
    BY <1>1, ZenonT(30) DEF Session
  <1>6. ASSUME Once(s)
        PROVE  Board(r) = Board(s)
    <2>1. sent \subseteq ToSet(s.last_batch)  BY DEF Sendable
    <2>2. ToSet(s.tasks_queue) \cap ToSet(s.last_batch) = {}
      BY <1>6, SessionFields, OnceParts
    <2>3. ToSet(s.tasks_queue) \subseteq Tasks  BY SessionFields DEF ToSet
    <2>4. Queued(r, r.story_points) = Queued(s, s.story_points)
      BY <1>3, <1>5, <2>1, <2>2, <2>3 DEF Queued
    <2>5. Queued(r, r.story_points_by_track) = Queued(s, s.story_points_by_track)
      BY <1>5 DEF Queued
    <2>. QED  BY <1>5, <2>4, <2>5 DEF Board
  <1>. QED  BY <1>4, <1>5, <1>6 DEF PointsStored, r
=============================================================================
