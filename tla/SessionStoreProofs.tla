------------------------- MODULE SessionStoreProofs -------------------------
(***************************************************************************)
(* Proofs about the requests that share a session key (SessionStore), for  *)
(* any number of requests, tasks, users and rounds of mutate_session: who  *)
(* announces the end of a batch, and, where every write goes through       *)
(* mutate_session, that requests are atomic steps of PokerSession, that an *)
(* edit with an expected_version meets the board its manager saw, and that *)
(* tasks_version counts what was acknowledged.                             *)
(***************************************************************************)
EXTENDS SessionStore, SessionOpsProofs, FiniteSetTheorems

\* What handlers ask of mutate_session.
MutatingOps == VersionedOps \cup {"join", "vote"}
AllOps == MutatingOps \cup {"view", "export", "remove"}

\* A request as a client can send it.
WellFormed(r) ==
    /\ r.op \in AllOps /\ r.op \in Ops
    /\ r.op = "join" => r.user \in Users /\ r.role \in TeamRoles
    /\ r.op = "vote" => r.user \in Users /\ r.track \in Named
    /\ r.op = "start" => r.mode \in Modes
    /\ r.op = "add" => /\ \E k \in 1..MaxImport : r.new \in [1..k -> Tasks]
                       /\ IsInjective(r.new)
    /\ r.op = "edit" => r.task \in Tasks /\ r.points \in Points \cup {NoPoints}
    /\ r.op \in {"delete", "reopen", "summary"} => r.task \in Tasks
    /\ r.op = "move" => r.task \in Tasks /\ r.target \in Nat
    /\ r.op = "reorder" => \E k \in Nat : r.order \in [1..k -> Tasks]
    /\ r.op = "estimate" => r.points \in Points /\ r.tracks \in Forms

Answers == {"none", "ok", "rejected", "refused", "conflict", "error"}

TypeOK ==
    /\ doc \in Session \cup {Gone} /\ issued \subseteq Tasks
    /\ pc \in [Handlers -> Labels]
    /\ DOMAIN req = Handlers /\ expected \in [Handlers -> Nat \cup {NoVersion}]
    /\ page \in [Handlers -> Session \cup {Gone}]
    /\ base \in [Handlers -> Session \cup {Gone}]
    /\ dirty \in [Handlers -> BOOLEAN] /\ tries \in [Handlers -> Nat]
    /\ wasCompleted \in [Handlers -> BOOLEAN]
    /\ answer \in [Handlers -> Answers]
    /\ closers \in SUBSET Handlers /\ alerted \in SUBSET Handlers
    /\ overtaken \in SUBSET Handlers
    /\ \A p \in Handlers : req[p] = NoRequest \/ WellFormed(req[p])

\* Where a request is goes with what it asks for.
Placed(p) ==
    /\ pc[p] = "idle" <=> req[p] = NoRequest
    /\ pc[p] = "idle" => answer[p] = "none"
    /\ pc[p] \in {"reading", "creating", "rereading"} =>
          req[p].op \in ClosingOps \cup {"view", "export"}
    /\ pc[p] = "loaded" => req[p].op \in {"view", "export"} /\ base[p] # Gone
    /\ pc[p] \in {"mutating", "watching", "staged", "committed"} => req[p].op \in MutatingOps
    /\ pc[p] \in {"staged", "committed", "saved"} => base[p] # Gone
    /\ pc[p] = "committed" => answer[p] = "ok"
    /\ pc[p] = "deleting" => req[p].op = "remove"
    /\ answer[p] = "error" => pc[p] = "done"

\* An EXEC that will succeed writes what the mutator makes of the session that
\* is there.
StagedFits(p) ==
    /\ pc[p] = "staged" =>
          answer[p] \in {"ok", "refused"} /\ (req[p].op \in ClosingOps => answer[p] = "ok")
    /\ pc[p] = "staged" /\ ~dirty[p] =>
          /\ expected[p] # NoVersion => expected[p] = Loaded.tasks_version
          /\ ~Rejects(req[p], Loaded)
          /\ answer[p] = IF Refuses(req[p], Loaded) THEN "refused" ELSE "ok"
          /\ base[p] = IF Refuses(req[p], Loaded) THEN Loaded ELSE Mutated(req[p], Loaded)

\* A request that has read a completed batch finds it so until it is overtaken,
\* and one that has ended a batch after all is going to announce it, has done
\* so, was overtaken or died.
EndKept(p) ==
    /\ wasCompleted[p] => pc[p] \notin {"idle", "reading", "creating", "rereading"}
    /\ Closing(p) /\ wasCompleted[p] /\ p \notin overtaken => doc # Gone /\ doc.batch_completed
    /\ p \in closers =>
          /\ pc[p] \in {"committed", "saved", "done"}
          /\ req[p].op \in ClosingOps /\ base[p].batch_completed
          /\ wasCompleted[p] => p \in overtaken
          /\ pc[p] = "done" => answer[p] = "error" \/ wasCompleted[p] \/ p \in alerted

SInv ==
    /\ TypeOK
    /\ \A p \in Handlers : Placed(p) /\ StagedFits(p) /\ EndKept(p)

-----------------------------------------------------------------------------
(* Where every write goes through mutate_session.                          *)

Watched == ~Backfills /\ Ops \cap {"export", "remove"} = {}

\* The tasks of the requests that add some are nobody else's.
TasksAreFresh ==
    /\ \A p \in Handlers : pc[p] \in {"mutating", "watching", "staged"} /\ req[p].op = "add" =>
          ToSet(req[p].new) \cap issued = {}
    /\ \A p, q \in Handlers : p # q /\ req[p].op = "add" /\ req[q].op = "add" =>
          ToSet(req[p].new) \cap ToSet(req[q].new) = {}

\* The version the manager had on screen tells whether the board is still the same.
PagesFit ==
    \A p \in Handlers : pc[p] # "idle" /\ expected[p] # NoVersion =>
       /\ page[p] # Gone /\ expected[p] = page[p].tasks_version
       /\ page[p].tasks_version <= doc.tasks_version
       /\ page[p].tasks_version = doc.tasks_version => Board(page[p]) = Board(doc)

AInv == SInv /\ doc # Gone /\ TasksAreFresh /\ PagesFit /\ AnswersAreTrue

-----------------------------------------------------------------------------
(* What a request makes of a session.                                      *)

\* m is s after a mutation that counts and completes no batch.
Counts(s, m) ==
    /\ m \in Session /\ m.tasks_version = s.tasks_version + 1
    /\ m.batch_completed => s.batch_completed

LEMMA NewSessionType ==
    ASSUME NEW mode \in Modes
    PROVE  /\ NewSession(mode) \in Session /\ ~NewSession(mode).batch_completed
           /\ NewSession(mode).tasks_version = 0
<1>1. /\ [u \in Users |-> Absent] \in [Users -> TeamRoles \cup {Absent}]
      /\ [t \in Tasks |-> {}] \in [Tasks -> SUBSET (Users \X Tracks)]
      /\ [t \in Tasks |-> NoPoints] \in [Tasks -> Points \cup {NoPoints}]
      /\ <<>> \in Seq(Tasks)
      /\ 0 \in Nat
      OBVIOUS
<1>2. NewSession(mode) \in Session
      BY <1>1, ZenonT(30) DEF NewSession, Session
<1>3. QED
      BY <1>2 DEF NewSession

LEMMA EditsCount ==
    ASSUME NEW s \in Session, NEW t \in Tasks, NEW x \in Points \cup {NoPoints}, NEW target \in Nat
    PROVE  /\ Counts(s, UpdateTask(s, t, x)) /\ Counts(s, DeleteTask(s, t))
           /\ Counts(s, MoveTask(s, t, target)) /\ Counts(s, Reopen(s, t))
           /\ Counts(s, SaveAiSummary(s))
<1>1. /\ UpdateTask(s, t, x).tasks_version = s.tasks_version + 1
      /\ UpdateTask(s, t, x).batch_completed = s.batch_completed
      BY ZenonT(30) DEF UpdateTask, Session
<1>2. /\ DeleteTask(s, t).tasks_version = s.tasks_version + 1
      /\ DeleteTask(s, t).batch_completed = s.batch_completed
      BY ZenonT(30) DEF DeleteTask, Session
<1>3. /\ MoveTask(s, t, target).tasks_version = s.tasks_version + 1
      /\ MoveTask(s, t, target).batch_completed = s.batch_completed
      BY ZenonT(30) DEF MoveTask, Session
<1>4. /\ SaveAiSummary(s).tasks_version = s.tasks_version + 1
      /\ SaveAiSummary(s).batch_completed = s.batch_completed
      BY ZenonT(30) DEF SaveAiSummary, Session
<1>5. /\ Reopen(s, t).tasks_version = s.tasks_version + 1
      /\ ~Reopen(s, t).batch_completed
      BY ReopenType DEF VotingActive
<1>6. /\ UpdateTask(s, t, x) \in Session /\ DeleteTask(s, t) \in Session
      /\ MoveTask(s, t, target) \in Session /\ Reopen(s, t) \in Session
      /\ SaveAiSummary(s) \in Session
      BY UpdateTaskType, DeleteTaskType, MoveTaskType, ReopenType, SaveAiSummaryType
<1>7. QED
      BY <1>1, <1>2, <1>3, <1>4, <1>5, <1>6, Zenon DEF Counts

LEMMA ListsCount ==
    ASSUME NEW s \in Session, NEW new \in Seq(Tasks)
    PROVE  Counts(s, Enqueue(s, new)) /\ Counts(s, ReorderTasks(s, new))
<1>1. /\ Enqueue(s, new).tasks_version = s.tasks_version + 1
      /\ Enqueue(s, new).batch_completed = FALSE
      BY ZenonT(30) DEF Enqueue, Session
<1>2. /\ ReorderTasks(s, new).tasks_version = s.tasks_version + 1
      /\ ReorderTasks(s, new).batch_completed = s.batch_completed
      BY ZenonT(30) DEF ReorderTasks, Session
<1>3. QED
      BY <1>1, <1>2, EnqueueType, ReorderTasksType, Zenon DEF Counts

LEMMA RoundsCount ==
    ASSUME NEW s \in Session
    PROVE  /\ \A mode \in Modes : CanStart(s) => Counts(s, Start(s, mode))
           /\ \A x \in Points : HasCurrent(s) => Counts(s, SetFinalEstimate(s, x))
<1>1. ASSUME NEW mode \in Modes, CanStart(s)
      PROVE  Counts(s, Start(s, mode))
      BY <1>1, StartType, Zenon DEF Counts, VotingActive
<1>2. ASSUME NEW x \in Points, HasCurrent(s)
      PROVE  Counts(s, SetFinalEstimate(s, x))
      <2>1. SetFinalEstimate(s, x).batch_completed = s.batch_completed
            BY ZenonT(30) DEF SetFinalEstimate, Session
      <2>2. SetFinalEstimate(s, x).tasks_version = s.tasks_version + 1
            BY AnnotationsUndisturbed DEF RoundUndisturbed
      <2>3. QED
            BY <1>2, <2>1, <2>2, SetFinalEstimateType, Zenon DEF Counts
<1>3. QED
      BY <1>1, <1>2

LEMMA ListIsSequence ==
    ASSUME NEW l, NEW k \in Nat, l \in [1..k -> Tasks]
    PROVE  l \in Seq(Tasks)
BY SeqDef

LEMMA RequestLists ==
    ASSUME NEW r, WellFormed(r)
    PROVE  /\ r.op = "add" => r.new \in Seq(Tasks)
           /\ r.op = "reorder" => r.order \in Seq(Tasks)
<1>1. ASSUME r.op = "add" PROVE r.new \in Seq(Tasks)
      <2>1. PICK k \in 1..MaxImport : r.new \in [1..k -> Tasks]
            BY <1>1 DEF WellFormed
      <2>2. k \in Nat
            BY StoreAssumption
      <2>3. QED
            BY <2>1, <2>2, ListIsSequence
<1>2. ASSUME r.op = "reorder" PROVE r.order \in Seq(Tasks)
      BY <1>2, ListIsSequence DEF WellFormed
<1>3. QED
      BY <1>1, <1>2

\* A mutation that was not turned down: the version counts it, unless it is one
\* of a participant, and only next and finish complete a batch.
LEMMA MutatedIs ==
    ASSUME NEW s \in Session, NEW r, WellFormed(r), r.op \in MutatingOps,
           ~Rejects(r, s), ~Refuses(r, s)
    PROVE  /\ Mutated(r, s) \in Session
           /\ r.op \in VersionedOps => Mutated(r, s).tasks_version = s.tasks_version + 1
           /\ r.op \notin VersionedOps => Board(Mutated(r, s)) = Board(s)
                                          /\ Mutated(r, s).tasks_version = s.tasks_version
           /\ r.op \notin ClosingOps /\ Mutated(r, s).batch_completed => s.batch_completed
<1>1. ASSUME Counts(s, Mutated(r, s)), r.op \in VersionedOps
      PROVE  /\ Mutated(r, s) \in Session
             /\ Mutated(r, s).tasks_version = s.tasks_version + 1
             /\ Mutated(r, s).batch_completed => s.batch_completed
      BY <1>1 DEF Counts
<1>2. CASE r.op = "add"
      <2>1. Mutated(r, s) = Enqueue(s, r.new)
            BY <1>2 DEF Mutated
      <2>2. QED
            BY <1>1, <1>2, <2>1, RequestLists, ListsCount DEF VersionedOps, GuardedOps
<1>3. CASE r.op = "edit"
      <2>1. Mutated(r, s) = UpdateTask(s, r.task, r.points)
            BY <1>3 DEF Mutated
      <2>2. 0 \in Nat /\ r.task \in Tasks /\ r.points \in Points \cup {NoPoints}
            BY <1>3 DEF WellFormed
      <2>3. QED
            BY <1>1, <1>3, <2>1, <2>2, EditsCount DEF VersionedOps, GuardedOps
<1>4. CASE r.op \in {"delete", "reopen", "summary"}
      <2>1. /\ r.op = "delete" => Mutated(r, s) = DeleteTask(s, r.task)
            /\ r.op = "reopen" => Mutated(r, s) = Reopen(s, r.task)
            /\ r.op = "summary" => Mutated(r, s) = SaveAiSummary(s)
            BY DEF Mutated
      <2>2. 0 \in Nat /\ r.task \in Tasks /\ NoPoints \in Points \cup {NoPoints}
            BY <1>4 DEF WellFormed
      <2>3. Counts(s, Mutated(r, s))
            BY <1>4, <2>1, <2>2, EditsCount
      <2>4. QED
            BY <1>1, <1>4, <2>3 DEF VersionedOps, GuardedOps
<1>5. CASE r.op = "move"
      <2>1. Mutated(r, s) = MoveTask(s, r.task, r.target)
            BY <1>5 DEF Mutated
      <2>2. r.target \in Nat /\ r.task \in Tasks /\ NoPoints \in Points \cup {NoPoints}
            BY <1>5 DEF WellFormed
      <2>3. QED
            BY <1>1, <1>5, <2>1, <2>2, EditsCount DEF VersionedOps, GuardedOps
<1>6. CASE r.op = "reorder"
      <2>1. Mutated(r, s) = ReorderTasks(s, r.order)
            BY <1>6 DEF Mutated
      <2>2. QED
            BY <1>1, <1>6, <2>1, RequestLists, ListsCount DEF VersionedOps, GuardedOps
<1>7. CASE r.op = "start"
      <2>1. Mutated(r, s) = Start(s, r.mode) /\ CanStart(s) /\ r.mode \in Modes
            BY <1>7 DEF Mutated, Refuses, WellFormed
      <2>2. QED
            BY <1>1, <1>7, <2>1, RoundsCount DEF VersionedOps, GuardedOps
<1>8. CASE r.op = "estimate"
      <2>1. Mutated(r, s) = SetFinalEstimate(s, r.points) /\ HasCurrent(s) /\ r.points \in Points
            BY <1>8 DEF Mutated, Refuses, WellFormed, CanSetFinalEstimate
      <2>2. QED
            BY <1>1, <1>8, <2>1, RoundsCount DEF VersionedOps, GuardedOps
<1>9. CASE r.op \in ClosingOps
      <2>1. /\ r.op = "next" => Mutated(r, s) = Advance(s)
            /\ r.op = "finish" => Mutated(r, s) = Close(s)
            BY DEF Mutated
      <2>2. r.op \in VersionedOps /\ (r.op = "next" \/ r.op = "finish")
            BY <1>9 DEF VersionedOps, ClosingOps
      <2>3. QED
            BY <1>9, <2>1, <2>2, AdvanceType, CloseType
<1>10. CASE r.op = "join" \/ r.op = "vote"
       <2>1. /\ Mutated(r, s) \in Session /\ Board(Mutated(r, s)) = Board(s)
             /\ Mutated(r, s).tasks_version = s.tasks_version
             <3>1. CASE r.op = "join"
                   <4>1. Mutated(r, s) = Join(s, r.user, r.role)
                         BY <3>1 DEF Mutated
                   <4>2. Join(s, r.user, r.role).tasks_version = s.tasks_version
                         BY ZenonT(30) DEF Join, Session
                   <4>3. QED
                         BY <3>1, <4>1, <4>2, JoinType DEF WellFormed
             <3>2. CASE r.op = "vote"
                   <4>1. Mutated(r, s) = CastVote(s, r.user) /\ CanCastVote(s, r.user, r.track)
                         BY <3>2 DEF Mutated, Rejects
                   <4>2. CastVote(s, r.user).tasks_version = s.tasks_version
                         BY ZenonT(30) DEF CastVote, Session
                   <4>3. QED
                         BY <3>2, <4>1, <4>2, CastVoteType DEF WellFormed, CanCastVote
             <3>3. QED
                   BY <1>10, <3>1, <3>2
       <2>2. Mutated(r, s).batch_completed = s.batch_completed
             BY <2>1 DEF Board
       <2>3. r.op \notin VersionedOps
             BY <1>10 DEF VersionedOps, GuardedOps, ClosingOps
       <2>4. QED
             BY <2>1, <2>2, <2>3
<1>11. QED
       BY <1>2, <1>3, <1>4, <1>5, <1>6, <1>7, <1>8, <1>9, <1>10
       DEF MutatingOps, VersionedOps, GuardedOps

-----------------------------------------------------------------------------
(* Lemmas about one step of one handler.                                   *)

LEMMA Parts ==
    ASSUME SInv, NEW p \in Handlers
    PROVE  /\ pc[p] \in Labels /\ answer[p] \in Answers /\ wasCompleted[p] \in BOOLEAN
           /\ base[p] \in Session \cup {Gone} /\ page[p] \in Session \cup {Gone}
           /\ expected[p] \in Nat \cup {NoVersion} /\ doc \in Session \cup {Gone}
           /\ req[p] = NoRequest \/ WellFormed(req[p])
           /\ Placed(p) /\ StagedFits(p) /\ EndKept(p)
           /\ pc[p] # "idle" => WellFormed(req[p])
BY DEF SInv, TypeOK, Placed

LEMMA LoadedType ==
    ASSUME SInv
    PROVE  Loaded \in Session
BY NewSessionType, StoreAssumption DEF Loaded, SInv, TypeOK

LEMMA LoadedCompleted ==
    ASSUME SInv, Loaded.batch_completed
    PROVE  doc # Gone /\ doc.batch_completed
<1>1. doc # Gone
      BY NewSessionType, StoreAssumption DEF Loaded
<1>2. QED
      BY <1>1 DEF Loaded

\* The handlers but p stay as they are, except that a write has dirtied what
\* they watch.
Rest(p) ==
    \A q \in Handlers \ {p} :
       /\ pc'[q] = pc[q] /\ req'[q] = req[q] /\ expected'[q] = expected[q]
       /\ base'[q] = base[q] /\ wasCompleted'[q] = wasCompleted[q]
       /\ answer'[q] = answer[q]
       /\ (q \in closers' <=> q \in closers) /\ (q \in alerted' <=> q \in alerted)
       /\ pc[q] = "staged" => dirty'[q] \/ (doc' = doc /\ dirty'[q] = dirty[q])

\* Whoever has read a completed batch finds it so, or is overtaken.
Seen ==
    /\ overtaken \subseteq overtaken'
    /\ \/ doc' = doc
       \/ doc' # Gone /\ doc'.batch_completed
       \/ \A q \in Handlers : Closing(q) /\ wasCompleted[q] => q \in overtaken'

LEMMA StepKept ==
    ASSUME SInv, TypeOK', NEW p \in Handlers, Rest(p), Seen,
           Placed(p)', StagedFits(p)', EndKept(p)'
    PROVE  SInv'
<1> SUFFICES ASSUME NEW q \in Handlers, q # p
             PROVE  (Placed(q) /\ StagedFits(q) /\ EndKept(q))'
    BY DEF SInv
<1>1. Placed(q) /\ StagedFits(q) /\ EndKept(q)
      BY DEF SInv
<1>2. Placed(q)'
      BY <1>1 DEF Rest, Placed
<1>3. StagedFits(q)'
      <2>1. /\ pc'[q] = pc[q] /\ req'[q] = req[q] /\ expected'[q] = expected[q]
            /\ base'[q] = base[q] /\ answer'[q] = answer[q]
            BY DEF Rest
      <2>2. CASE pc[q] = "staged" /\ ~dirty'[q]
            <3>1. doc' = doc /\ dirty'[q] = dirty[q]
                  BY <2>2 DEF Rest
            <3>2. Loaded' = Loaded
                  BY <3>1 DEF Loaded
            <3>3. QED
                  BY <1>1, <2>1, <2>2, <3>1, <3>2 DEF StagedFits
      <2>3. CASE ~(pc[q] = "staged" /\ ~dirty'[q])
            BY <1>1, <2>1, <2>3 DEF StagedFits
      <2>4. QED
            BY <2>2, <2>3
<1>4. EndKept(q)'
      <2>1. /\ pc'[q] = pc[q] /\ req'[q] = req[q] /\ base'[q] = base[q]
            /\ wasCompleted'[q] = wasCompleted[q] /\ answer'[q] = answer[q]
            /\ (q \in closers' <=> q \in closers) /\ (q \in alerted' <=> q \in alerted)
            BY DEF Rest
      <2>2. ASSUME Closing(q), wasCompleted[q], q \notin overtaken'
            PROVE  doc' # Gone /\ doc'.batch_completed
            BY <1>1, <2>2 DEF Seen, EndKept
      <2>3. QED
            BY <1>1, <2>1, <2>2 DEF EndKept, Seen, Closing
<1>5. QED
      BY <1>2, <1>3, <1>4

\* Only the label and the answer of p change.
LEMMA LabelStep ==
    ASSUME SInv, NEW p \in Handlers, NEW l \in Labels, NEW a \in Answers,
           Goto(p, l), answer' = [answer EXCEPT ![p] = a],
           UNCHANGED <<doc, issued, conn, base, ends>>,
           dirty' \in [Handlers -> BOOLEAN],
           \A q \in Handlers \ {p} : dirty'[q] = dirty[q],
           tries' \in [Handlers -> Nat],
           pc[p] \notin {"idle", "committed", "saved"} \/ a = "error", answer[p] # "error",
           l \notin {"idle", "staged", "committed", "saved", "loaded", "deleting"},
           l \in {"reading", "creating", "rereading"} =>
              pc[p] \in {"reading", "creating", "rereading"},
           l \in {"mutating", "watching"} =>
              pc[p] \in {"mutating", "watching", "staged"},
           a = "error" => l = "done",
           pc[p] # "idle"
    PROVE  SInv'
<1>1. /\ pc' = [pc EXCEPT ![p] = l] /\ req' = req /\ expected' = expected /\ page' = page
      /\ wasCompleted' = wasCompleted /\ base' = base /\ doc' = doc /\ issued' = issued
      /\ closers' = closers /\ alerted' = alerted /\ overtaken' = overtaken
      BY DEF Goto, conn, ends
<1>2. TypeOK'
      BY <1>1 DEF SInv, TypeOK
<1>3. pc'[p] = l /\ answer'[p] = a /\ Rest(p)
      BY <1>1 DEF SInv, TypeOK, Rest
<1>4. Seen
      BY <1>1, <1>2 DEF Seen, ends
<1>5. Placed(p)'
      BY <1>1, <1>3, Parts DEF Placed
<1>6. StagedFits(p)'
      BY <1>3 DEF StagedFits
<1>7. EndKept(p)'
      <2>1. EndKept(p) /\ answer[p] # "error" /\ pc[p] # "idle"
            BY Parts
      <2>2. /\ wasCompleted'[p] = wasCompleted[p] /\ doc' = doc /\ req'[p] = req[p]
            /\ base'[p] = base[p] /\ pc'[p] = l /\ answer'[p] = a
            BY <1>1, <1>3
      <2>3. wasCompleted'[p] => pc'[p] \notin {"idle", "reading", "creating", "rereading"}
            BY <2>1, <2>2 DEF EndKept
      <2>4. Closing(p)' => Closing(p)
            BY <2>2 DEF Closing
      <2>5. ASSUME p \in closers
            PROVE  /\ l \in {"committed", "saved", "done"}
                   /\ l = "done" => a = "error" \/ wasCompleted[p] \/ p \in alerted
            BY <2>1, <2>5, Parts DEF EndKept, Labels
      <2>6. QED
            BY <1>1, <2>1, <2>2, <2>3, <2>4, <2>5 DEF EndKept
<1>8. QED
      BY <1>2, <1>3, <1>4, <1>5, <1>6, <1>7, StepKept

-----------------------------------------------------------------------------
(* Submitting and reading.                                                 *)

LEMMA RequestsWellFormed ==
    ASSUME SInv, doc # Gone, NEW r \in Requests(doc)
    PROVE  /\ WellFormed(r)
           /\ r.op = "add" =>
                 /\ ToSet(r.new) \cap issued = {}
                 /\ \A q \in Handlers : req[q].op = "add" =>
                       ToSet(r.new) \cap ToSet(req[q].new) = {}
           /\ r.op = "move" => r.target \in 0..Len(doc.tasks_queue)
<1> DEFINE onScreen == ToSet(doc.tasks_queue) \cup ToSet(doc.last_batch)
           pending  == UNION {ToSet(req[p].new) : p \in {q \in Handlers : req[q].op = "add"}}
           fresh    == {l \in Lists(MaxImport) :
                          IsInjective(l) /\ ToSet(l) \cap (issued \cup pending) = {}}
<1>1. doc \in Session
      BY DEF SInv, TypeOK
<1>2. onScreen \subseteq Tasks /\ Len(doc.tasks_queue) \in Nat
      <2>1. doc.tasks_queue \in Seq(Tasks) /\ doc.last_batch \in Seq(Tasks)
            BY <1>1, SessionFields
      <2>2. \A l \in Seq(Tasks) : ToSet(l) \subseteq Tasks /\ Len(l) \in Nat
            BY Elements
      <2>3. QED
            BY <2>1, <2>2
<1> DEFINE A1 == [op : {"view", "export", "remove", "next", "finish"}]
           A2 == [op : {"join"}, user : Users, role : TeamRoles]
           A3 == [op : {"vote"}, user : Users, track : Named]
           A4 == [op : {"start"}, mode : Modes]
           A5 == [op : {"add"}, new : fresh]
           A6 == [op : {"edit"}, task : onScreen, points : Points \cup {NoPoints}]
           A7 == [op : {"delete", "reopen", "summary"}, task : onScreen]
           A8 == [op : {"move"}, task : onScreen, target : 0..Len(doc.tasks_queue)]
           A9 == [op : {"reorder"}, order : [1..Len(doc.tasks_queue) -> onScreen]]
           A10 == [op : {"estimate"}, points : Points, tracks : Forms]
<1>3. /\ r.op \in Ops
      /\ \/ r \in A1 \/ r \in A2 \/ r \in A3 \/ r \in A4 \/ r \in A5
         \/ r \in A6 \/ r \in A7 \/ r \in A8 \/ r \in A9 \/ r \in A10
      BY Zenon DEF Requests
<1>4. fresh \subseteq Lists(MaxImport) /\ \A l \in fresh : IsInjective(l)
                                        /\ ToSet(l) \cap (issued \cup pending) = {}
      OBVIOUS
<1>5. /\ ToSet(r.new) \cap (issued \cup pending) = {} => ToSet(r.new) \cap issued = {}
      /\ ToSet(r.new) \cap (issued \cup pending) = {} =>
            \A q \in Handlers : req[q].op = "add" => ToSet(r.new) \cap ToSet(req[q].new) = {}
      OBVIOUS
<1> HIDE DEF onScreen, pending, fresh
<1>6. CASE r \in A1
      BY <1>3, <1>6 DEF WellFormed, AllOps, MutatingOps, VersionedOps, ClosingOps
<1>7. CASE r \in A2 \/ r \in A3 \/ r \in A4 \/ r \in A10
      BY <1>3, <1>7 DEF WellFormed, AllOps, MutatingOps, VersionedOps, GuardedOps
<1>8. CASE r \in A5
      <2>1. r.op = "add" /\ r.new \in fresh
            BY <1>8
      <2>2. \E k \in 1..MaxImport : r.new \in [1..k -> Tasks]
            BY <2>1, <1>4 DEF Lists
      <2>3. QED
            BY <1>3, <1>4, <1>5, <2>1, <2>2 DEF WellFormed, AllOps, MutatingOps, VersionedOps, GuardedOps
<1>9. CASE r \in A6 \/ r \in A7 \/ r \in A8
      BY <1>2, <1>3, <1>9 DEF WellFormed, AllOps, MutatingOps, VersionedOps, GuardedOps
<1>10. CASE r \in A9
       <2>1. r.op = "reorder" /\ r.order \in [1..Len(doc.tasks_queue) -> Tasks]
             BY <1>2, <1>10
       <2>2. \E k \in Nat : r.order \in [1..k -> Tasks]
             BY <1>2, <2>1
       <2>3. QED
             BY <1>3, <2>1, <2>2 DEF WellFormed, AllOps, MutatingOps, VersionedOps, GuardedOps
<1>11. QED
       BY <1>3, <1>6, <1>7, <1>8, <1>9, <1>10

\* What Submit writes down.
LEMMA Submitted ==
    ASSUME SInv, NEW p \in Handlers, Submit(p)
    PROVE  /\ doc # Gone /\ doc \in Session /\ pc[p] = "idle"
           /\ UNCHANGED <<doc, issued, base, dirty, tries, wasCompleted, answer, ends>>
           /\ \E r \in Requests(doc), v \in {NoVersion, doc.tasks_version},
                 l \in {"reading", "deleting", "mutating"} :
                 /\ WellFormed(r) /\ r # NoRequest
                 /\ req' = [req EXCEPT ![p] = r] /\ expected' = [expected EXCEPT ![p] = v]
                 /\ page' = [page EXCEPT ![p] = doc] /\ pc' = [pc EXCEPT ![p] = l]
                 /\ l = "reading" => r.op \in ClosingOps \cup {"view", "export"}
                 /\ l = "deleting" => r.op = "remove"
                 /\ l = "mutating" => r.op \in MutatingOps
<1>1. /\ pc[p] = "idle" /\ doc # Gone /\ doc \in Session
      /\ UNCHANGED <<doc, issued, base, dirty, tries, wasCompleted, answer, ends>>
      BY DEF Submit, SInv, TypeOK
<1>2. PICK r \in Requests(doc), v \in {NoVersion, doc.tasks_version} :
         /\ req' = [req EXCEPT ![p] = r] /\ expected' = [expected EXCEPT ![p] = v]
         /\ page' = [page EXCEPT ![p] = doc]
         /\ Goto(p, IF r.op \in ClosingOps \cup {"view", "export"} THEN "reading"
                    ELSE IF r.op = "remove" THEN "deleting" ELSE "mutating")
      BY DEF Submit
<1>3. WellFormed(r)
      BY <1>1, <1>2, RequestsWellFormed
<1>4. r.op \in AllOps /\ r.op # "none"
      BY <1>3 DEF WellFormed, AllOps, MutatingOps, VersionedOps, GuardedOps, ClosingOps
<1>5. r # NoRequest
      BY <1>4 DEF NoRequest
<1> DEFINE l == IF r.op \in ClosingOps \cup {"view", "export"} THEN "reading"
                ELSE IF r.op = "remove" THEN "deleting" ELSE "mutating"
<1>6. /\ l \in {"reading", "deleting", "mutating"}
      /\ l = "reading" => r.op \in ClosingOps \cup {"view", "export"}
      /\ l = "deleting" => r.op = "remove"
      /\ l = "mutating" => r.op \in MutatingOps
      BY <1>4 DEF AllOps, MutatingOps, VersionedOps
<1>7. pc' = [pc EXCEPT ![p] = l]
      BY <1>2 DEF Goto
<1> HIDE DEF l
<1>8. QED
      BY <1>1, <1>2, <1>3, <1>5, <1>6, <1>7

LEMMA SubmitKept ==
    ASSUME SInv, NEW p \in Handlers, Submit(p)
    PROVE  SInv'
<1>1. /\ doc \in Session /\ pc[p] = "idle"
      /\ UNCHANGED <<doc, issued, base, dirty, tries, wasCompleted, answer, ends>>
      BY Submitted
<1>2. PICK r \in Requests(doc), v \in {NoVersion, doc.tasks_version},
           l \in {"reading", "deleting", "mutating"} :
         /\ WellFormed(r) /\ r # NoRequest
         /\ req' = [req EXCEPT ![p] = r] /\ expected' = [expected EXCEPT ![p] = v]
         /\ page' = [page EXCEPT ![p] = doc] /\ pc' = [pc EXCEPT ![p] = l]
         /\ l = "reading" => r.op \in ClosingOps \cup {"view", "export"}
         /\ l = "deleting" => r.op = "remove"
         /\ l = "mutating" => r.op \in MutatingOps
      BY Submitted
<1>3. v \in Nat \cup {NoVersion} /\ l \in Labels
      BY <1>1, SessionFields DEF Labels
<1>4. /\ DOMAIN req' = Handlers /\ req'[p] = r
      /\ \A q \in Handlers \ {p} : req'[q] = req[q]
      BY <1>2 DEF SInv, TypeOK
<1>5. TypeOK'
      <2>0. closers' = closers /\ alerted' = alerted /\ overtaken' = overtaken
            BY <1>1 DEF ends
      <2>1. /\ pc' \in [Handlers -> Labels] /\ expected' \in [Handlers -> Nat \cup {NoVersion}]
            /\ page' \in [Handlers -> Session \cup {Gone}]
            BY <1>1, <1>2, <1>3 DEF SInv, TypeOK
      <2>2. \A q \in Handlers : req'[q] = NoRequest \/ WellFormed(req'[q])
            BY <1>2, <1>4 DEF SInv, TypeOK
      <2>3. QED
            BY <1>1, <1>4, <2>0, <2>1, <2>2 DEF SInv, TypeOK
<1>6. pc'[p] = l /\ Rest(p)
      BY <1>1, <1>2, <1>4 DEF SInv, TypeOK, Rest, ends
<1>7. answer[p] = "none" /\ ~(pc[p] \in {"committed", "saved"})
      BY <1>1, Parts DEF Placed
<1>8. Seen
      BY <1>1, <1>2 DEF Seen, ends
<1>9. Placed(p)'
      BY <1>1, <1>2, <1>4, <1>6, <1>7 DEF Placed
<1>10. StagedFits(p)' /\ EndKept(p)'
       BY <1>1, <1>6, Parts DEF StagedFits, EndKept, ends
<1>11. QED
       BY <1>5, <1>6, <1>8, <1>9, <1>10, StepKept

\* A session read is the one that is there, or a new one.
LEMMA AfterReadKept ==
    ASSUME SInv, NEW p \in Handlers, pc[p] \in {"reading", "rereading"}, AfterRead(p)
    PROVE  SInv'
<1> DEFINE closing == req[p].op \in ClosingOps
<1>1. /\ UNCHANGED <<doc, issued, req, expected, page, dirty, tries, ends>>
      /\ base' = [base EXCEPT ![p] = Loaded] /\ Loaded \in Session
      BY LoadedType DEF AfterRead
<1>2. /\ closing => /\ wasCompleted' = [wasCompleted EXCEPT ![p] = Loaded.batch_completed]
                    /\ pc' = [pc EXCEPT ![p] = "mutating"] /\ answer' = answer
      /\ ~closing => /\ pc' = [pc EXCEPT ![p] = "loaded"]
                     /\ answer' = [answer EXCEPT ![p] = "ok"] /\ wasCompleted' = wasCompleted
      BY DEF AfterRead, Goto, Answer
<1>3. Loaded.batch_completed \in BOOLEAN
      BY <1>1, SessionFields
<1>4. TypeOK'
      <2>1. CASE closing
            BY <1>1, <1>2, <1>3, <2>1 DEF SInv, TypeOK, Labels, ends
      <2>2. CASE ~closing
            BY <1>1, <1>2, <2>2 DEF SInv, TypeOK, Labels, Answers, ends
      <2>3. QED
            BY <2>1, <2>2
<1>5. /\ base'[p] = Loaded
      /\ closing => /\ wasCompleted'[p] = Loaded.batch_completed
                    /\ pc'[p] = "mutating" /\ answer'[p] = answer[p]
      /\ ~closing => /\ pc'[p] = "loaded" /\ answer'[p] = "ok"
                     /\ wasCompleted'[p] = wasCompleted[p]
      /\ Rest(p)
      BY <1>1, <1>2 DEF SInv, TypeOK, Rest, ends
<1>6. answer[p] # "error" /\ ~(pc[p] \in {"committed", "saved"})
      BY Parts DEF Placed
<1>7. Seen
      BY <1>1, <1>2 DEF Seen, ends
<1>8. Loaded # Gone
      <2>1. Loaded.batch_completed \in BOOLEAN /\ DOMAIN Loaded = DOMAIN Loaded
            BY <1>3
      <2>2. ASSUME Loaded = Gone PROVE FALSE
            <3>1. doc = Gone
                  BY <2>2 DEF Loaded
            <3>2. NewSession("sp") = Gone
                  BY <2>2, <3>1 DEF Loaded
            <3>3. "gone" \in DOMAIN Gone /\ "gone" \notin DOMAIN NewSession("sp")
                  BY DEF Gone, NewSession
            <3>4. QED
                  BY <3>2, <3>3
      <2>3. QED
            BY <2>2
<1>9. Placed(p)'
      BY <1>1, <1>5, <1>6, <1>8, Parts DEF Placed, ClosingOps, MutatingOps, VersionedOps, NoRequest
<1>10. StagedFits(p)'
       BY <1>5 DEF StagedFits
<1>11. EndKept(p)'
       BY <1>1, <1>5, LoadedCompleted, Parts DEF EndKept, Closing, ends
<1>12. QED
       BY <1>4, <1>5, <1>7, <1>9, <1>10, <1>11, StepKept

\* A write is a session or a deletion, and fails those who have staged one.
LEMMA PutType ==
    ASSUME SInv, NEW v \in Session \cup {Gone}, Put(v)
    PROVE  /\ doc' = v /\ doc' \in Session \cup {Gone}
           /\ dirty' \in [Handlers -> BOOLEAN]
           /\ \A q \in Handlers : pc[q] = "staged" => dirty'[q]
           /\ Seen /\ overtaken \subseteq overtaken' /\ overtaken' \in SUBSET Handlers
<1>1. doc' = v /\ dirty' = [q \in Handlers |-> pc[q] \in {"watching", "staged"}]
      BY DEF Put
<1>2. dirty' \in [Handlers -> BOOLEAN]
      <2>1. \A q \in Handlers : (pc[q] \in {"watching", "staged"}) \in BOOLEAN
            OBVIOUS
      <2> DEFINE b(q) == pc[q] \in {"watching", "staged"}
      <2>2. \A q \in Handlers : b(q) \in BOOLEAN
            BY <2>1
      <2>3. dirty' = [q \in Handlers |-> b(q)]
            BY <1>1
      <2> HIDE DEF b
      <2>4. QED
            BY <2>2, <2>3
<1>3. \A q \in Handlers : pc[q] = "staged" => dirty'[q]
      BY <1>1, Zenon
<1> DEFINE read == {q \in Handlers : Closing(q) /\ wasCompleted[q]}
<1>4. \/ overtaken' = overtaken \cup read
      \/ overtaken' = overtaken /\ v # Gone /\ v.batch_completed
      BY DEF Put
<1>5. overtaken \in SUBSET Handlers /\ read \in SUBSET Handlers
      BY DEF SInv, TypeOK
<1>6. \A q \in Handlers : Closing(q) /\ wasCompleted[q] => q \in read
      OBVIOUS
<1> HIDE DEF read
<1>7. overtaken \subseteq overtaken' /\ overtaken' \in SUBSET Handlers
      BY <1>4, <1>5
<1>8. Seen
      BY <1>1, <1>4, <1>6, <1>7 DEF Seen
<1>9. QED
      BY <1>1, <1>2, <1>3, <1>7, <1>8

LEMMA CreateKept ==
    ASSUME SInv, NEW p \in Handlers, Create(p)
    PROVE  SInv'
<1>1. /\ pc[p] = "creating" /\ pc' = [pc EXCEPT ![p] = "rereading"]
      /\ req' = req /\ expected' = expected /\ page' = page /\ wasCompleted' = wasCompleted
      /\ UNCHANGED <<issued, base, tries, answer, closers, alerted>>
      BY DEF Create, Goto, conn
<1>2. /\ doc' \in Session \cup {Gone} /\ dirty' \in [Handlers -> BOOLEAN]
      /\ \/ doc' = doc /\ dirty' = dirty
         \/ /\ doc'.batch_completed = FALSE
            /\ \A q \in Handlers : pc[q] = "staged" => dirty'[q]
      /\ Seen /\ overtaken \subseteq overtaken' /\ overtaken' \in SUBSET Handlers
      <2>1. CASE doc = Gone
            <3>1. NewSession("sp") \in Session /\ ~NewSession("sp").batch_completed
                  BY NewSessionType, StoreAssumption
            <3>2. NewSession("sp").batch_completed = FALSE
                  BY <3>1, SessionFields
            <3>3. Put(NewSession("sp"))
                  BY <2>1 DEF Create
            <3>4. QED
                  BY <3>1, <3>2, <3>3, PutType
      <2>2. CASE doc # Gone
            BY <2>2 DEF Create, SInv, TypeOK, Seen
      <2>3. QED
            BY <2>1, <2>2
<1>3. TypeOK'
      BY <1>1, <1>2 DEF SInv, TypeOK, Labels
<1>4. pc'[p] = "rereading" /\ Rest(p)
      BY <1>1, <1>2 DEF SInv, TypeOK, Rest
<1>5. Placed(p)' /\ StagedFits(p)' /\ EndKept(p)'
      BY <1>1, <1>2, <1>4, Parts DEF Placed, StagedFits, EndKept, Closing
<1>6. QED
      BY <1>2, <1>3, <1>4, <1>5, StepKept

LEMMA ReadingKept ==
    ASSUME SInv, NEW p \in Handlers, Reading(p)
    PROVE  SInv'
<1>1. CASE Read(p) \/ Reread(p)
      BY <1>1, AfterReadKept DEF Read, Reread
<1>2. CASE ReadMissing(p)
      <2>1. answer' = [answer EXCEPT ![p] = answer[p]] /\ answer[p] \in Answers
            BY <1>2 DEF ReadMissing, SInv, TypeOK
      <2>2. answer[p] # "error" /\ pc[p] = "reading"
            BY <1>2, Parts DEF Placed, ReadMissing
      <2>3. /\ UNCHANGED <<doc, issued, conn, base, ends>> /\ Goto(p, "creating")
            /\ dirty' \in [Handlers -> BOOLEAN] /\ tries' \in [Handlers -> Nat]
            /\ \A q \in Handlers \ {p} : dirty'[q] = dirty[q]
            BY <1>2 DEF ReadMissing, SInv, TypeOK
      <2>4. "creating" \in Labels
            BY DEF Labels
      <2>5. QED
            BY <2>1, <2>2, <2>3, <2>4, LabelStep
<1>3. CASE Create(p)
      BY <1>3, CreateKept
<1>4. QED
      BY <1>1, <1>2, <1>3 DEF Reading

-----------------------------------------------------------------------------
(* mutate_session.                                                         *)

LEMMA RoundKept ==
    ASSUME SInv, NEW p \in Handlers, Watch(p) \/ Conflict(p)
    PROVE  SInv'
<1>1. answer[p] \in Answers /\ answer[p] # "error" /\ pc[p] \in {"mutating", "staged"}
      BY Parts DEF Placed, Watch, Conflict
<1>2. /\ UNCHANGED <<doc, issued, conn, base, ends>>
      /\ dirty' \in [Handlers -> BOOLEAN] /\ tries' \in [Handlers -> Nat]
      /\ \A q \in Handlers \ {p} : dirty'[q] = dirty[q]
      <2>1. CASE Watch(p)
            <3>1. dirty' = [dirty EXCEPT ![p] = FALSE] /\ tries' = tries
                  BY <2>1 DEF Watch
            <3>2. UNCHANGED <<doc, issued, conn, base, ends>>
                  BY <2>1 DEF Watch
            <3>3. QED
                  BY <3>1, <3>2 DEF SInv, TypeOK
      <2>2. CASE Conflict(p)
            BY <2>2 DEF Conflict, SInv, TypeOK
      <2>3. QED
            BY <2>1, <2>2
<1>3. PICK l \in {"watching", "mutating", "done"}, a \in {answer[p], "conflict"} :
         Goto(p, l) /\ answer' = [answer EXCEPT ![p] = a]
      <2>1. [answer EXCEPT ![p] = answer[p]] = answer
            BY DEF SInv, TypeOK
      <2>2. QED
            BY <2>1 DEF Watch, Conflict, Answer
<1>4. l \in Labels /\ a \in Answers
      BY <1>1 DEF Labels, Answers
<1>5. QED
      BY <1>1, <1>2, <1>3, <1>4, LabelStep

LEMMA MutateKept ==
    ASSUME SInv, NEW p \in Handlers, Mutate(p)
    PROVE  SInv'
<1> DEFINE r == req[p]
           s == Loaded
           stale == expected[p] # NoVersion /\ expected[p] # s.tasks_version
           a == IF Refuses(r, s) THEN "refused" ELSE "ok"
           m == IF Refuses(r, s) THEN s ELSE Mutated(r, s)
<1>1. /\ pc[p] = "watching" /\ UNCHANGED <<doc, issued, conn, dirty, tries, ends>>
      /\ stale \/ Rejects(r, s) =>
            Goto(p, "done") /\ Answer(p, "rejected") /\ UNCHANGED base
      /\ ~(stale \/ Rejects(r, s)) =>
            /\ Goto(p, "staged") /\ Answer(p, a) /\ base' = [base EXCEPT ![p] = m]
      BY DEF Mutate
<1>2. r.op \in MutatingOps /\ WellFormed(r) /\ answer[p] # "error"
      BY <1>1, Parts DEF Placed
<1>3. CASE stale \/ Rejects(r, s)
      <2>1. Goto(p, "done") /\ answer' = [answer EXCEPT ![p] = "rejected"] /\ UNCHANGED base
            BY <1>1, <1>3 DEF Answer
      <2>2. "done" \in Labels /\ "rejected" \in Answers
            BY DEF Labels, Answers
      <2>3. /\ dirty' \in [Handlers -> BOOLEAN] /\ tries' \in [Handlers -> Nat]
            /\ \A q \in Handlers \ {p} : dirty'[q] = dirty[q]
            /\ UNCHANGED <<doc, issued, conn, base, ends>>
            BY <1>1, <2>1 DEF SInv, TypeOK
      <2>4. QED
            BY <1>1, <1>2, <2>1, <2>2, <2>3, LabelStep
<1>4. CASE ~(stale \/ Rejects(r, s))
      <2>1. /\ pc' = [pc EXCEPT ![p] = "staged"] /\ answer' = [answer EXCEPT ![p] = a]
            /\ base' = [base EXCEPT ![p] = m]
            /\ req' = req /\ expected' = expected /\ page' = page /\ wasCompleted' = wasCompleted
            BY <1>1, <1>4 DEF Goto, Answer, conn
      <2>2. s \in Session /\ s = Loaded
            BY LoadedType
      <2>3. /\ m \in Session
            /\ m.batch_completed => s.batch_completed \/ r.op \in ClosingOps
            <3> HIDE DEF s
            <3>1. CASE Refuses(r, s)
                  BY <2>2, <3>1
            <3>2. CASE ~Refuses(r, s)
                  BY <1>2, <1>4, <2>2, <3>2, MutatedIs
            <3>3. QED
                  BY <3>1, <3>2
      <2>4. a \in {"ok", "refused"} /\ (r.op \in ClosingOps => a = "ok")
            BY DEF Refuses, ClosingOps
      <2>5. /\ dirty' = dirty /\ doc' = doc /\ issued' = issued /\ tries' = tries
            /\ closers' = closers /\ alerted' = alerted /\ overtaken' = overtaken
            /\ Loaded' = Loaded
            BY <1>1 DEF Loaded, ends
      <2> DEFINE fits == /\ expected[p] # NoVersion => expected[p] = Loaded.tasks_version
                         /\ ~Rejects(req[p], Loaded)
                         /\ a = IF Refuses(req[p], Loaded) THEN "refused" ELSE "ok"
                         /\ m = IF Refuses(req[p], Loaded) THEN Loaded ELSE Mutated(req[p], Loaded)
      <2>6. fits
            BY <1>4
      <2>8. m # Gone
            <3>1. "gone" \in DOMAIN Gone
                  BY DEF Gone
            <3>2. "gone" \notin DOMAIN m
                  BY <2>3 DEF Session
            <3>3. QED
                  BY <3>1, <3>2
      <2> HIDE DEF a, m, stale
      <2>9. TypeOK'
            BY <2>1, <2>3, <2>4, <2>5 DEF SInv, TypeOK, Labels, Answers
      <2>10. /\ pc'[p] = "staged" /\ answer'[p] = a /\ base'[p] = m /\ Rest(p)
             BY <2>1, <2>5 DEF SInv, TypeOK, Rest
      <2>11. Seen
             BY <2>5 DEF Seen
      <2>12. Placed(p)'
             <3>1. req[p] # NoRequest
                   BY <1>1, Parts DEF Placed
             <3>2. QED
                   BY <1>2, <2>1, <2>4, <2>8, <2>10, <3>1 DEF Placed
      <2>13. StagedFits(p)'
             BY <2>1, <2>4, <2>5, <2>6, <2>10 DEF StagedFits
      <2>14. EndKept(p)'
             BY <1>1, <2>1, <2>5, <2>10, Parts DEF EndKept, Closing
      <2>15. QED
             BY <2>9, <2>10, <2>11, <2>12, <2>13, <2>14, StepKept
<1>5. QED
      BY <1>3, <1>4

\* p writes the session it holds, or one like it, and goes on.
LEMMA WriteStep ==
    ASSUME SInv, NEW p \in Handlers, NEW v \in Session, NEW l \in {"committed", "saved", "done"},
           Put(v), Goto(p, l), UNCHANGED <<conn, base, tries, answer, alerted>>,
           \/ closers' = closers
           \/ /\ closers' = closers \cup {p} /\ l = "committed" /\ req[p].op \in ClosingOps
              /\ base[p].batch_completed /\ ~Loaded.batch_completed,
           issued' \subseteq Tasks,
           pc[p] \in {"staged", "loaded", "committed"},
           v.batch_completed = base[p].batch_completed,
           l = "committed" => pc[p] = "staged" /\ answer[p] = "ok",
           l = "done" => pc[p] = "staged" /\ answer[p] # "ok",
           l = "saved" <=> pc[p] # "staged"
    PROVE  SInv'
<1>1. /\ doc' = v /\ doc' \in Session \cup {Gone} /\ dirty' \in [Handlers -> BOOLEAN]
      /\ \A q \in Handlers : pc[q] = "staged" => dirty'[q]
      /\ Seen /\ overtaken \subseteq overtaken' /\ overtaken' \in SUBSET Handlers
      BY PutType
<1>2. /\ pc' = [pc EXCEPT ![p] = l] /\ req' = req /\ expected' = expected /\ page' = page
      /\ wasCompleted' = wasCompleted /\ base' = base /\ tries' = tries
      /\ answer' = answer /\ alerted' = alerted
      BY DEF Goto, conn
<1>3. TypeOK'
      <2>1. closers' \in SUBSET Handlers
            BY DEF SInv, TypeOK
      <2>2. QED
            BY <1>1, <1>2, <2>1 DEF SInv, TypeOK, Labels
<1>4. pc'[p] = l /\ Rest(p)
      BY <1>1, <1>2 DEF SInv, TypeOK, Rest
<1>5. Placed(p)'
      BY <1>2, <1>4, Parts DEF Placed
<1>6. StagedFits(p)'
      BY <1>4 DEF StagedFits
<1>7. CASE closers' = closers
      <2>1. EndKept(p)'
            BY <1>1, <1>2, <1>4, <1>7, Parts DEF EndKept, Closing
      <2>2. QED
            BY <1>1, <1>3, <1>4, <1>5, <1>6, <2>1, StepKept
<1>8. CASE /\ closers' = closers \cup {p} /\ l = "committed" /\ req[p].op \in ClosingOps
           /\ base[p].batch_completed /\ ~Loaded.batch_completed
      <2>1. wasCompleted[p] => p \in overtaken
            BY <1>8, Parts DEF EndKept, Closing, Loaded
      <2>2. EndKept(p)'
            BY <1>1, <1>2, <1>4, <1>8, <2>1 DEF EndKept, Closing
      <2>3. QED
            BY <1>1, <1>3, <1>4, <1>5, <1>6, <2>2, StepKept
<1>9. QED
      BY <1>7, <1>8

LEMMA HeldIsSession ==
    ASSUME SInv, NEW p \in Handlers, pc[p] \in {"staged", "loaded", "committed", "saved"}
    PROVE  base[p] \in Session
BY Parts DEF Placed

\* Only the closing requests end a batch.
LEMMA EndedByClosing ==
    ASSUME SInv, NEW p \in Handlers, pc[p] = "staged", ~dirty[p],
           base[p].batch_completed, ~Loaded.batch_completed
    PROVE  req[p].op \in ClosingOps /\ answer[p] = "ok"
<1>1. /\ ~Rejects(req[p], Loaded) /\ answer[p] = IF Refuses(req[p], Loaded) THEN "refused" ELSE "ok"
      /\ base[p] = IF Refuses(req[p], Loaded) THEN Loaded ELSE Mutated(req[p], Loaded)
      BY Parts DEF StagedFits
<1>2. ~Refuses(req[p], Loaded)
      BY <1>1
<1>3. req[p].op \in MutatingOps /\ WellFormed(req[p])
      BY Parts DEF Placed
<1>4. req[p].op \in ClosingOps
      BY <1>1, <1>2, <1>3, LoadedType, MutatedIs
<1>5. QED
      BY <1>1, <1>2, <1>4

LEMMA CommitKept ==
    ASSUME SInv, NEW p \in Handlers, Commit(p)
    PROVE  SInv'
<1>1. /\ pc[p] = "staged" /\ ~dirty[p] /\ Put(base[p]) /\ base[p] \in Session
      /\ Goto(p, IF answer[p] = "ok" THEN "committed" ELSE "done")
      /\ UNCHANGED <<conn, base, tries, answer, alerted>>
      BY HeldIsSession DEF Commit
<1>2. issued' \subseteq Tasks
      <2>1. issued' = issued \cup (IF req[p].op = "add" THEN ToSet(req[p].new) ELSE {})
            BY DEF Commit
      <2>2. req[p].op = "add" => ToSet(req[p].new) \subseteq Tasks
            BY <1>1, Parts, RequestLists, Elements
      <2>3. QED
            BY <2>1, <2>2 DEF SInv, TypeOK
<1> DEFINE ended == base[p].batch_completed /\ ~Loaded.batch_completed
<1>3. closers' = IF ended THEN closers \cup {p} ELSE closers
      BY DEF Commit
<1>4. ended => req[p].op \in ClosingOps /\ answer[p] = "ok"
      BY <1>1, EndedByClosing
<1>5. CASE answer[p] = "ok"
      <2>1. Goto(p, "committed")
            BY <1>1, <1>5
      <2>2. \/ closers' = closers
            \/ /\ closers' = closers \cup {p} /\ "committed" = "committed" /\ req[p].op \in ClosingOps
               /\ base[p].batch_completed /\ ~Loaded.batch_completed
            BY <1>3, <1>4
      <2>3. QED
            BY <1>1, <1>2, <1>5, <2>1, <2>2, WriteStep
<1>6. CASE answer[p] # "ok"
      <2>1. Goto(p, "done") /\ closers' = closers
            BY <1>1, <1>3, <1>4, <1>6
      <2>2. QED
            BY <1>1, <1>2, <1>6, <2>1, WriteStep
<1>7. QED
      BY <1>5, <1>6

-----------------------------------------------------------------------------
(* After the session has been read or written.                             *)

LEMMA BackfillKept ==
    ASSUME SInv, NEW p \in Handlers, Backfill(p)
    PROVE  SInv'
<1>1. /\ pc[p] \in {"loaded", "committed"} /\ base[p] \in Session
      /\ Put(base[p]) /\ Goto(p, "saved")
      /\ UNCHANGED <<issued, conn, base, tries, answer, closers, alerted>> /\ issued' \subseteq Tasks
      BY HeldIsSession DEF Backfill, SInv, TypeOK
<1>2. QED
      BY <1>1, WriteStep

LEMMA ExportKept ==
    ASSUME SInv, NEW p \in Handlers, Export(p)
    PROVE  SInv'
<1>1. /\ pc[p] = "loaded" /\ base[p] \in Session /\ Goto(p, "saved")
      /\ UNCHANGED <<issued, conn, base, tries, answer, closers, alerted>> /\ issued' \subseteq Tasks
      BY HeldIsSession DEF Export, SInv, TypeOK
<1>2. PICK sent \in (SUBSET Sendable(base[p])) \ {{}} : \E points \in [sent -> Points] :
         Put(Exported(base[p], sent, points))
      BY DEF Export
<1>3. PICK points \in [sent -> Points] : Put(Exported(base[p], sent, points))
      BY <1>2
<1>4. /\ Exported(base[p], sent, points) \in Session
      /\ Exported(base[p], sent, points).batch_completed = base[p].batch_completed
      BY <1>1, ExportedPoints DEF PointsStored
<1>5. QED
      BY <1>1, <1>3, <1>4, WriteStep

LEMMA RespondKept ==
    ASSUME SInv, NEW p \in Handlers, Respond(p)
    PROVE  SInv'
<1>1. /\ pc[p] \in {"loaded", "committed", "saved"} /\ pc' = [pc EXCEPT ![p] = "done"]
      /\ doc' = doc /\ issued' = issued /\ req' = req /\ expected' = expected /\ page' = page
      /\ wasCompleted' = wasCompleted /\ base' = base /\ dirty' = dirty /\ tries' = tries
      /\ answer' = answer /\ closers' = closers /\ overtaken' = overtaken
      BY DEF Respond, Goto, conn
<1>2. /\ alerted' \in {alerted, alerted \cup {p}}
      /\ req[p].op \in ClosingOps /\ ~wasCompleted[p] /\ base[p].batch_completed => p \in alerted'
      BY DEF Respond
<1>3. TypeOK'
      BY <1>1, <1>2 DEF SInv, TypeOK, Labels
<1>4. pc'[p] = "done" /\ Rest(p)
      BY <1>1, <1>2 DEF SInv, TypeOK, Rest
<1>5. Seen
      BY <1>1 DEF Seen
<1>6. Placed(p)' /\ StagedFits(p)' /\ EndKept(p)'
      BY <1>1, <1>2, <1>4, Parts DEF Placed, StagedFits, EndKept, Closing
<1>7. QED
      BY <1>3, <1>4, <1>5, <1>6, StepKept

LEMMA DeleteKept ==
    ASSUME SInv, NEW p \in Handlers, Delete(p)
    PROVE  SInv'
<1>1. /\ pc[p] = "deleting" /\ pc' = [pc EXCEPT ![p] = "done"]
      /\ answer' = [answer EXCEPT ![p] = "ok"]
      /\ issued' = issued /\ req' = req /\ expected' = expected /\ page' = page
      /\ wasCompleted' = wasCompleted /\ base' = base /\ tries' = tries
      /\ closers' = closers /\ alerted' = alerted
      BY DEF Delete, Goto, Answer, conn
<1>2. /\ doc' = Gone /\ doc' \in Session \cup {Gone} /\ dirty' \in [Handlers -> BOOLEAN]
      /\ \A q \in Handlers : pc[q] = "staged" => dirty'[q]
      /\ Seen /\ overtaken' \in SUBSET Handlers
      BY PutType DEF Delete
<1>3. TypeOK'
      BY <1>1, <1>2 DEF SInv, TypeOK, Labels, Answers
<1>4. pc'[p] = "done" /\ answer'[p] = "ok" /\ Rest(p)
      BY <1>1, <1>2 DEF SInv, TypeOK, Rest
<1>5. Placed(p)' /\ StagedFits(p)' /\ EndKept(p)'
      BY <1>1, <1>4, Parts DEF Placed, StagedFits, EndKept, Closing
<1>6. QED
      BY <1>2, <1>3, <1>4, <1>5, StepKept

LEMMA CrashKept ==
    ASSUME SInv, NEW p \in Handlers, Crash(p)
    PROVE  SInv'
<1>1. /\ pc[p] \notin {"idle", "done"} /\ Goto(p, "done")
      /\ answer' = [answer EXCEPT ![p] = "error"]
      /\ UNCHANGED <<doc, issued, conn, base, ends>>
      /\ dirty' \in [Handlers -> BOOLEAN] /\ tries' \in [Handlers -> Nat]
      /\ \A q \in Handlers \ {p} : dirty'[q] = dirty[q]
      BY DEF Crash, Answer, SInv, TypeOK
<1>2. answer[p] # "error" /\ "done" \in Labels /\ "error" \in Answers
      BY <1>1, Parts DEF Placed, Labels, Answers
<1>3. QED
      BY <1>1, <1>2, LabelStep

LEMMA NextKept ==
    ASSUME SInv, [Next]_vars
    PROVE  SInv'
<1>1. CASE UNCHANGED vars
      <2>1. /\ UNCHANGED <<doc, issued, pc, req, expected, page, base, dirty, tries,
                           wasCompleted, answer, ends>>
            BY <1>1 DEF vars, conn
      <2>2. Loaded' = Loaded
            BY <2>1 DEF Loaded
      <2>3. QED
            BY <2>1, <2>2
            DEF SInv, TypeOK, Placed, StagedFits, EndKept, Closing, ends
<1>2. ASSUME NEW p \in Handlers, Submit(p) \/ Serve(p) \/ Crash(p)
      PROVE  SInv'
      <2>1. CASE Submit(p) \/ Reading(p) \/ Crash(p)
            BY <2>1, SubmitKept, ReadingKept, CrashKept
      <2>2. CASE Mutating(p)
            BY <2>2, RoundKept, MutateKept, CommitKept DEF Mutating
      <2>3. CASE Ending(p)
            BY <2>3, BackfillKept, ExportKept, RespondKept, DeleteKept DEF Ending
      <2>4. QED
            BY <1>2, <2>1, <2>2, <2>3 DEF Serve
<1>3. QED
      BY <1>1, <1>2 DEF Next

-----------------------------------------------------------------------------
(* The session the instance begins with.                                   *)

LEMMA RunningType ==
    ASSUME NEW queue \in Seq(Tasks), queue # <<>>
    PROVE  /\ Running(queue) \in Session /\ ~Running(queue).batch_completed
           /\ Running(queue).tasks_version = InitialVersion
<1> DEFINE new == NewSession("sp")
           e == Enqueue(new, queue)
<1>1. "sp" \in Modes
      BY StoreAssumption
<1>2. new \in Session /\ new.tasks_version = 0 /\ new.tasks_queue = <<>>
      BY <1>1, NewSessionType DEF NewSession
<1> HIDE DEF new
<1>3. e \in Session
      BY <1>2, EnqueueType
<1>4. e.tasks_version = new.tasks_version + 1 /\ e.tasks_queue = new.tasks_queue \o queue
      BY <1>2, ZenonT(30) DEF Enqueue, Session
<1> HIDE DEF e
<1>5. CanStart(e) /\ e.tasks_version = 1
      BY <1>2, <1>4 DEF CanStart
<1>6. /\ Start(e, "sp") \in Session /\ VotingActive(Start(e, "sp"))
      /\ Start(e, "sp").tasks_version = 2
      BY <1>1, <1>3, <1>5, StartType
<1>7. Running(queue) = Start(e, "sp")
      BY Zenon DEF Running, e, new
<1>8. QED
      BY <1>6, <1>7 DEF VotingActive, InitialVersion

LEMMA ClosedType ==
    ASSUME NEW queue \in Seq(Tasks), queue # <<>>
    PROVE  Closed(queue) \in Session /\ Closed(queue).tasks_version = InitialVersion
<1> DEFINE new == NewSession("sp")
           e == Enqueue(new, queue)
<1>1. new \in Session /\ new.tasks_version = 0
      BY StoreAssumption, NewSessionType
<1> HIDE DEF new
<1>2. e \in Session
      BY <1>1, EnqueueType
<1>3. e.tasks_version = new.tasks_version + 1
      BY <1>1, ZenonT(30) DEF Enqueue, Session
<1> HIDE DEF e
<1>4. Close(e) \in Session /\ Close(e).tasks_version = 2
      <2>1. Close(e) \in Session /\ Close(e).tasks_version = e.tasks_version + 1
            BY <1>2, CloseType, Zenon
      <2>2. QED
            BY <1>1, <1>3, <2>1
<1>5. Closed(queue) = Close(e)
      BY Zenon DEF Closed, e, new
<1>6. QED
      BY <1>4, <1>5 DEF InitialVersion

LEMMA InitSession ==
    ASSUME Init
    PROVE  /\ doc \in Session /\ doc # Gone /\ issued \subseteq Tasks
           /\ doc.tasks_version = InitialVersion
<1>1. PICK queue \in [1..Prepared -> Tasks], joined \in SUBSET Users, role \in TeamRoles :
         \E voted \in SUBSET joined :
            /\ IsInjective(queue)
            /\ issued = ToSet(queue)
            /\ \E s \in {Running(queue), Closed(queue)} :
                  doc = [s EXCEPT
                           !.participants =
                              [u \in Users |-> IF u \in joined THEN role ELSE Absent],
                           !.votes[queue[1]] = voted \X {"flat"}]
      BY Zenon DEF Init
<1>2. PICK voted \in SUBSET joined, s \in {Running(queue), Closed(queue)} :
         doc = [s EXCEPT
                   !.participants = [u \in Users |-> IF u \in joined THEN role ELSE Absent],
                   !.votes[queue[1]] = voted \X {"flat"}]
      BY <1>1, Zenon
<1>3. Prepared \in Nat /\ Prepared >= 1
      BY StoreAssumption
<1>4. queue \in Seq(Tasks) /\ queue # <<>>
      BY <1>1, <1>3, SeqDef
<1> DEFINE f == [u \in Users |-> IF u \in joined THEN role ELSE Absent]
           w == [s.votes EXCEPT ![queue[1]] = voted \X {"flat"}]
<1>5. s \in Session /\ s.tasks_version = InitialVersion
      BY <1>2, <1>4, RunningType, ClosedType
<1>6. f \in [Users -> TeamRoles \cup {Absent}]
      OBVIOUS
<1>7. w \in [Tasks -> SUBSET (Users \X Tracks)]
      <2>1. voted \X {"flat"} \in SUBSET (Users \X Tracks)
            BY DEF Tracks
      <2>2. s.votes \in [Tasks -> SUBSET (Users \X Tracks)]
            BY <1>5, SessionFields
      <2>3. QED
            BY <2>1, <2>2
<1> DEFINE d == [s EXCEPT !.participants = f, !.votes = w]
<1>8. doc = d
      BY <1>2, Zenon
<1> HIDE DEF f, w
<1>9. d \in Session /\ d.tasks_version = s.tasks_version
      BY <1>5, <1>6, <1>7, SessionFields, ZenonT(30) DEF Session
<1>10. d # Gone
       <2>1. "gone" \in DOMAIN Gone /\ "gone" \notin DOMAIN d
             BY <1>9 DEF Gone, Session
       <2>2. QED
             BY <2>1
<1>11. issued \subseteq Tasks
       BY <1>1, <1>4, Elements
<1>12. QED
       BY <1>5, <1>8, <1>9, <1>10, <1>11

LEMMA InitKept ==
    ASSUME Init
    PROVE  SInv
<1>1. /\ pc = [p \in Handlers |-> "idle"] /\ req = [p \in Handlers |-> NoRequest]
      /\ expected = [p \in Handlers |-> NoVersion] /\ page = [p \in Handlers |-> Gone]
      /\ base = [p \in Handlers |-> Gone] /\ dirty = [p \in Handlers |-> FALSE]
      /\ tries = [p \in Handlers |-> 0] /\ wasCompleted = [p \in Handlers |-> FALSE]
      /\ answer = [p \in Handlers |-> "none"]
      /\ closers = {} /\ alerted = {} /\ overtaken = {}
      BY DEF Init
<1>2. TypeOK
      BY <1>1, InitSession DEF TypeOK, Labels, Answers
<1>3. \A p \in Handlers : Placed(p) /\ StagedFits(p) /\ EndKept(p)
      BY <1>1 DEF Placed, StagedFits, EndKept, Closing
<1>4. QED
      BY <1>2, <1>3 DEF SInv

-----------------------------------------------------------------------------
(* What holds with the blind writes too.                                   *)

\* Types, where each request is, and that an EXEC which will succeed writes what
\* the mutator makes of the session in Redis: what WATCH gives mutate_session.
THEOREM StoreInductive == Spec => []SInv
BY InitKept, NextKept, PTL DEF Spec

\* Each end of a batch is announced by the request that brought it about, unless
\* that request died, or had read the batch completed and was overtaken by one
\* that opened it again: through lost rounds of mutate_session, blind writes,
\* deletion and a new session with the same key.
THEOREM EndsAreAnnounced == Spec => []EndsAnnounced
<1>1. ASSUME SInv, NEW p \in Handlers, p \in closers, pc[p] = "done", answer[p] # "error"
      PROVE  p \in alerted \/ p \in overtaken
      BY <1>1 DEF SInv, EndKept
<1>2. SInv => EndsAnnounced
      BY <1>1 DEF EndsAnnounced, SInv, TypeOK
<1>3. QED
      BY <1>2, StoreInductive, PTL

-----------------------------------------------------------------------------
(* The steps where every write goes through mutate_session: only an EXEC    *)
(* changes the session.                                                    *)

LEMMA WatchedRequests ==
    ASSUME Watched, NEW r, WellFormed(r)
    PROVE  r.op \in MutatingOps \cup {"view"}
BY DEF Watched, WellFormed, AllOps

\* A step but an EXEC leaves the session alone, and what the handler has answered.
LEMMA QuietStep ==
    ASSUME SInv, Watched, doc # Gone, NEW p \in Handlers, Serve(p) \/ Crash(p), ~Commit(p)
    PROVE  /\ doc' = doc /\ issued' = issued /\ pc[p] # "idle"
           /\ req' = req /\ expected' = expected /\ page' = page
           /\ \A q \in Handlers \ {p} : pc'[q] = pc[q] /\ answer'[q] = answer[q]
           /\ pc'[p] \in {"mutating", "watching", "staged"} /\ req[p].op = "add" =>
                 pc[p] \in {"mutating", "watching", "staged"}
           /\ p \in Acknowledged' => p \in Acknowledged
           /\ p \in Acknowledged \cup Died => p \in Acknowledged' \cup Died'
<1> DEFINE Goal == /\ doc' = doc /\ issued' = issued /\ pc[p] # "idle"
                   /\ req' = req /\ expected' = expected /\ page' = page
                   /\ \A q \in Handlers \ {p} : pc'[q] = pc[q] /\ answer'[q] = answer[q]
                   /\ pc'[p] \in {"mutating", "watching", "staged"} /\ req[p].op = "add" =>
                         pc[p] \in {"mutating", "watching", "staged"}
                   /\ p \in Acknowledged' => p \in Acknowledged
                   /\ p \in Acknowledged \cup Died => p \in Acknowledged' \cup Died'
<1> SUFFICES Goal
    OBVIOUS
<1>1. /\ pc \in [Handlers -> Labels] /\ answer \in [Handlers -> Answers] /\ Placed(p)
      /\ pc[p] # "idle" => WellFormed(req[p]) /\ req[p].op \in MutatingOps \cup {"view"}
      BY Parts, WatchedRequests DEF SInv, TypeOK
<1> DEFINE others == \A q \in Handlers \ {p} : pc'[q] = pc[q] /\ answer'[q] = answer[q]
<1>2. ASSUME doc' = doc, issued' = issued, req' = req, expected' = expected, page' = page,
             others, pc[p] # "idle",
             pc'[p] \in {"mutating", "watching", "staged"} /\ req[p].op = "add" =>
                pc[p] \in {"mutating", "watching", "staged"},
             /\ req[p].op \in VersionedOps /\ answer'[p] = "ok"
             /\ pc'[p] \in {"committed", "saved", "done"}
             => answer[p] = "ok" /\ pc[p] \in {"committed", "saved", "done"},
             answer[p] = "error" => answer'[p] = "error",
             pc[p] \in {"committed", "saved", "done"} =>
                \/ answer'[p] = "error"
                \/ answer'[p] = answer[p] /\ pc'[p] \in {"committed", "saved", "done"}
      PROVE  Goal
      <2>1. p \in Acknowledged' => p \in Acknowledged
            BY <1>2 DEF Acknowledged
      <2>2. p \in Acknowledged \cup Died => p \in Acknowledged' \cup Died'
            BY <1>2 DEF Acknowledged, Died
      <2>3. QED
            BY <1>2, <2>1, <2>2
<1>2a. ASSUME NEW l, NEW a, pc' = [pc EXCEPT ![p] = l], answer' = [answer EXCEPT ![p] = a]
      PROVE  others /\ pc'[p] = l /\ answer'[p] = a
      BY <1>1, <1>2a
<1> HIDE DEF others
<1>3. [answer EXCEPT ![p] = answer[p]] = answer /\ answer[p] \in Answers
      BY <1>1
<1> HIDE DEF Goal
<1>4. ASSUME AfterRead(p), pc[p] \in {"reading", "rereading"} PROVE Goal
      <2>1. /\ doc' = doc /\ issued' = issued /\ req' = req /\ expected' = expected
            /\ page' = page
            BY <1>4 DEF AfterRead
      <2>2. CASE req[p].op \in ClosingOps
            <3>1. pc' = [pc EXCEPT ![p] = "mutating"] /\ answer' = [answer EXCEPT ![p] = answer[p]]
                  BY <1>3, <1>4, <2>2 DEF AfterRead, Goto
            <3>2. "mutating" \in Labels /\ req[p].op # "add"
                  BY <2>2 DEF Labels, ClosingOps
            <3>3. others /\ pc'[p] = "mutating" /\ answer'[p] = answer[p]
                  BY <1>2a, <3>1
            <3>4. QED
                  BY <1>2, <1>3, <1>4, <2>1, <3>1, <3>2, <3>3
      <2>3. CASE req[p].op \notin ClosingOps
            <3>1. pc' = [pc EXCEPT ![p] = "loaded"] /\ answer' = [answer EXCEPT ![p] = "ok"]
                  BY <1>4, <2>3 DEF AfterRead, Goto, Answer
            <3>2. "loaded" \in Labels /\ "ok" \in Answers /\ answer[p] # "error"
                  BY <1>1, <1>4 DEF Labels, Answers, Placed
            <3>3. others /\ pc'[p] = "loaded" /\ answer'[p] = "ok"
                  BY <1>2a, <3>1
            <3>4. QED
                  BY <1>2, <1>4, <2>1, <3>1, <3>2, <3>3
      <2>4. QED
            BY <2>2, <2>3
<1>5. CASE Reading(p)
      <2>1. CASE Read(p) \/ Reread(p)
            BY <1>4, <2>1 DEF Read, Reread
      <2>2. CASE Create(p)
            <3>1. /\ doc' = doc /\ issued' = issued /\ req' = req /\ expected' = expected
                  /\ page' = page /\ pc' = [pc EXCEPT ![p] = "rereading"]
                  /\ answer' = [answer EXCEPT ![p] = answer[p]] /\ pc[p] = "creating"
                  BY <1>3, <2>2 DEF Create, Goto, conn
            <3>2. "rereading" \in Labels
                  BY DEF Labels
            <3>3. others /\ pc'[p] = "rereading" /\ answer'[p] = answer[p]
                  BY <1>2a, <3>1
            <3>4. QED
                  BY <1>2, <1>3, <3>1, <3>2, <3>3
      <2>3. QED
            BY <1>5, <2>1, <2>2 DEF Reading, ReadMissing
<1>6. CASE Watch(p) \/ Conflict(p)
      <2>1. PICK l \in {"watching", "mutating", "done"}, a \in {answer[p], "conflict"} :
               pc' = [pc EXCEPT ![p] = l] /\ answer' = [answer EXCEPT ![p] = a]
               /\ (a = answer[p] => l # "done")
            <3>1. CASE Watch(p)
                  BY <1>3, <3>1 DEF Watch, Goto
            <3>2. CASE Conflict(p) /\ tries[p] + 1 < MaxAttempts
                  BY <1>3, <3>2 DEF Conflict, Goto
            <3>3. CASE Conflict(p) /\ ~(tries[p] + 1 < MaxAttempts)
                  <4>1. pc' = [pc EXCEPT ![p] = "done"]
                        /\ answer' = [answer EXCEPT ![p] = "conflict"]
                        BY <3>3 DEF Conflict, Goto, Answer
                  <4>2. answer[p] \in {"ok", "refused"}
                        BY <3>3, Parts DEF Conflict, StagedFits
                  <4>3. QED
                        BY <4>1, <4>2
            <3>4. QED
                  BY <1>6, <3>1, <3>2, <3>3
      <2>2. /\ doc' = doc /\ issued' = issued /\ req' = req /\ expected' = expected
            /\ page' = page /\ pc[p] \in {"mutating", "staged"}
            BY <1>6 DEF Watch, Conflict, conn
      <2>3. l \in Labels /\ a \in Answers /\ answer[p] # "error"
            BY <1>1, <1>3, <2>2 DEF Labels, Answers, Placed
      <2>4. others /\ pc'[p] = l /\ answer'[p] = a
            BY <1>2a, <2>1
      <2>5. QED
            BY <1>2, <2>1, <2>2, <2>3, <2>4
<1>7. CASE Mutate(p)
      <2>1. /\ doc' = doc /\ issued' = issued /\ req' = req /\ expected' = expected
            /\ page' = page /\ pc[p] = "watching"
            BY <1>7 DEF Mutate, conn
      <2>2. PICK l \in {"done", "staged"}, a \in {"rejected", "refused", "ok"} :
               pc' = [pc EXCEPT ![p] = l] /\ answer' = [answer EXCEPT ![p] = a]
               /\ (l = "done" => a = "rejected")
            <3>1. \/ Goto(p, "done") /\ Answer(p, "rejected")
                  \/ Goto(p, "staged") /\ Answer(p, IF Refuses(req[p], Loaded) THEN "refused" ELSE "ok")
                  BY <1>7 DEF Mutate
            <3>2. QED
                  BY <3>1 DEF Goto, Answer
      <2>3. l \in Labels /\ a \in Answers /\ answer[p] # "error"
            BY <1>1, <2>1 DEF Labels, Answers, Placed
      <2>4. others /\ pc'[p] = l /\ answer'[p] = a
            BY <1>2a, <2>2
      <2>5. QED
            BY <1>2, <2>1, <2>2, <2>3, <2>4
<1>8. CASE Ending(p)
      <2>1. ~Backfill(p) /\ ~Export(p) /\ ~Delete(p)
            BY <1>1 DEF Backfill, Export, Delete, Placed, Watched,
                        MutatingOps, VersionedOps, GuardedOps, ClosingOps
      <2>2. /\ doc' = doc /\ issued' = issued /\ req' = req /\ expected' = expected
            /\ page' = page /\ pc[p] \in {"loaded", "committed", "saved"}
            /\ pc' = [pc EXCEPT ![p] = "done"] /\ answer' = [answer EXCEPT ![p] = answer[p]]
            BY <1>3, <1>8, <2>1 DEF Ending, Respond, Goto, conn
      <2>3. "done" \in Labels /\ (pc[p] = "loaded" => req[p].op \notin VersionedOps)
            BY <1>1 DEF Labels, Placed, VersionedOps, GuardedOps, ClosingOps
      <2>4. others /\ pc'[p] = "done" /\ answer'[p] = answer[p]
            BY <1>2a, <2>2
      <2>5. QED
            BY <1>2, <1>3, <2>2, <2>3, <2>4
<1>9. CASE Crash(p)
      <2>1. /\ doc' = doc /\ issued' = issued /\ req' = req /\ expected' = expected
            /\ page' = page /\ pc[p] \notin {"idle", "done"}
            /\ pc' = [pc EXCEPT ![p] = "done"] /\ answer' = [answer EXCEPT ![p] = "error"]
            BY <1>9 DEF Crash, Goto, Answer, conn
      <2>2. "done" \in Labels /\ "error" \in Answers
            BY DEF Labels, Answers
      <2>3. others /\ pc'[p] = "done" /\ answer'[p] = "error"
            BY <1>2a, <2>1
      <2>4. QED
            BY <1>2, <2>1, <2>2, <2>3
<1>10. QED
       BY <1>5, <1>6, <1>7, <1>8, <1>9 DEF Serve, Mutating

\* An EXEC that succeeds writes the request's mutation of the session that is
\* there, or that session when the mutator has turned the request down.
LEMMA ExecStep ==
    ASSUME SInv, doc # Gone, NEW p \in Handlers, Commit(p)
    PROVE  /\ pc[p] = "staged" /\ answer' = answer
           /\ req' = req /\ expected' = expected /\ page' = page
           /\ pc'[p] = IF answer[p] = "ok" THEN "committed" ELSE "done"
           /\ \A q \in Handlers \ {p} : pc'[q] = pc[q]
           /\ issued' = issued \cup (IF req[p].op = "add" THEN ToSet(req[p].new) ELSE {})
           /\ doc \in Session /\ doc' \in Session /\ doc' # Gone
           /\ expected[p] # NoVersion => expected[p] = doc.tasks_version
           /\ WellFormed(req[p]) /\ req[p].op \in MutatingOps /\ ~Rejects(req[p], doc)
           /\ \/ Refuses(req[p], doc) /\ doc' = doc /\ answer[p] = "refused"
              \/ ~Refuses(req[p], doc) /\ doc' = Mutated(req[p], doc) /\ answer[p] = "ok"
<1>1. /\ pc[p] = "staged" /\ ~dirty[p] /\ Put(base[p]) /\ base[p] \in Session
      /\ Goto(p, IF answer[p] = "ok" THEN "committed" ELSE "done")
      /\ UNCHANGED <<conn, base, tries, answer>>
      /\ issued' = issued \cup (IF req[p].op = "add" THEN ToSet(req[p].new) ELSE {})
      BY HeldIsSession DEF Commit
<1>2. doc' = base[p] /\ doc \in Session /\ base[p] # Gone /\ Loaded = doc
      BY <1>1, Parts DEF Put, Placed, Loaded
<1>3. /\ pc'[p] = IF answer[p] = "ok" THEN "committed" ELSE "done"
      /\ \A q \in Handlers \ {p} : pc'[q] = pc[q]
      BY <1>1 DEF Goto, SInv, TypeOK
<1>4. /\ expected[p] # NoVersion => expected[p] = doc.tasks_version
      /\ ~Rejects(req[p], doc)
      /\ answer[p] = IF Refuses(req[p], doc) THEN "refused" ELSE "ok"
      /\ base[p] = IF Refuses(req[p], doc) THEN doc ELSE Mutated(req[p], doc)
      BY <1>1, <1>2, Parts DEF StagedFits
<1>5. WellFormed(req[p]) /\ req[p].op \in MutatingOps
      BY <1>1, Parts DEF Placed
<1>6. QED
      BY <1>1, <1>2, <1>3, <1>4, <1>5 DEF conn

-----------------------------------------------------------------------------
(* The inductive invariant where every write goes through mutate_session.  *)

LEMMA HandlersFinite ==
    /\ IsFiniteSet(Acknowledged) /\ IsFiniteSet(Died) /\ IsFiniteSet(Acknowledged \cup Died)
    /\ Cardinality(Acknowledged) \in Nat /\ Cardinality(Acknowledged \cup Died) \in Nat
    /\ Cardinality(Handlers) \in Nat
<1>1. /\ Acknowledged \subseteq Handlers /\ Died \subseteq Handlers
      /\ Acknowledged \cup Died \subseteq Handlers
      BY DEF Acknowledged, Died
<1>2. IsFiniteSet(Handlers)
      BY StoreAssumption
<1>3. QED
      BY <1>1, <1>2, FS_Subset, FS_CardinalityType

\* A step that leaves the version alone, acknowledges no mutation and forgets none.
LEMMA AccountKept ==
    ASSUME AnswersAreTrue, doc # Gone, doc \in Session, doc' # Gone,
           doc'.tasks_version = doc.tasks_version,
           Acknowledged' \subseteq Acknowledged,
           Acknowledged \cup Died \subseteq Acknowledged' \cup Died'
    PROVE  AnswersAreTrue'
<1>1. /\ InitialVersion + Cardinality(Acknowledged) <= doc.tasks_version
      /\ doc.tasks_version <= InitialVersion + Cardinality(Acknowledged \cup Died)
      BY DEF AnswersAreTrue
<1>2. /\ Acknowledged' \subseteq Handlers /\ Acknowledged' \cup Died' \subseteq Handlers
      /\ IsFiniteSet(Handlers)
      BY StoreAssumption DEF Acknowledged, Died
<1>3. IsFiniteSet(Acknowledged) /\ IsFiniteSet(Acknowledged' \cup Died')
      BY <1>2, HandlersFinite, FS_Subset
<1>4. /\ Cardinality(Acknowledged') <= Cardinality(Acknowledged)
      /\ Cardinality(Acknowledged \cup Died) <= Cardinality(Acknowledged' \cup Died')
      BY <1>3, FS_Subset
<1>5. /\ Cardinality(Acknowledged') \in Nat /\ Cardinality(Acknowledged' \cup Died') \in Nat
      BY <1>2, FS_Subset, FS_CardinalityType
<1>6. doc.tasks_version \in Nat
      BY SessionFields
<1>7. QED
      BY <1>1, <1>4, <1>5, <1>6, HandlersFinite DEF AnswersAreTrue, InitialVersion

\* A step that applies one more mutation and acknowledges it.
LEMMA AccountGrows ==
    ASSUME AnswersAreTrue, doc # Gone, doc \in Session, doc' # Gone,
           doc'.tasks_version = doc.tasks_version + 1,
           NEW p \in Handlers, p \notin Acknowledged, p \notin Died,
           Acknowledged' = Acknowledged \cup {p}, Died' = Died
    PROVE  AnswersAreTrue'
<1>1. /\ InitialVersion + Cardinality(Acknowledged) <= doc.tasks_version
      /\ doc.tasks_version <= InitialVersion + Cardinality(Acknowledged \cup Died)
      BY DEF AnswersAreTrue
<1>2. Cardinality(Acknowledged \cup {p}) = Cardinality(Acknowledged) + 1
      BY HandlersFinite, FS_AddElement
<1>3. Cardinality((Acknowledged \cup Died) \cup {p}) = Cardinality(Acknowledged \cup Died) + 1
      BY HandlersFinite, FS_AddElement
<1>4. Acknowledged' \cup Died' = (Acknowledged \cup Died) \cup {p}
      OBVIOUS
<1>5. doc.tasks_version \in Nat
      BY SessionFields
<1>6. QED
      BY <1>1, <1>2, <1>3, <1>4, <1>5, HandlersFinite DEF AnswersAreTrue, InitialVersion

LEMMA InitAtomic ==
    ASSUME Init
    PROVE  AInv
<1>1. SInv /\ doc # Gone /\ doc.tasks_version = InitialVersion /\ doc \in Session
      BY InitKept, InitSession
<1>2. /\ pc = [p \in Handlers |-> "idle"] /\ req = [p \in Handlers |-> NoRequest]
      /\ answer = [p \in Handlers |-> "none"]
      BY DEF Init
<1>3. TasksAreFresh /\ PagesFit
      BY <1>2 DEF TasksAreFresh, PagesFit, NoRequest
<1>4. Acknowledged = {} /\ Acknowledged \cup Died = {}
      BY <1>2 DEF Acknowledged, Died
<1>5. AnswersAreTrue
      BY <1>1, <1>4, FS_EmptySet DEF AnswersAreTrue, InitialVersion
<1>6. QED
      BY <1>1, <1>3, <1>5 DEF AInv

\* The client sends its request with the session that is there.
LEMMA SubmitAtomic ==
    ASSUME AInv, NEW p \in Handlers, Submit(p)
    PROVE  AInv'
<1>1. /\ doc # Gone /\ doc \in Session /\ pc[p] = "idle" /\ SInv
      /\ UNCHANGED <<doc, issued, base, dirty, tries, wasCompleted, answer, ends>>
      BY Submitted DEF AInv
<1>2. PICK r \in Requests(doc), v \in {NoVersion, doc.tasks_version},
           l \in {"reading", "deleting", "mutating"} :
         /\ req' = [req EXCEPT ![p] = r] /\ expected' = [expected EXCEPT ![p] = v]
         /\ page' = [page EXCEPT ![p] = doc] /\ pc' = [pc EXCEPT ![p] = l]
      BY <1>1, Submitted
<1>3. /\ req'[p] = r /\ expected'[p] = v /\ page'[p] = doc /\ pc'[p] = l
      /\ \A q \in Handlers \ {p} : /\ req'[q] = req[q] /\ expected'[q] = expected[q]
                                   /\ page'[q] = page[q] /\ pc'[q] = pc[q]
      BY <1>1, <1>2 DEF SInv, TypeOK
<1>4. r.op = "add" =>
         /\ ToSet(r.new) \cap issued = {}
         /\ \A q \in Handlers : req[q].op = "add" => ToSet(r.new) \cap ToSet(req[q].new) = {}
      BY <1>1, RequestsWellFormed
<1>5. TasksAreFresh'
      <2>1. \A q \in Handlers :
               pc'[q] \in {"mutating", "watching", "staged"} /\ req'[q].op = "add" =>
                  ToSet(req'[q].new) \cap issued' = {}
            BY <1>1, <1>3, <1>4 DEF AInv, TasksAreFresh
      <2>2. ASSUME NEW q \in Handlers, NEW w \in Handlers, q # w,
                   req'[q].op = "add", req'[w].op = "add"
            PROVE  ToSet(req'[q].new) \cap ToSet(req'[w].new) = {}
            <3>1. CASE q # p /\ w # p
                  BY <1>3, <2>2, <3>1 DEF AInv, TasksAreFresh
            <3>2. CASE q = p
                  BY <1>3, <1>4, <2>2, <3>2
            <3>3. CASE w = p
                  BY <1>3, <1>4, <2>2, <3>3
            <3>4. QED
                  BY <3>1, <3>2, <3>3
      <2>3. QED
            BY <2>1, <2>2 DEF TasksAreFresh
<1>6. PagesFit'
      <2>1. doc.tasks_version \in Nat
            BY <1>1, SessionFields
      <2>2. QED
            BY <1>1, <1>3, <2>1 DEF AInv, PagesFit
<1>7. Acknowledged' = Acknowledged /\ Died' = Died
      <2>1. p \notin Acknowledged /\ p \notin Acknowledged'
            BY <1>1, <1>3 DEF Acknowledged
      <2>2. \A q \in Handlers \ {p} : q \in Acknowledged' <=> q \in Acknowledged
            BY <1>1, <1>3 DEF Acknowledged
      <2>3. Acknowledged \subseteq Handlers /\ Acknowledged' \subseteq Handlers
            BY DEF Acknowledged
      <2>4. Died' = Died
            BY <1>1 DEF Died
      <2>5. QED
            BY <2>1, <2>2, <2>3, <2>4
<1>8. AnswersAreTrue'
      BY <1>1, <1>7, AccountKept DEF AInv
<1>9. QED
      BY <1>1, <1>5, <1>6, <1>8, SubmitKept DEF AInv

LEMMA QuietAtomic ==
    ASSUME AInv, SInv', Watched, NEW p \in Handlers, Serve(p) \/ Crash(p), ~Commit(p)
    PROVE  AInv'
<1>1. /\ doc' = doc /\ issued' = issued /\ pc[p] # "idle"
      /\ req' = req /\ expected' = expected /\ page' = page
      /\ \A q \in Handlers \ {p} : pc'[q] = pc[q] /\ answer'[q] = answer[q]
      /\ pc'[p] \in {"mutating", "watching", "staged"} /\ req[p].op = "add" =>
            pc[p] \in {"mutating", "watching", "staged"}
      /\ p \in Acknowledged' => p \in Acknowledged
      /\ p \in Acknowledged \cup Died => p \in Acknowledged' \cup Died'
      BY QuietStep DEF AInv
<1>2. doc # Gone /\ doc \in Session
      BY DEF AInv, SInv, TypeOK
<1>3. TasksAreFresh'
      BY <1>1 DEF AInv, TasksAreFresh
<1>4. PagesFit'
      BY <1>1 DEF AInv, PagesFit
<1>5. /\ Acknowledged' \subseteq Acknowledged
      /\ Acknowledged \cup Died \subseteq Acknowledged' \cup Died'
      <2>1. \A q \in Handlers \ {p} : /\ q \in Acknowledged' <=> q \in Acknowledged
                                      /\ q \in Died' <=> q \in Died
            BY <1>1 DEF Acknowledged, Died
      <2>2. /\ Acknowledged \subseteq Handlers /\ Acknowledged' \subseteq Handlers
            /\ Died \subseteq Handlers
            BY DEF Acknowledged, Died
      <2>3. QED
            BY <1>1, <2>1, <2>2
<1>6. AnswersAreTrue'
      BY <1>1, <1>2, <1>5, AccountKept DEF AInv
<1>7. QED
      BY <1>1, <1>2, <1>3, <1>4, <1>6 DEF AInv

LEMMA ExecAtomic ==
    ASSUME AInv, SInv', Watched, NEW p \in Handlers, Commit(p)
    PROVE  AInv'
<1> DEFINE r == req[p]
<1>1. /\ pc[p] = "staged" /\ answer' = answer /\ req' = req /\ expected' = expected
      /\ page' = page /\ pc'[p] = (IF answer[p] = "ok" THEN "committed" ELSE "done")
      /\ \A q \in Handlers \ {p} : pc'[q] = pc[q]
      /\ issued' = issued \cup (IF r.op = "add" THEN ToSet(r.new) ELSE {})
      /\ doc \in Session /\ doc' \in Session /\ doc' # Gone /\ doc # Gone
      /\ WellFormed(r) /\ r.op \in MutatingOps /\ ~Rejects(r, doc)
      /\ \/ Refuses(r, doc) /\ doc' = doc /\ answer[p] = "refused"
         \/ ~Refuses(r, doc) /\ doc' = Mutated(r, doc) /\ answer[p] = "ok"
      BY ExecStep DEF AInv
<1>2. \/ /\ answer[p] = "ok" /\ r.op \in VersionedOps
         /\ doc'.tasks_version = doc.tasks_version + 1
      \/ /\ answer[p] = "ok" => r.op \notin VersionedOps
         /\ doc'.tasks_version = doc.tasks_version /\ Board(doc') = Board(doc)
      BY <1>1, MutatedIs
<1>3. doc.tasks_version \in Nat /\ doc'.tasks_version \in Nat
      BY <1>1, SessionFields
<1>4. TasksAreFresh'
      <2>1. \A q, w \in Handlers : q # w /\ req[q].op = "add" /\ req[w].op = "add" =>
               ToSet(req[q].new) \cap ToSet(req[w].new) = {}
            BY DEF AInv, TasksAreFresh
      <2>2. ASSUME NEW q \in Handlers, pc'[q] \in {"mutating", "watching", "staged"},
                   req[q].op = "add"
            PROVE  ToSet(req[q].new) \cap issued' = {}
            <3>1. q # p /\ pc[q] \in {"mutating", "watching", "staged"}
                  BY <1>1, <2>2
            <3>2. ToSet(req[q].new) \cap issued = {}
                  BY <2>2, <3>1 DEF AInv, TasksAreFresh
            <3>3. r.op = "add" => ToSet(req[q].new) \cap ToSet(r.new) = {}
                  BY <2>1, <2>2, <3>1
            <3>4. QED
                  BY <1>1, <3>2, <3>3
      <2>3. QED
            BY <1>1, <2>1, <2>2 DEF TasksAreFresh
<1>5. PagesFit'
      <2>1. ASSUME NEW q \in Handlers, pc[q] # "idle", expected[q] # NoVersion
            PROVE  /\ page[q] # Gone /\ expected[q] = page[q].tasks_version
                   /\ page[q].tasks_version <= doc'.tasks_version
                   /\ page[q].tasks_version = doc'.tasks_version => Board(page[q]) = Board(doc')
            <3>1. /\ page[q] # Gone /\ expected[q] = page[q].tasks_version
                  /\ page[q].tasks_version <= doc.tasks_version
                  /\ page[q].tasks_version = doc.tasks_version => Board(page[q]) = Board(doc)
                  BY <2>1 DEF AInv, PagesFit
            <3>2. page[q] \in Session
                  BY <3>1, Parts DEF AInv
            <3>3. page[q].tasks_version \in Nat
                  BY <3>2, SessionFields
            <3>4. QED
                  BY <1>2, <1>3, <3>1, <3>3
      <2>2. QED
            BY <1>1, <2>1 DEF PagesFit
<1>6. AnswersAreTrue'
      <2>1. Died' = Died
            BY <1>1 DEF Died
      <2>2. p \notin Acknowledged /\ p \notin Died
            BY <1>1, Parts DEF Acknowledged, Died, AInv, Placed
      <2>3. \A q \in Handlers \ {p} : q \in Acknowledged' <=> q \in Acknowledged
            BY <1>1 DEF Acknowledged
      <2>4. Acknowledged \subseteq Handlers /\ Acknowledged' \subseteq Handlers
            BY DEF Acknowledged
      <2>5. p \in Acknowledged' <=> answer[p] = "ok" /\ r.op \in VersionedOps
            BY <1>1 DEF Acknowledged
      <2>6. CASE answer[p] = "ok" /\ r.op \in VersionedOps
            <3>1. Acknowledged' = Acknowledged \cup {p}
                  BY <2>3, <2>4, <2>5, <2>6
            <3>2. QED
                  BY <1>1, <1>2, <2>1, <2>2, <2>6, <3>1, AccountGrows DEF AInv
      <2>7. CASE ~(answer[p] = "ok" /\ r.op \in VersionedOps)
            <3>1. Acknowledged' = Acknowledged
                  BY <2>2, <2>3, <2>4, <2>5, <2>7
            <3>2. QED
                  BY <1>1, <1>2, <2>1, <2>7, <3>1, AccountKept DEF AInv
      <2>8. QED
            BY <2>6, <2>7
<1>7. QED
      BY <1>1, <1>4, <1>5, <1>6 DEF AInv

LEMMA NextAtomic ==
    ASSUME AInv, Watched, [Next]_vars
    PROVE  AInv'
<1>1. SInv'
      BY NextKept DEF AInv
<1>2. CASE UNCHANGED vars
      BY <1>1, <1>2
      DEF vars, conn, AInv, TasksAreFresh, PagesFit, AnswersAreTrue, Acknowledged, Died
<1>3. ASSUME NEW p \in Handlers, Submit(p) \/ Serve(p) \/ Crash(p)
      PROVE  AInv'
      BY <1>1, <1>3, SubmitAtomic, QuietAtomic, ExecAtomic
<1>4. QED
      BY <1>2, <1>3 DEF Next

-----------------------------------------------------------------------------
(* What the version of the board promises.                                 *)

\* Where every write goes through mutate_session: what is pending holds nobody
\* else's tasks, an unchanged version means an unchanged board, and the version
\* accounts for what was acknowledged.
THEOREM AtomicInductive == Watched => (Spec => []AInv)
<1> SUFFICES ASSUME Watched PROVE Spec => []AInv
    OBVIOUS
<1>1. Init => AInv
      BY InitAtomic
<1>2. AInv /\ [Next]_vars => AInv'
      BY NextAtomic
<1>3. QED
      BY <1>1, <1>2, PTL DEF Spec

\* tasks_version counts the mutations that requests acknowledge: none is lost to
\* another request or applied twice by a second round of mutate_session, one that
\* was turned down leaves nothing, and only a request that died is uncertain.
THEOREM AnswersTrue == Watched => (Spec => []AnswersAreTrue)
<1> SUFFICES ASSUME Watched PROVE Spec => []AnswersAreTrue
    OBVIOUS
<1>1. Spec => []AInv
      BY AtomicInductive
<1>2. AInv => AnswersAreTrue
      BY DEF AInv
<1>3. QED
      BY <1>1, <1>2, PTL

\* expected_version does what the CMS sends it for: when the edit is written, the
\* board is the one its manager had on screen, not just one of the same number.
THEOREM EditsSeen == Watched => (Spec => EditsWhatWasSeen)
<1> SUFFICES ASSUME Watched PROVE Spec => EditsWhatWasSeen
    OBVIOUS
<1> DEFINE A == \A p \in Handlers :
                   /\ pc[p] = "staged" /\ pc'[p] = "committed" /\ expected[p] # NoVersion
                   => doc # Gone /\ Board(doc) = Board(page[p])
<1>1. ASSUME AInv, [Next]_vars
      PROVE  [A]_vars
      <2> SUFFICES ASSUME NEW p \in Handlers, pc[p] = "staged", pc'[p] = "committed",
                          expected[p] # NoVersion
                   PROVE  doc # Gone /\ Board(doc) = Board(page[p])
          OBVIOUS
      <2>1. Commit(p)
            <3>1. pc' # pc
                  OBVIOUS
            <3>2. PICK q \in Handlers : Submit(q) \/ Serve(q) \/ Crash(q)
                  BY <1>1, <3>1 DEF Next, vars
            <3>3. p = q
                  BY <1>1, <3>2, Submitted, QuietStep, ExecStep DEF AInv, SInv, TypeOK
            <3>4. ~Submit(p) /\ ~Crash(p)
                  BY <1>1 DEF Submit, Crash, Goto, AInv, SInv, TypeOK
            <3>5. Serve(p)
                  BY <3>2, <3>3, <3>4
            <3>6. QED
                  BY <1>1, <3>5 DEF Serve, Reading, Mutating, Ending, Read, Reread, ReadMissing,
                     Create, Watch, Mutate, Conflict, Backfill, Export, Respond, Delete, Goto,
                     AfterRead, AInv, SInv, TypeOK
      <2>2. /\ doc # Gone /\ expected[p] = doc.tasks_version
            BY <1>1, <2>1, ExecStep DEF AInv
      <2>3. expected[p] = page[p].tasks_version
            BY <1>1 DEF AInv, PagesFit
      <2>4. page[p].tasks_version = doc.tasks_version => Board(page[p]) = Board(doc)
            BY <1>1 DEF AInv, PagesFit
      <2>5. QED
            BY <2>2, <2>3, <2>4
<1>2. Spec => []AInv
      BY AtomicInductive
<1>3. QED
      BY <1>1, <1>2, PTL DEF Spec, EditsWhatWasSeen

-----------------------------------------------------------------------------
(* The atomic session, PokerSession with the session that is in Redis.      *)

\* The instance applies the same mutators.
LEMMA SameLists ==
    /\ \A s, new : /\ Atomic!CanEnqueue(s, new) <=> CanEnqueue(s, new)
                   /\ Atomic!Enqueue(s, new) = Enqueue(s, new)
    /\ \A s, t : /\ Atomic!CanDeleteTask(s, t) <=> CanDeleteTask(s, t)
                 /\ Atomic!CanMoveTask(s, t) <=> CanMoveTask(s, t)
    /\ \A s, t : Atomic!DeleteTask(s, t) = DeleteTask(s, t)
    /\ \A s, t, i : Atomic!MoveTask(s, t, i) = MoveTask(s, t, i)
    /\ \A s, order : /\ Atomic!CanReorderTasks(s, order) <=> CanReorderTasks(s, order)
                     /\ Atomic!ReorderTasks(s, order) = ReorderTasks(s, order)
<1>1. \A s, new : /\ Atomic!CanEnqueue(s, new) <=> CanEnqueue(s, new)
                  /\ Atomic!Enqueue(s, new) = Enqueue(s, new)
      BY DEF CanEnqueue, Atomic!CanEnqueue, Enqueue, Atomic!Enqueue
<1>2. \A s, t : /\ Atomic!CanDeleteTask(s, t) <=> CanDeleteTask(s, t)
                /\ Atomic!CanMoveTask(s, t) <=> CanMoveTask(s, t)
      BY DEF CanDeleteTask, Atomic!CanDeleteTask, CanMoveTask, Atomic!CanMoveTask,
             Contains, Atomic!Contains, Pinned, Atomic!Pinned, VotingActive,
             Atomic!VotingActive, HasCurrent, Atomic!HasCurrent, Current, Atomic!Current
<1>3. \A s, t : Atomic!DeleteTask(s, t) = DeleteTask(s, t)
      BY DEF DeleteTask, Atomic!DeleteTask, Without, Atomic!Without, Contains,
             Atomic!Contains, Position, Atomic!Position, CursorIn, Atomic!CursorIn,
             HasCurrent, Atomic!HasCurrent, Current, Atomic!Current, Normalized,
             Atomic!Normalized, Clamp, Atomic!Clamp, RemoveAt, Atomic!RemoveAt
<1>4. \A s, t, i : Atomic!MoveTask(s, t, i) = MoveTask(s, t, i)
      BY DEF MoveTask, Atomic!MoveTask, Without, Atomic!Without, Contains,
             Atomic!Contains, Position, Atomic!Position, CursorIn, Atomic!CursorIn,
             HasCurrent, Atomic!HasCurrent, Current, Atomic!Current, Normalized,
             Atomic!Normalized, Clamp, Atomic!Clamp, RemoveAt, Atomic!RemoveAt,
             InsertAt, Atomic!InsertAt
<1>5. \A s, order : Atomic!CanReorderTasks(s, order) <=> CanReorderTasks(s, order)
      BY DEF CanReorderTasks, Atomic!CanReorderTasks, IsInjective, Atomic!IsInjective,
             ToSet, Atomic!ToSet, VotingActive, Atomic!VotingActive, HasCurrent,
             Atomic!HasCurrent, Current, Atomic!Current, Position, Atomic!Position
<1>6. \A s, order : Atomic!ReorderTasks(s, order) = ReorderTasks(s, order)
      BY DEF ReorderTasks, Atomic!ReorderTasks, CursorIn, Atomic!CursorIn, Contains,
             Atomic!Contains, Position, Atomic!Position, HasCurrent, Atomic!HasCurrent,
             Current, Atomic!Current, Normalized, Atomic!Normalized, Clamp, Atomic!Clamp
<1>7. QED
      BY <1>1, <1>2, <1>3, <1>4, <1>5, <1>6, Zenon

LEMMA SameRounds ==
    /\ \A s, t : /\ Atomic!CanReopen(s, t) <=> CanReopen(s, t)
                 /\ Atomic!Reopen(s, t) = Reopen(s, t)
    /\ \A s : Atomic!CanStart(s) <=> CanStart(s)
    /\ \A s, mode : Atomic!Start(s, mode) = Start(s, mode)
    /\ \A s : Atomic!Advance(s) = Advance(s) /\ Atomic!Close(s) = Close(s)
<1>1. \A s, t : Atomic!CanReopen(s, t) <=> CanReopen(s, t)
      BY DEF CanReopen, Atomic!CanReopen, Completed, Atomic!Completed, PlayedInQueue,
             Atomic!PlayedInQueue, ToSet, Atomic!ToSet, VotingActive,
             Atomic!VotingActive, HasCurrent, Atomic!HasCurrent
<1>2. \A s, t : Atomic!Reopen(s, t) = Reopen(s, t)
      BY DEF Reopen, Atomic!Reopen, Without, Atomic!Without, Contains, Atomic!Contains,
             Position, Atomic!Position, PlayedInQueue, Atomic!PlayedInQueue, Clamp,
             Atomic!Clamp, RemoveAt, Atomic!RemoveAt, InsertAt, Atomic!InsertAt
<1>3. \A s, mode : Atomic!Start(s, mode) = Start(s, mode)
      BY DEF Start, Atomic!Start, ClearCurrentVotes, Atomic!ClearCurrentVotes, HasCurrent,
             Atomic!HasCurrent, Current, Atomic!Current, Normalized, Atomic!Normalized,
             Clamp, Atomic!Clamp
<1>4. \A s : Atomic!Advance(s) = Advance(s)
      BY DEF Advance, Atomic!Advance, ClearCurrentVotes, Atomic!ClearCurrentVotes,
             HasCurrent, Atomic!HasCurrent, Current, Atomic!Current
<1>5. \A s : Atomic!Close(s) = Close(s) /\ (Atomic!CanStart(s) <=> CanStart(s))
      BY DEF Close, Atomic!Close, CanStart, Atomic!CanStart
<1>6. QED
      BY <1>1, <1>2, <1>3, <1>4, <1>5, Zenon

LEMMA SameAnnotations ==
    /\ \A s, t : Atomic!CanUpdateTask(s, t) <=> CanUpdateTask(s, t)
    /\ \A s, t, x : Atomic!UpdateTask(s, t, x) = UpdateTask(s, t, x)
    /\ \A s, f : Atomic!CanSetFinalEstimate(s, f) <=> CanSetFinalEstimate(s, f)
    /\ \A s, x : Atomic!SetFinalEstimate(s, x) = SetFinalEstimate(s, x)
    /\ \A s, t : Atomic!CanSaveAiSummary(s, t) <=> CanSaveAiSummary(s, t)
    /\ \A s : Atomic!SaveAiSummary(s) = SaveAiSummary(s)
    /\ \A s, u, role : Atomic!Join(s, u, role) = Join(s, u, role)
    /\ \A s, u, f : Atomic!CanCastVote(s, u, f) <=> CanCastVote(s, u, f)
    /\ \A s, u : Atomic!CastVote(s, u) = CastVote(s, u)
<1>1. /\ \A s, t : Atomic!CanUpdateTask(s, t) <=> CanUpdateTask(s, t)
      /\ \A s, t, x : Atomic!UpdateTask(s, t, x) = UpdateTask(s, t, x)
      BY DEF CanUpdateTask, Atomic!CanUpdateTask, Contains, Atomic!Contains, UpdateTask,
             Atomic!UpdateTask
<1>2. /\ \A s, f : Atomic!CanSetFinalEstimate(s, f) <=> CanSetFinalEstimate(s, f)
      /\ \A s, x : Atomic!SetFinalEstimate(s, x) = SetFinalEstimate(s, x)
      BY DEF CanSetFinalEstimate, Atomic!CanSetFinalEstimate, SetFinalEstimate,
             Atomic!SetFinalEstimate, HasCurrent, Atomic!HasCurrent, Current,
             Atomic!Current, MODE_CONFIGS, Atomic!MODE_CONFIGS
<1>3. /\ \A s, t : Atomic!CanSaveAiSummary(s, t) <=> CanSaveAiSummary(s, t)
      /\ \A s : Atomic!SaveAiSummary(s) = SaveAiSummary(s)
      BY DEF CanSaveAiSummary, Atomic!CanSaveAiSummary, SaveAiSummary,
             Atomic!SaveAiSummary, HasCurrent, Atomic!HasCurrent, Current, Atomic!Current
<1>4. \A s, u, role : Atomic!Join(s, u, role) = Join(s, u, role)
      BY DEF Join, Atomic!Join
<1>5. \A s, u, f : Atomic!CanCastVote(s, u, f) <=> CanCastVote(s, u, f)
      BY DEF CanCastVote, Atomic!CanCastVote, CanVote, Atomic!CanVote, TrackOf,
             Atomic!TrackOf, ResolveTrack, Atomic!ResolveTrack, ROLE_TO_TRACK,
             Atomic!ROLE_TO_TRACK, HasCurrent, Atomic!HasCurrent
<1>6. \A s, u : Atomic!CastVote(s, u) = CastVote(s, u)
      BY DEF CastVote, Atomic!CastVote, TrackOf, Atomic!TrackOf, ResolveTrack,
             Atomic!ResolveTrack, ROLE_TO_TRACK, Atomic!ROLE_TO_TRACK, Current,
             Atomic!Current
<1>7. QED
      BY <1>1, <1>2, <1>3, <1>4, <1>5, <1>6, Zenon

LEMMA SameForms == Atomic!Forms = Forms /\ Atomic!Named = Named
BY DEF Forms, Atomic!Forms, Named, Atomic!Named, MODE_CONFIGS, Atomic!MODE_CONFIGS

\* A target beyond the end is the end.
LEMMA MoveClamped ==
    ASSUME NEW s \in Session, NEW t, CanMoveTask(s, t), NEW target \in Nat
    PROVE  /\ Clamp(target, Len(s.tasks_queue)) \in 0..Len(s.tasks_queue)
           /\ MoveTask(s, t, Clamp(target, Len(s.tasks_queue))) = MoveTask(s, t, target)
<1> DEFINE q == s.tasks_queue
           rest == Without(q, t)
<1>1. q \in Seq(Tasks) /\ Contains(q, t)
      BY SessionFields DEF CanMoveTask
<1>2. Len(rest) = Len(q) - 1 /\ Len(q) \in Nat
      BY <1>1, PositionType, RemoveAtType DEF Without
<1> HIDE DEF rest
<1>3. Clamp(Clamp(target, Len(q)), Len(rest)) = Clamp(target, Len(rest))
      BY <1>2 DEF Clamp
<1>4. MoveTask(s, t, Clamp(target, Len(q))) = MoveTask(s, t, target)
      BY <1>3, Zenon DEF MoveTask, rest
<1>5. Clamp(target, Len(q)) \in 0..Len(q)
      BY <1>2 DEF Clamp
<1>6. QED
      BY <1>4, <1>5

\* A session that is there, rewritten by a request that is not turned down.
Rewritten(r) ==
    /\ doc \in Session /\ doc # Gone /\ doc' \in Session /\ doc' # Gone
    /\ WellFormed(r) /\ ~Rejects(r, doc) /\ ~Refuses(r, doc) /\ doc' = Mutated(r, doc)
    /\ issued' = issued \cup (IF r.op = "add" THEN ToSet(r.new) ELSE {})
    /\ doc.tasks_version < InitialVersion + Cardinality(Handlers)
    /\ r.op = "add" => ToSet(r.new) \cap issued = {}

LEMMA WriteIsAtomic ==
    ASSUME NEW r, Rewritten(r)
    PROVE  /\ Atomic!Write(Mutated(r, doc))
           /\ r.op # "add" => UNCHANGED issued
BY DEF Rewritten, Atomic!Write

LEMMA ListsAreAtomic ==
    ASSUME NEW r, Rewritten(r), r.op \in {"add", "delete", "move", "reorder"}
    PROVE  Atomic!Next
<1>1. /\ doc \in Session /\ doc # Gone /\ doc' # Gone /\ WellFormed(r) /\ ~Rejects(r, doc)
      /\ Atomic!Write(Mutated(r, doc)) /\ (r.op # "add" => UNCHANGED issued)
      BY WriteIsAtomic DEF Rewritten
<1> DEFINE s == IF doc = Gone THEN NewSession("sp") ELSE doc
<1>2. s = doc
      BY <1>1
<1> HIDE DEF s
<1>3. CASE r.op = "add"
      <2>1. Mutated(r, doc) = Enqueue(doc, r.new) /\ CanEnqueue(doc, r.new)
            BY <1>1, <1>3 DEF Mutated, Rejects
      <2>2. Atomic!FreshTasks(r.new)
            <3>1. IsInjective(r.new) /\ ToSet(r.new) \cap issued = {}
                  /\ issued' = issued \cup ToSet(r.new)
                  BY <1>3 DEF Rewritten, WellFormed
            <3>2. QED
                  BY <3>1 DEF Atomic!FreshTasks, IsInjective, Atomic!IsInjective,
                              ToSet, Atomic!ToSet
      <2>3. Atomic!CanEnqueue(s, r.new) /\ Atomic!Enqueue(s, r.new) = Mutated(r, doc)
            BY <1>2, <2>1, SameLists
      <2>4. Atomic!ImportJiraTasks(r.new)
            BY <1>1, <2>2, <2>3 DEF Atomic!ImportJiraTasks, s
      <2>5. r.new \in Atomic!Lists(MaxImport)
            <3>1. PICK k \in 1..MaxImport : r.new \in [1..k -> Tasks]
                  BY <1>1, <1>3 DEF WellFormed
            <3>2. k \in 0..MaxImport
                  BY <3>1, StoreAssumption
            <3>3. QED
                  BY <3>1, <3>2 DEF Atomic!Lists
      <2>6. QED
            BY <2>4, <2>5 DEF Atomic!Next, Atomic!Contents
<1>4. CASE r.op = "delete"
      <2>1. /\ Mutated(r, doc) = DeleteTask(doc, r.task) /\ CanDeleteTask(doc, r.task)
            /\ r.task \in Tasks
            BY <1>1, <1>4 DEF Mutated, Rejects, WellFormed
      <2>2. /\ Atomic!CanDeleteTask(s, r.task)
            /\ Atomic!DeleteTask(s, r.task) = Mutated(r, doc)
            BY <1>2, <2>1, SameLists
      <2>3. Atomic!RemoveTask(r.task)
            BY <1>1, <1>4, <2>2 DEF Atomic!RemoveTask, s
      <2>4. QED
            BY <2>1, <2>3 DEF Atomic!Next, Atomic!Contents
<1>5. CASE r.op = "move"
      <2> DEFINE i == Clamp(r.target, Len(doc.tasks_queue))
      <2>1. /\ Mutated(r, doc) = MoveTask(doc, r.task, r.target) /\ CanMoveTask(doc, r.task)
            /\ r.task \in Tasks /\ r.target \in Nat
            BY <1>1, <1>5 DEF Mutated, Rejects, WellFormed
      <2>2. i \in 0..Len(doc.tasks_queue) /\ MoveTask(doc, r.task, i) = Mutated(r, doc)
            BY <1>1, <2>1, MoveClamped
      <2> HIDE DEF i
      <2>3. Atomic!CanMoveTask(s, r.task) /\ Atomic!MoveTask(s, r.task, i) = Mutated(r, doc)
            BY <1>2, <2>1, <2>2, SameLists
      <2>4. Atomic!ShiftTask(r.task, i)
            BY <1>1, <1>5, <2>3 DEF Atomic!ShiftTask, s
      <2>5. i \in 0..Len(Atomic!Queue)
            BY <1>2, <2>2 DEF Atomic!Queue, s
      <2>6. QED
            BY <2>1, <2>4, <2>5 DEF Atomic!Next, Atomic!Arrangement
<1>6. CASE r.op = "reorder"
      <2>1. /\ Mutated(r, doc) = ReorderTasks(doc, r.order) /\ CanReorderTasks(doc, r.order)
            BY <1>1, <1>6 DEF Mutated, Rejects
      <2>2. /\ Atomic!CanReorderTasks(s, r.order)
            /\ Atomic!ReorderTasks(s, r.order) = Mutated(r, doc)
            BY <1>2, <2>1, SameLists
      <2>3. Atomic!ReorderQueue(r.order)
            BY <1>1, <1>6, <2>2 DEF Atomic!ReorderQueue, s
      <2>4. r.order \in [1..Len(Atomic!Queue) -> Tasks]
            <3>1. r.order \in Seq(Tasks) /\ Len(r.order) = Len(doc.tasks_queue)
                  BY <1>1, <1>6, <2>1, RequestLists DEF CanReorderTasks
            <3>2. Len(Atomic!Queue) = Len(doc.tasks_queue)
                  BY <1>2 DEF Atomic!Queue, s
            <3>3. QED
                  BY <3>1, <3>2, LenProperties
      <2>5. QED
            BY <2>3, <2>4 DEF Atomic!Next, Atomic!Arrangement
<1>7. QED
      BY <1>3, <1>4, <1>5, <1>6

LEMMA RoundsAreAtomic ==
    ASSUME NEW r, Rewritten(r), r.op \in {"reopen", "start", "next", "finish"}
    PROVE  Atomic!Next
<1>1. /\ doc \in Session /\ doc # Gone /\ doc' # Gone /\ WellFormed(r) /\ ~Rejects(r, doc)
      /\ ~Refuses(r, doc) /\ Atomic!Write(Mutated(r, doc)) /\ UNCHANGED issued
      BY WriteIsAtomic DEF Rewritten
<1> DEFINE s == IF doc = Gone THEN NewSession("sp") ELSE doc
<1>2. s = doc
      BY <1>1
<1> HIDE DEF s
<1>3. CASE r.op = "reopen"
      <2>1. /\ Mutated(r, doc) = Reopen(doc, r.task) /\ CanReopen(doc, r.task)
            /\ r.task \in Tasks
            BY <1>1, <1>3 DEF Mutated, Rejects, WellFormed
      <2>2. Atomic!CanReopen(s, r.task) /\ Atomic!Reopen(s, r.task) = Mutated(r, doc)
            BY <1>2, <2>1, SameRounds
      <2>3. Atomic!ReopenTask(r.task)
            BY <1>1, <2>2 DEF Atomic!ReopenTask, s
      <2>4. QED
            BY <2>1, <2>3 DEF Atomic!Next, Atomic!Rounds
<1>4. CASE r.op = "start"
      <2>1. /\ Mutated(r, doc) = Start(doc, r.mode) /\ CanStart(doc) /\ r.mode \in Modes
            BY <1>1, <1>4 DEF Mutated, Refuses, WellFormed
      <2>2. Atomic!CanStart(s) /\ Atomic!Start(s, r.mode) = Mutated(r, doc)
            BY <1>2, <2>1, SameRounds
      <2>3. Atomic!StartBatch(r.mode)
            BY <1>1, <2>2 DEF Atomic!StartBatch, s
      <2>4. QED
            BY <2>1, <2>3 DEF Atomic!Next, Atomic!Rounds
<1>5. CASE r.op = "next"
      <2>1. Atomic!Advance(s) = Mutated(r, doc)
            BY <1>2, <1>5, SameRounds DEF Mutated
      <2>2. Atomic!NextTask
            BY <1>1, <2>1 DEF Atomic!NextTask, s
      <2>3. QED
            BY <2>2 DEF Atomic!Next, Atomic!Rounds
<1>6. CASE r.op = "finish"
      <2>1. Atomic!Close(s) = Mutated(r, doc)
            BY <1>2, <1>6, SameRounds DEF Mutated
      <2>2. Atomic!Finish
            BY <1>1, <2>1 DEF Atomic!Finish, s
      <2>3. QED
            BY <2>2 DEF Atomic!Next, Atomic!Rounds
<1>7. QED
      BY <1>3, <1>4, <1>5, <1>6

LEMMA AnnotationsAreAtomic ==
    ASSUME NEW r, Rewritten(r), r.op \in {"edit", "estimate", "summary", "join", "vote"}
    PROVE  Atomic!Next
<1>1. /\ doc \in Session /\ doc # Gone /\ doc' # Gone /\ WellFormed(r) /\ ~Rejects(r, doc)
      /\ ~Refuses(r, doc) /\ Atomic!Write(Mutated(r, doc)) /\ UNCHANGED issued
      /\ doc' = Mutated(r, doc)
      BY WriteIsAtomic DEF Rewritten
<1> DEFINE s == IF doc = Gone THEN NewSession("sp") ELSE doc
<1>2. s = doc
      BY <1>1
<1> HIDE DEF s
<1>3. CASE r.op = "edit"
      <2>1. /\ Mutated(r, doc) = UpdateTask(doc, r.task, r.points)
            /\ CanUpdateTask(doc, r.task)
            /\ r.task \in Tasks /\ r.points \in Points \cup {NoPoints}
            BY <1>1, <1>3 DEF Mutated, Rejects, WellFormed
      <2>2. /\ Atomic!CanUpdateTask(s, r.task)
            /\ Atomic!UpdateTask(s, r.task, r.points) = Mutated(r, doc)
            BY <1>2, <2>1, SameAnnotations
      <2>3. Atomic!EditTask(r.task, r.points)
            BY <1>1, <2>2 DEF Atomic!EditTask, s
      <2>4. QED
            BY <2>1, <2>3 DEF Atomic!Next, Atomic!Annotations
<1>4. CASE r.op = "estimate"
      <2>1. /\ Mutated(r, doc) = SetFinalEstimate(doc, r.points)
            /\ CanSetFinalEstimate(doc, r.tracks)
            /\ r.points \in Points /\ r.tracks \in Atomic!Forms
            BY <1>1, <1>4, SameForms DEF Mutated, Refuses, WellFormed
      <2>2. /\ Atomic!CanSetFinalEstimate(s, r.tracks)
            /\ Atomic!SetFinalEstimate(s, r.points) = Mutated(r, doc)
            BY <1>2, <2>1, SameAnnotations
      <2>3. Atomic!FinalEstimate(r.points, r.tracks)
            BY <1>1, <2>2 DEF Atomic!FinalEstimate, s
      <2>4. QED
            BY <2>1, <2>3 DEF Atomic!Next, Atomic!Annotations
<1>5. CASE r.op = "summary"
      <2>1. /\ Mutated(r, doc) = SaveAiSummary(doc) /\ CanSaveAiSummary(doc, r.task)
            /\ r.task \in Tasks
            BY <1>1, <1>5 DEF Mutated, Refuses, WellFormed
      <2>2. /\ Atomic!CanSaveAiSummary(s, r.task)
            /\ Atomic!SaveAiSummary(s) = Mutated(r, doc)
            BY <1>2, <2>1, SameAnnotations
      <2>3. Atomic!StoreAiSummary(r.task)
            BY <1>1, <2>2 DEF Atomic!StoreAiSummary, s
      <2>4. QED
            BY <2>1, <2>3 DEF Atomic!Next, Atomic!Annotations
<1>6. CASE r.op = "join"
      <2>1. /\ Mutated(r, doc) = Join(doc, r.user, r.role)
            /\ r.user \in Users /\ r.role \in TeamRoles
            BY <1>1, <1>6 DEF Mutated, WellFormed
      <2>2. Atomic!Join(s, r.user, r.role) = Mutated(r, doc)
            BY <1>2, <2>1, SameAnnotations
      <2>3. Atomic!JoinSession(r.user, r.role)
            BY <1>1, <2>2 DEF Atomic!JoinSession, s
      <2>4. QED
            BY <2>1, <2>3 DEF Atomic!Next, Atomic!Participation
<1>7. CASE r.op = "vote"
      <2>1. /\ Mutated(r, doc) = CastVote(doc, r.user) /\ CanCastVote(doc, r.user, r.track)
            /\ r.user \in Users /\ r.track \in Atomic!Named
            BY <1>1, <1>7, SameForms DEF Mutated, Rejects, WellFormed
      <2>2. /\ Atomic!CanCastVote(s, r.user, r.track)
            /\ Atomic!CastVote(s, r.user) = Mutated(r, doc)
            BY <1>2, <2>1, SameAnnotations
      <2>3. Atomic!Vote(r.user, r.track)
            BY <1>1, <2>2 DEF Atomic!Vote, s
      <2>4. QED
            BY <2>1, <2>3 DEF Atomic!Next, Atomic!Participation
<1>8. QED
      BY <1>3, <1>4, <1>5, <1>6, <1>7

LEMMA ExecIsAtomic ==
    ASSUME AInv, NEW p \in Handlers, Commit(p)
    PROVE  Atomic!Next \/ UNCHANGED Atomic!vars
<1> DEFINE r == req[p]
<1>1. /\ pc[p] = "staged"
      /\ issued' = issued \cup (IF r.op = "add" THEN ToSet(r.new) ELSE {})
      /\ doc \in Session /\ doc' \in Session /\ doc' # Gone /\ doc # Gone
      /\ WellFormed(r) /\ r.op \in MutatingOps /\ ~Rejects(r, doc)
      /\ \/ Refuses(r, doc) /\ doc' = doc
         \/ ~Refuses(r, doc) /\ doc' = Mutated(r, doc)
      BY ExecStep DEF AInv
<1>2. CASE Refuses(r, doc)
      <2>1. r.op # "add"
            BY <1>2 DEF Refuses
      <2>2. ~(~Refuses(r, doc) /\ doc' = Mutated(r, doc))
            BY <1>2
      <2>3. doc' = doc /\ issued' = issued
            BY <1>1, <2>1, <2>2
      <2>4. QED
            BY <2>3 DEF Atomic!vars
<1>3. CASE ~Refuses(r, doc)
      <2>1. doc.tasks_version < InitialVersion + Cardinality(Handlers)
            <3> DEFINE S == Acknowledged \cup Died
            <3>1. p \notin S /\ S \subseteq Handlers \ {p}
                  BY <1>1, Parts DEF Acknowledged, Died, AInv, Placed
            <3>2. doc.tasks_version <= InitialVersion + Cardinality(S)
                  BY <1>1 DEF AInv, AnswersAreTrue
            <3> HIDE DEF S
            <3>3. IsFiniteSet(Handlers)
                  BY StoreAssumption
            <3>4. IsFiniteSet(S \cup {p}) /\ Cardinality(S \cup {p}) <= Cardinality(Handlers)
                  BY <3>1, <3>3, FS_Subset
            <3>5. IsFiniteSet(S)
                  BY <3>1, <3>3, FS_Subset
            <3>6. Cardinality(S \cup {p}) = Cardinality(S) + 1 /\ Cardinality(S) \in Nat
                  BY <3>1, <3>5, FS_AddElement, FS_CardinalityType
            <3>7. doc.tasks_version \in Nat /\ Cardinality(Handlers) \in Nat
                  BY <1>1, HandlersFinite, SessionFields
            <3>8. QED
                  BY <3>2, <3>4, <3>6, <3>7 DEF InitialVersion
      <2>2. r.op = "add" => ToSet(r.new) \cap issued = {}
            BY <1>1 DEF AInv, TasksAreFresh
      <2>3. Rewritten(r)
            BY <1>1, <1>3, <2>1, <2>2 DEF Rewritten
      <2>4. QED
            BY <1>1, <2>3, ListsAreAtomic, RoundsAreAtomic, AnnotationsAreAtomic
            DEF MutatingOps, VersionedOps, GuardedOps, ClosingOps
<1>4. QED
      BY <1>2, <1>3

\* Refinement: where every write goes through mutate_session, each step of the
\* handlers is one atomic request of PokerSession or leaves its session alone,
\* however the rounds of WATCH, GET and EXEC interleave, fail and are repeated.
THEOREM RequestsAreAtomic == Watched => (Spec => AtomicSteps)
<1> SUFFICES ASSUME Watched PROVE Spec => AtomicSteps
    OBVIOUS
<1>1. ASSUME AInv, [Next]_vars
      PROVE  [Atomic!Next]_(Atomic!vars)
      <2>1. CASE UNCHANGED vars
            BY <2>1 DEF vars, Atomic!vars
      <2>2. ASSUME NEW p \in Handlers, Submit(p) \/ Serve(p) \/ Crash(p)
            PROVE  Atomic!Next \/ UNCHANGED Atomic!vars
            <3>1. CASE Commit(p)
                  BY <1>1, <3>1, ExecIsAtomic
            <3>2. CASE ~Commit(p)
                  <4>1. doc' = doc /\ issued' = issued
                        BY <1>1, <2>2, <3>2, QuietStep, Submitted DEF AInv
                  <4>2. QED
                        BY <4>1 DEF Atomic!vars
            <3>3. QED
                  BY <3>1, <3>2
      <2>3. QED
            BY <1>1, <2>1, <2>2 DEF Next
<1>2. Spec => []AInv
      BY AtomicInductive
<1>3. QED
      BY <1>1, <1>2, PTL DEF Spec, AtomicSteps
=============================================================================
