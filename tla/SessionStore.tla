---------------------------- MODULE SessionStore ----------------------------
(***************************************************************************)
(* One session key in Redis and the requests that work on it concurrently  *)
(* (services/voting_service/redis_repository.py).  Most requests go        *)
(* through mutate_session: WATCH the key, GET it, apply the mutator in     *)
(* memory, SET it in a MULTI that fails when the key was written since the *)
(* WATCH, try again, at most MaxAttempts times.  State requests create the *)
(* session when it is missing (SET NX).  Two paths write without WATCH:    *)
(* the backfill of a Jira description, in the state requests and after     *)
(* start, next, skip, reopen and join, and the export of story points.     *)
(*                                                                         *)
(* A handler serves one request.  Its steps are the Redis commands; what   *)
(* it does between two of them is atomic, the service being one event loop *)
(* per process.  A state request reads the session twice; the second read  *)
(* is another "view".  Descriptions are data: a backfill writes back the   *)
(* session it holds.                                                       *)
(***************************************************************************)
EXTENDS SessionOps, FiniteSets

CONSTANTS
    Handlers,    \* the requests being served, one each
    MaxAttempts, \* the rounds of mutate_session (10 in the code)
    Ops,         \* the operations requests ask for in this instance
    Prepared,    \* the number of tasks of the session the instance begins with
    MaxImport,   \* bound: the most tasks one request adds
    Backfills,   \* there are Jira tasks whose description is fetched
    MaxCrashes   \* bound: the handlers that die before they answer

ASSUME StoreAssumption ==
    /\ IsFiniteSet(Handlers)
    /\ MaxAttempts \in Nat \ {0}
    /\ MaxImport \in Nat /\ MaxCrashes \in Nat
    /\ Backfills \in BOOLEAN
    /\ Prepared \in Nat \ {0}
    /\ "sp" \in Modes

VARIABLES
    doc,          \* the value of the key, Gone when there is none
    issued,       \* history: the task ids handed out so far
    pc,           \* where each handler is
    req,          \* its request
    expected,     \* the expected_version it carries, or NoVersion
    page,         \* history: the session the client saw when it sent it
    base,         \* the session the handler holds in memory
    dirty,        \* the key it WATCHes has been written since the WATCH
    tries,        \* the rounds of mutate_session it has lost
    wasCompleted, \* batch_completed as read before a closing mutation
    answer,       \* the answer decided on
    closers,      \* history: the handlers whose EXEC ended an open batch
    alerted,      \* history: the handlers that sent the finish alert
    overtaken     \* history: the handlers that had read a completed batch and
                  \* saw it opened again, or deleted, before their own EXEC

conn == <<req, expected, page, wasCompleted>>
ends == <<closers, alerted, overtaken>>
vars == <<doc, issued, pc, conn, base, dirty, tries, answer, ends>>

Gone      == [gone |-> TRUE]
NoVersion == -1
NoRequest == [op |-> "none"]

-----------------------------------------------------------------------------
(* Requests.                                                               *)

\* Edits that may carry the tasks_version the manager has on screen.
GuardedOps == {"add", "edit", "delete", "move", "reorder", "reopen"}

\* Mutant: the end of a batch by next or skip is not announced.
ClosedByFinish == {"finish"}

\* Requests that read the session before they mutate it.
ClosingOps == {"next", "finish"}

\* Requests that end with a backfill of the current task's description.
BackfillOps == {"view", "start", "next", "reopen", "join"}

\* Requests whose mutator raises tasks_version.
VersionedOps == GuardedOps \cup ClosingOps \cup {"start", "estimate", "summary"}

Lists(n) == UNION {[1..k -> Tasks] : k \in 1..n}

\* The requests a client can send that has session s on screen.
Requests(s) ==
    LET onScreen == ToSet(s.tasks_queue) \cup ToSet(s.last_batch)
        pending  == UNION {ToSet(req[p].new) : p \in {q \in Handlers : req[q].op = "add"}}
        fresh    == {l \in Lists(MaxImport) :
                       IsInjective(l) /\ ToSet(l) \cap (issued \cup pending) = {}}
    IN  {r \in UNION {
              [op : {"view", "export", "remove", "next", "finish"}],
              [op : {"join"}, user : Users, role : TeamRoles],
              [op : {"vote"}, user : Users, track : Named],
              [op : {"start"}, mode : Modes],
              [op : {"add"}, new : fresh],
              [op : {"edit"}, task : onScreen, points : Points \cup {NoPoints}],
              [op : {"delete", "reopen", "summary"}, task : onScreen],
              [op : {"move"}, task : onScreen, target : 0..Len(s.tasks_queue)],
              [op : {"reorder"}, order : [1..Len(s.tasks_queue) -> onScreen]],
              [op : {"estimate"}, points : Points, tracks : Forms]} : r.op \in Ops}

\* The mutator raises: nothing is written.
Rejects(r, s) ==
    ~CASE r.op = "add"     -> CanEnqueue(s, r.new)
       [] r.op = "edit"    -> CanUpdateTask(s, r.task)
       [] r.op = "delete"  -> CanDeleteTask(s, r.task)
       [] r.op = "move"    -> CanMoveTask(s, r.task)
       [] r.op = "reorder" -> CanReorderTasks(s, r.order)
       [] r.op = "reopen"  -> CanReopen(s, r.task)
       [] r.op = "vote"    -> CanCastVote(s, r.user, r.track)
       [] OTHER            -> TRUE

\* The mutator returns an error: the session it left alone is written back.
Refuses(r, s) ==
    CASE r.op = "start"    -> ~CanStart(s)
      [] r.op = "estimate" -> ~CanSetFinalEstimate(s, r.tracks)
      [] r.op = "summary"  -> ~CanSaveAiSummary(s, r.task)
      [] OTHER             -> FALSE

Mutated(r, s) ==
    CASE r.op = "add"      -> Enqueue(s, r.new)
      [] r.op = "edit"     -> UpdateTask(s, r.task, r.points)
      [] r.op = "delete"   -> DeleteTask(s, r.task)
      [] r.op = "move"     -> MoveTask(s, r.task, r.target)
      [] r.op = "reorder"  -> ReorderTasks(s, r.order)
      [] r.op = "reopen"   -> Reopen(s, r.task)
      [] r.op = "start"    -> Start(s, r.mode)
      [] r.op = "next"     -> Advance(s)
      [] r.op = "finish"   -> Close(s)
      [] r.op = "estimate" -> SetFinalEstimate(s, r.points)
      [] r.op = "summary"  -> SaveAiSummary(s)
      [] r.op = "join"     -> Join(s, r.user, r.role)
      [] r.op = "vote"     -> CastVote(s, r.user)

-----------------------------------------------------------------------------
\* The session earlier requests have left: its tasks were added, some users
\* have joined, the batch was started and some have voted, or it was closed.
Running(queue) == Start(Enqueue(NewSession("sp"), queue), "sp")
Closed(queue)  == Close(Enqueue(NewSession("sp"), queue))

InitialVersion == 2

Init ==
    /\ \E queue \in [1..Prepared -> Tasks], joined \in SUBSET Users,
          role \in TeamRoles : \E voted \in SUBSET joined :
          /\ IsInjective(queue)
          /\ issued = ToSet(queue)
          /\ \E s \in {Running(queue), Closed(queue)} :
                doc = [s EXCEPT
                         !.participants =
                            [u \in Users |-> IF u \in joined THEN role ELSE Absent],
                         !.votes[queue[1]] = voted \X {"flat"}]
    /\ pc = [p \in Handlers |-> "idle"]
    /\ req = [p \in Handlers |-> NoRequest]
    /\ expected = [p \in Handlers |-> NoVersion]
    /\ page = [p \in Handlers |-> Gone]
    /\ base = [p \in Handlers |-> Gone]
    /\ dirty = [p \in Handlers |-> FALSE]
    /\ tries = [p \in Handlers |-> 0]
    /\ wasCompleted = [p \in Handlers |-> FALSE]
    /\ answer = [p \in Handlers |-> "none"]
    /\ closers = {} /\ alerted = {} /\ overtaken = {}

Goto(p, label) == pc' = [pc EXCEPT ![p] = label]

Answer(p, a) == answer' = [answer EXCEPT ![p] = a]

Closing(p) == pc[p] \in {"mutating", "watching", "staged"}

\* Any write of the key, SET or DEL, fails the EXEC of those who watch it.
Put(value) ==
    /\ doc' = value
    /\ dirty' = [q \in Handlers |-> pc[q] \in {"watching", "staged"}]
    /\ overtaken' = IF value = Gone \/ ~value.batch_completed
                    THEN overtaken \cup {q \in Handlers : Closing(q) /\ wasCompleted[q]}
                    ELSE overtaken

\* get_session and mutate_session give the handler a new session when there
\* is none.
Loaded == IF doc = Gone THEN NewSession("sp") ELSE doc

\* A client sends what it asks for with the session it has on screen.
Submit(p) ==
    /\ pc[p] = "idle" /\ doc # Gone
    /\ \E r \in Requests(doc),
          v \in {NoVersion, doc.tasks_version} :
          /\ v # NoVersion => r.op \in GuardedOps
          /\ req' = [req EXCEPT ![p] = r]
          /\ expected' = [expected EXCEPT ![p] = v]
          /\ page' = [page EXCEPT ![p] = doc]
          /\ Goto(p, IF r.op \in ClosingOps \cup {"view", "export"} THEN "reading"
                     ELSE IF r.op = "remove" THEN "deleting" ELSE "mutating")
    /\ UNCHANGED <<doc, issued, base, dirty, tries, wasCompleted, answer, ends>>

-----------------------------------------------------------------------------
(* ensure_session: GET, SET NX, GET.                                       *)

\* What follows the read: the mutation for those that close a batch.
AfterRead(p) ==
    /\ base' = [base EXCEPT ![p] = Loaded]
    /\ IF req[p].op \in ClosingOps
       THEN /\ wasCompleted' = [wasCompleted EXCEPT ![p] = Loaded.batch_completed]
            /\ Goto(p, "mutating")
            /\ UNCHANGED answer
       ELSE Goto(p, "loaded") /\ Answer(p, "ok") /\ UNCHANGED wasCompleted
    /\ UNCHANGED <<doc, issued, req, expected, page, dirty, tries, ends>>

Read(p) ==
    /\ pc[p] = "reading" /\ doc # Gone
    /\ AfterRead(p)

ReadMissing(p) ==
    /\ pc[p] = "reading" /\ doc = Gone
    /\ Goto(p, "creating")
    /\ UNCHANGED <<doc, issued, conn, base, dirty, tries, answer, ends>>

Create(p) ==
    /\ pc[p] = "creating"
    /\ IF doc = Gone THEN Put(NewSession("sp"))
                     ELSE UNCHANGED <<doc, dirty, overtaken>>
    /\ Goto(p, "rereading")
    /\ UNCHANGED <<issued, conn, base, tries, answer, closers, alerted>>

Reread(p) ==
    /\ pc[p] = "rereading"
    /\ AfterRead(p)

-----------------------------------------------------------------------------
(* mutate_session.                                                         *)

Watch(p) ==
    /\ pc[p] = "mutating"
    /\ dirty' = [dirty EXCEPT ![p] = FALSE]
    /\ Goto(p, "watching")
    /\ UNCHANGED <<doc, issued, conn, base, tries, answer, ends>>

\* Mutant: no _assert_version.
MutateUnchecked(p) ==
    LET r == req[p]
    IN  /\ pc[p] = "watching"
        /\ IF Rejects(r, Loaded)
           THEN /\ Goto(p, "done") /\ Answer(p, "rejected")
                /\ UNCHANGED base
           ELSE /\ Goto(p, "staged")
                /\ Answer(p, IF Refuses(r, Loaded) THEN "refused" ELSE "ok")
                /\ base' = [base EXCEPT ![p] = IF Refuses(r, Loaded) THEN Loaded
                                               ELSE Mutated(r, Loaded)]
        /\ UNCHANGED <<doc, issued, conn, dirty, tries, ends>>

\* GET and the mutator; one that raises ends the request.
Mutate(p) ==
    LET r == req[p]
        stale == expected[p] # NoVersion /\ expected[p] # Loaded.tasks_version
    IN  /\ pc[p] = "watching"
        /\ IF stale \/ Rejects(r, Loaded)
           THEN /\ Goto(p, "done") /\ Answer(p, "rejected")
                /\ UNCHANGED base
           ELSE /\ Goto(p, "staged")
                /\ Answer(p, IF Refuses(r, Loaded) THEN "refused" ELSE "ok")
                /\ base' = [base EXCEPT ![p] = IF Refuses(r, Loaded) THEN Loaded
                                               ELSE Mutated(r, Loaded)]
        /\ UNCHANGED <<doc, issued, conn, dirty, tries, ends>>

\* Mutant: SET without MULTI.
CommitUnwatched(p) ==
    /\ pc[p] = "staged"
    /\ Put(base[p])
    /\ Goto(p, IF answer[p] = "ok" THEN "committed" ELSE "done")
    /\ issued' = issued \cup (IF req[p].op = "add" THEN ToSet(req[p].new) ELSE {})
    /\ closers' = IF base[p].batch_completed /\ ~Loaded.batch_completed
                  THEN closers \cup {p} ELSE closers
    /\ UNCHANGED <<conn, base, tries, answer, alerted>>

\* MULTI, SET, EXEC.
Commit(p) ==
    /\ pc[p] = "staged" /\ ~dirty[p]
    /\ Put(base[p])
    /\ Goto(p, IF answer[p] = "ok" THEN "committed" ELSE "done")
    /\ issued' = issued \cup (IF req[p].op = "add" THEN ToSet(req[p].new) ELSE {})
    /\ closers' = IF base[p].batch_completed /\ ~Loaded.batch_completed
                  THEN closers \cup {p} ELSE closers
    /\ UNCHANGED <<conn, base, tries, answer, alerted>>

\* Mutant: EXEC is tried again without a new WATCH and GET.
ConflictRepeatsExec(p) ==
    /\ pc[p] = "staged" /\ dirty[p]
    /\ UNCHANGED vars

\* EXEC fails with WatchError: another round, or a conflict.
Conflict(p) ==
    /\ pc[p] = "staged" /\ dirty[p]
    /\ tries' = [tries EXCEPT ![p] = @ + 1]
    /\ IF tries[p] + 1 < MaxAttempts
       THEN Goto(p, "mutating") /\ UNCHANGED answer
       ELSE Goto(p, "done") /\ Answer(p, "conflict")
    /\ UNCHANGED <<doc, issued, conn, base, dirty, ends>>

-----------------------------------------------------------------------------
(* After the session has been read or written.                             *)

\* _ensure_current_task_description: while Jira is asked the handler holds
\* the session it read or committed, then it writes it back.
Backfill(p) ==
    /\ Backfills
    /\ pc[p] \in {"loaded", "committed"}
    /\ req[p].op \in BackfillOps
    /\ HasCurrent(base[p])
    /\ Put(base[p])
    /\ Goto(p, "saved")
    /\ UNCHANGED <<issued, conn, base, tries, answer, closers, alerted>>

\* UpdateJiraStoryPointsUseCase: what Jira has accepted is stored.
Export(p) ==
    /\ pc[p] = "loaded" /\ req[p].op = "export"
    /\ \E sent \in (SUBSET Sendable(base[p])) \ {{}} : \E points \in [sent -> Points] :
          Put(Exported(base[p], sent, points))
    /\ Goto(p, "saved")
    /\ UNCHANGED <<issued, conn, base, tries, answer, closers, alerted>>

\* The answer; maybe_notify_session_finished precedes it.
Respond(p) ==
    /\ pc[p] \in {"loaded", "committed", "saved"}
    /\ alerted' = IF /\ req[p].op \in ClosingOps
                     /\ ~wasCompleted[p] /\ base[p].batch_completed
                  THEN alerted \cup {p} ELSE alerted
    /\ Goto(p, "done")
    /\ UNCHANGED <<doc, issued, conn, base, dirty, tries, answer, closers, overtaken>>

\* cms_delete_session: the key is dropped.
Delete(p) ==
    /\ pc[p] = "deleting"
    /\ Put(Gone)
    /\ Goto(p, "done") /\ Answer(p, "ok")
    /\ UNCHANGED <<issued, conn, base, tries, closers, alerted>>

\* The process dies with the request: nothing more is written, the client
\* sees an error.
Crash(p) ==
    /\ pc[p] \notin {"idle", "done"}
    /\ Cardinality({q \in Handlers : answer[q] = "error"}) < MaxCrashes
    /\ Goto(p, "done") /\ Answer(p, "error")
    /\ UNCHANGED <<doc, issued, conn, base, dirty, tries, ends>>

-----------------------------------------------------------------------------
Reading(p)  == Read(p) \/ ReadMissing(p) \/ Create(p) \/ Reread(p)
Mutating(p) == Watch(p) \/ Mutate(p) \/ Commit(p) \/ Conflict(p)
Ending(p)   == Backfill(p) \/ Export(p) \/ Respond(p) \/ Delete(p)

Serve(p) == Reading(p) \/ Mutating(p) \/ Ending(p)

Next == \E p \in Handlers : Submit(p) \/ Serve(p) \/ Crash(p)

\* A request that has arrived is served: the event loop runs every handler
\* that can go on, and Redis and Jira answer or time out.
Fairness == \A p \in Handlers : WF_vars(Serve(p))

Spec == Init /\ [][Next]_vars /\ Fairness

-----------------------------------------------------------------------------
(* Safety.                                                                 *)

Labels == {"idle", "reading", "creating", "rereading", "loaded", "mutating",
           "watching", "staged", "committed", "saved", "deleting", "done"}

\* Every step of the handlers is one atomic request of PokerSession or none:
\* the rounds of WATCH, GET and EXEC, lost and repeated, are not observable.
Atomic == INSTANCE PokerSession WITH
              session    <- IF doc = Gone THEN NewSession("sp") ELSE doc,
              MaxVersion <- InitialVersion + Cardinality(Handlers),
              IsDemo     <- FALSE

AtomicSteps == [][Atomic!Next]_(Atomic!vars)

\* "Use existing optimistic concurrency semantics for session mutations; do
\* not silently overwrite state." (.cursor/rules/Backend-Rules.mdc): a write
\* never takes back what another request has written.  While a task is being
\* voted on its ballots only grow, and tasks_version never falls.
NoSilentOverwrite ==
    [][doc # Gone /\ doc' # Gone =>
          /\ doc'.tasks_version >= doc.tasks_version
          /\ \A t \in Tasks :
                \/ doc.votes[t] \subseteq doc'.votes[t]
                \/ doc'.tasks_version > doc.tasks_version]_vars

\* An edit that carries expected_version is applied to the board the manager
\* had on screen, however many requests were served in between.
EditsWhatWasSeen ==
    [][\A p \in Handlers :
          /\ pc[p] = "staged" /\ pc'[p] = "committed" /\ expected[p] # NoVersion
          => doc # Gone /\ Board(doc) = Board(page[p])]_vars

Acknowledged ==
    {p \in Handlers : /\ req[p].op \in VersionedOps /\ answer[p] = "ok"
                      /\ pc[p] \in {"committed", "saved", "done"}}

Died == {p \in Handlers : answer[p] = "error"}

\* tasks_version counts the mutations: none that was acknowledged is lost or
\* applied twice, a request that was turned down left nothing behind, and one
\* that died may or may not have been applied.
AnswersAreTrue ==
    doc # Gone =>
        /\ InitialVersion + Cardinality(Acknowledged) <= doc.tasks_version
        /\ doc.tasks_version <= InitialVersion + Cardinality(Acknowledged \cup Died)

\* Every end of a batch is announced by the request that brought it about, two
\* ends by two requests: the one that is not is the request which had read a
\* batch completed earlier, and saw it opened again (or the session deleted)
\* between that read and its own EXEC.  A request that dies announces nothing.
EndsAnnounced ==
    \A p \in closers :
        pc[p] = "done" /\ answer[p] # "error" => p \in alerted \/ p \in overtaken

-----------------------------------------------------------------------------
(* Liveness.                                                               *)

\* Every request that arrives is answered: mutate_session gives up rather than
\* try for ever, and no handler waits for another.
EveryRequestAnswered ==
    \A p \in Handlers : pc[p] # "idle" ~> pc[p] = "done"
=============================================================================
