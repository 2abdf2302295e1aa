----------------------------- MODULE ScopeBoard -----------------------------
(***************************************************************************)
(* Scope boards (services/voting_service/cms/scope.py with                 *)
(* cms_store/scope_boards.py) and the open questions the release boards of *)
(* one team share (cms_store/teams.py and the vendored                     *)
(* planning_poker_common.scope).                                           *)
(*                                                                         *)
(* Every edit of a board reads its row, works on the snapshot it holds and *)
(* writes the whole snapshot back, unconditionally; the questions of a     *)
(* team are read and written back the same way.  A step is one awaited     *)
(* call: a statement or a request to Jira.                                 *)
(*                                                                         *)
(* One JQL stands for the sections of a board and one for its queues; the  *)
(* issues of a section are those that count as open questions.  An item is *)
(* an entry of the top list, of the todo list or a report comment.         *)
(***************************************************************************)
EXTENDS Naturals, Sequences, FiniteSets

CONSTANTS
    Boards,
    Release,     \* those of the team that makes releases, which share its questions;
                 \* the others keep theirs
    Handlers,    \* requests the service works on at a time
    Manual,      \* questions typed in by hand
    Legacy,      \* those asked before teams had a registry of questions
    Open,        \* Jira issues that count as open questions
    Queued,      \* Jira issues a queue may hold
    Items, MaxItems,
    MaxResolved,   \* how many resolved questions a snapshot is cut to
    MaxBackfilled, \* how many boards are read for the questions of a new registry
    MaxRequests, \* bound: the requests that begin
    MaxBoards,   \* bound: the boards there ever are
    MaxRaced,    \* bound: those that begin once two have been worked on at a time
    None,        \* no board
    Null         \* a board without a snapshot

\* Orders of the issues of a queue.
Orders == {s \in UNION {[1..n -> Queued] : n \in 0..Cardinality(Queued)} :
             \A i, j \in DOMAIN s : s[i] = s[j] => i = j}

Snapshots ==
    [manual : SUBSET Manual, resolved : SUBSET (Manual \cup Open), meta : SUBSET Open,
     entries : Nat, issues : SUBSET Open, items : SUBSET Items, pool : SUBSET Queued, ranked : Orders,
     notes : SUBSET Queued, due : SUBSET Queued]

ASSUME ScopeBoardAssumption ==
    /\ None \notin Snapshots /\ Null \notin Snapshots
    /\ Release \subseteq Boards
    /\ Legacy \subseteq Manual
    /\ IsFiniteSet(Queued) /\ IsFiniteSet(Manual \cup Open)
    /\ Manual \cap Open = {} /\ Manual \cap Items = {}
    /\ MaxItems \in Nat /\ MaxResolved \in Nat \ {0} /\ MaxBackfilled \in Nat
    /\ MaxRequests \in Nat /\ MaxBoards \in Nat /\ MaxRaced \in Nat

VARIABLES
    board,    \* the snapshots stored with the boards
    registry, \* scope_questions of the team
    jira,     \* what the service has written to Jira
    req,      \* the requests being worked on
    kept,     \* history: what was confirmed to a user and neither taken back nor
              \* left out by a limit; a legacy question was confirmed before there
              \* was a registry
    used,     \* history: the ids given out
    raced,    \* history: two requests have been worked on at a time
    begun

vars == <<board, registry, jira, req, kept, used, raced, begun>>

-----------------------------------------------------------------------------
(* Registries and snapshots.  The entries of a snapshot are the length of  *)
(* its list of resolved questions, where one resolved twice is twice.      *)

NoQuestions == [manual |-> {}, resolved |-> {}, tracked |-> {}]

Ranks(s) == {s[i] : i \in DOMAIN s}

Blank == [manual |-> {}, resolved |-> {}, meta |-> {}, entries |-> 0, issues |-> {},
          items |-> {}, pool |-> {}, ranked |-> <<>>, notes |-> {}, due |-> {}]

\* Mutant: a question the incoming registry still has open is open again.
UnionReopens(s, t) ==
    [manual |-> (s.manual \ (s.resolved \cup t.resolved)) \cup t.manual,
     resolved |-> (s.resolved \ t.manual) \cup t.resolved,
     tracked |-> s.tracked \cup t.tracked]

Union(s, t) ==
    [manual |-> (s.manual \cup t.manual) \ (s.resolved \cup t.resolved),
     resolved |-> s.resolved \cup t.resolved,
     tracked |-> s.tracked \cup t.tracked]

Extract(s) == [manual |-> s.manual, resolved |-> s.resolved, tracked |-> s.meta]

\* The boards whose questions make a new registry: those of the team that were
\* updated last, whichever they are.
HeldOf(b) == board[b] \notin {None, Null}

LastUpdated ==
    LET held == {b \in Release : HeldOf(b)}
    IN  IF Cardinality(held) <= MaxBackfilled THEN {held}
        ELSE {some \in SUBSET held : Cardinality(some) = MaxBackfilled}

\* Mutant: no board is asked for the questions of a new registry.
BackfilledFromNone(read) == NoQuestions

Backfilled(read) ==
    LET resolved == UNION {board[b].resolved : b \in read}
    IN  [manual |-> (UNION {board[b].manual : b \in read}) \ resolved,
         resolved |-> resolved,
         tracked |-> UNION {board[b].meta : b \in read}]

\* A Jira question is tracked from the first time a board shows it.
Register(q, ids) == [q EXCEPT !.tracked = @ \cup (ids \ q.resolved)]

OpenIds(s) == s.issues \ s.resolved

Overlay(s, q, ids) ==
    [s EXCEPT !.manual = q.manual, !.resolved = q.resolved, !.entries = Cardinality(q.resolved),
              !.meta = IF ids # {} THEN @ \cup ((ids \ q.resolved) \cap q.tracked)
                       ELSE IF q.tracked # {} THEN q.tracked ELSE @]

-----------------------------------------------------------------------------
(* The edits.                                                              *)

\* What the handlers refuse of the snapshot they hold.
Refused(op, x, s) ==
    \/ op = "resolve" /\ x \notin s.manual \cup s.issues
    \/ op = "add" /\ Cardinality(s.items) >= MaxItems
    \/ op \in {"drop", "tick"} /\ x \notin s.items
    \/ op = "comment" /\ x \notin s.issues
    \/ op \in {"note", "due"} /\ x \notin s.pool
    \/ op = "reorder" /\ ~ Ranks(x) \subseteq s.pool

WithQuestion(s, q) == [s EXCEPT !.manual = @ \cup {q}]

\* The questions that may be left when another is resolved: the list is cut to the
\* newest entries, whichever questions they are of.
LeftOf(s) ==
    IF s.entries < MaxResolved THEN {s.resolved}
    ELSE {left \in SUBSET s.resolved :
             /\ Cardinality(left) < MaxResolved
             /\ Cardinality(s.resolved \ left) <= s.entries + 1 - MaxResolved}

WithResolved(s, q, left) ==
    [s EXCEPT !.manual = @ \ {q}, !.meta = @ \ {q}, !.resolved = left \cup {q},
              !.entries = IF @ < MaxResolved THEN @ + 1 ELSE MaxResolved]

WithItem(s, i) == [s EXCEPT !.items = @ \cup {i}]
WithoutItem(s, i) == [s EXCEPT !.items = @ \ {i}]
WithNote(s, k) == [s EXCEPT !.notes = @ \cup {k}]
WithDueDate(s, k) == [s EXCEPT !.due = @ \cup {k}]

WithOrder(s, order) == [s EXCEPT !.ranked = order]

\* The snapshots an edit may leave.  A tick and a comment change nothing the model
\* tells apart; create, update and refresh save what they hold.
Edited(op, x, s) ==
    CASE op = "question" -> {WithQuestion(s, x)}
      [] op = "resolve"  -> {WithResolved(s, x, left) : left \in LeftOf(s)}
      [] op \in {"add", "remark"} -> {WithItem(s, x)}
      [] op = "drop"     -> {WithoutItem(s, x)}
      [] op = "note"     -> {WithNote(s, x)}
      [] op = "due"      -> {WithDueDate(s, x)}
      [] op = "reorder"  -> {WithOrder(s, x)}
      [] op = "reset"    -> {WithOrder(s, <<>>)}
      [] OTHER           -> {s}

\* What is left of an order when the other issues lose their places, as those do
\* that have left the queue (merge_priority_queue).
RankedOf(order, pool) ==
    {s \in Orders : /\ Ranks(s) = Ranks(order) \cap pool
                    /\ \A i, j \in DOMAIN s, m, n \in DOMAIN order :
                          s[i] = order[m] /\ s[j] = order[n] /\ i < j => m < n}

\* The snapshot made of a fetch and of what users put into the one before.
\* Its questions are still those of the snapshot before.
Refreshed(s, issues, pool, ranked) ==
    [manual |-> s.manual, resolved |-> s.resolved, meta |-> s.meta, entries |-> s.entries,
     issues |-> issues, items |-> s.items, pool |-> pool, ranked |-> ranked,
     notes |-> s.notes \cap pool, due |-> jira.due \cap pool]

\* The fetch of a board that shows something must not fail in part.
Halts(s, failed) ==
    \/ failed = {"sections", "queue"}
    \/ failed # {} /\ s.issues \cup s.pool # {}

\* Mutant: the places are counted from zero.
PutsFromZero(op, x, s) ==
    LET order == IF op = "reorder" THEN x ELSE <<>>
    IN  {[i \in DOMAIN order |-> <<order[i], i - 1>>]}

\* The significances a new order is written to Jira with: the places, then
\* the issues that lost theirs.
Puts(op, x, s) ==
    LET order == IF op = "reorder" THEN x ELSE <<>>
    IN  {[i \in DOMAIN order |-> <<order[i], i>>] \o [i \in DOMAIN lost |-> <<lost[i], 0>>] :
            lost \in RankedOf(s.ranked, Queued \ Ranks(order))}

-----------------------------------------------------------------------------
(* A request: the call it waits for, what it was asked to do, the snapshot *)
(* and the questions it holds and the significances it has yet to write.   *)

Idle == [pc |-> "idle", op |-> "none", board |-> None, x |-> None,
         snap |-> Blank, reg |-> NoQuestions, puts |-> <<>>, failed |-> FALSE]

\* The questions a board holds, open or resolved.
Asked(b) == IF board[b] \in {None, Null} THEN {} ELSE board[b].manual \cup board[b].resolved

\* A team without a registry yet: the boards are absent or have been refreshed, and
\* may hold a question from before there were registries.
Init ==
    /\ board \in [Boards -> {None} \cup
          {[Blank EXCEPT !.manual = old, !.issues = Open, !.pool = Queued] : old \in {{}, Legacy}}]
    /\ Cardinality({b \in Boards : board[b] # None}) <= MaxBoards
    /\ registry = NoQuestions
    /\ jira = [posted |-> {}, due |-> {}, rank |-> [k \in Queued |-> 0]]
    /\ req = [h \in Handlers |-> Idle]
    /\ kept = {p \in Boards \X Legacy : p[2] \in Asked(p[1])}
    /\ used = Legacy \cup {b \in Boards : board[b] # None}
    /\ raced = FALSE
    /\ begun = 0

Ops == {"create", "view", "update", "refresh", "question", "resolve", "add", "remark",
        "tick", "drop", "comment", "note", "due", "reorder", "reset", "delete"}

\* A request arrives.
Begin(h, op, b, x) ==
    /\ req[h] = Idle
    /\ raced' = (raced \/ \E g \in Handlers : req[g] # Idle)
    /\ begun < IF raced' THEN MaxRaced ELSE MaxRequests
    /\ req' = [req EXCEPT ![h] = [Idle EXCEPT !.pc = "get", !.op = op, !.board = b, !.x = x]]
    /\ begun' = begun + 1
    /\ UNCHANGED <<board, registry, jira>>

\* The ones that give out an id ...
BeginNew(h, op, b, x) ==
    /\ x \notin used
    /\ used' = used \cup {x}
    /\ UNCHANGED kept
    /\ Begin(h, op, b, x)

\* ... and the ones that do not.
BeginEdit(h, op, b, x) ==
    /\ board[b] # None
    /\ UNCHANGED <<kept, used>>
    /\ Begin(h, op, b, x)

CreateBoard(h, b) ==
    /\ Cardinality(used \cap Boards) < MaxBoards
    /\ BeginNew(h, "create", b, b)
ViewBoard(h, b) == BeginEdit(h, "view", b, None)
UpdateBoard(h, b) == BeginEdit(h, "update", b, None)
RefreshBoard(h, b) == BeginEdit(h, "refresh", b, None)

AddQuestion(h, b) == \E q \in Manual : board[b] # None /\ BeginNew(h, "question", b, q)
ResolveQuestion(h, b) == \E q \in Manual \cup Open : BeginEdit(h, "resolve", b, q)

AddItem(h, b) == \E i \in Items : board[b] # None /\ BeginNew(h, "add", b, i)
RemarkIssue(h, b) == \E i \in Items : board[b] # None /\ BeginNew(h, "remark", b, i)
TickItem(h, b) == \E i \in Items : BeginEdit(h, "tick", b, i)
CommentIssue(h, b) == \E k \in Open : BeginEdit(h, "comment", b, k)

\* What is deleted is no longer promised from here on; the questions of a
\* release board are the team's.
DropItem(h, b) == \E i \in Items :
    /\ board[b] # None
    /\ kept' = kept \ {<<b, i>>}
    /\ UNCHANGED used
    /\ Begin(h, "drop", b, i)

DeleteBoard(h, b) ==
    /\ board[b] # None
    /\ kept' = {p \in kept : p[1] # b \/ (b \in Release /\ p[2] \in Manual /\ registry # NoQuestions)}
    /\ UNCHANGED used
    /\ Begin(h, "delete", b, None)

NoteIssue(h, b) == \E k \in Queued : BeginEdit(h, "note", b, k)
SetDueDate(h, b) == \E k \in Queued : BeginEdit(h, "due", b, k)
ReorderQueue(h, b) == Queued # {} /\ \E order \in Orders : BeginEdit(h, "reorder", b, order)
ResetQueue(h, b) == Queued # {} /\ BeginEdit(h, "reset", b, None)

Arrive(h, b) ==
    \/ CreateBoard(h, b) \/ ViewBoard(h, b) \/ UpdateBoard(h, b) \/ RefreshBoard(h, b)
    \/ AddQuestion(h, b) \/ ResolveQuestion(h, b) \/ AddItem(h, b) \/ RemarkIssue(h, b)
    \/ TickItem(h, b) \/ DropItem(h, b) \/ CommentIssue(h, b) \/ NoteIssue(h, b)
    \/ SetDueDate(h, b) \/ ReorderQueue(h, b) \/ ResetQueue(h, b) \/ DeleteBoard(h, b)

\* Mutant: a resolution or a due date is saved without waiting for Jira.
ReadySavingFirst(r) ==
    IF Refused(r.op, r.x, r.snap) \/ r.op = "view" THEN Idle ELSE [r EXCEPT !.pc = "save"]

\* Where a request goes on once it holds the snapshot it is to work on.
Ready(r) ==
    IF Refused(r.op, r.x, r.snap) \/ r.op = "view" THEN Idle
    ELSE [r EXCEPT !.pc = CASE r.op = "resolve" /\ r.x \in r.snap.issues -> "post"
                            [] r.op = "due" -> "put"
                            [] OTHER -> "save"]

\* ... and once it holds the questions of the team.
Overlaid(r) == Ready([r EXCEPT !.snap = Overlay(@, r.reg, OpenIds(@))])

Loaded(r) ==
    LET seen == Union(r.reg, Extract(r.snap))
        new  == Register(r.reg, OpenIds(r.snap))
    IN  CASE r.op = "refresh" -> [r EXCEPT !.reg = Register(seen, r.snap.issues), !.pc = "track"]
          [] r.op # "refresh" /\ new # r.reg -> [r EXCEPT !.reg = new, !.pc = "track"]
          [] OTHER -> Overlaid(r)

Move(h, r) == req' = [req EXCEPT ![h] = r]

At(h, stage) == req[h].pc = stage

Held(h) ==
    [req[h] EXCEPT !.snap = IF board[req[h].board] \in {None, Null} THEN Blank
                            ELSE board[req[h].board]]

\* get_scope_board.
Get(h) ==
    /\ At(h, "get") /\ req[h].op \notin {"create", "update"}
    /\ LET r == req[h]
       IN  Move(h, IF board[r.board] = None THEN Idle
                   ELSE CASE r.op = "delete"  -> [Held(h) EXCEPT !.pc = "delete"]
                          [] r.op = "refresh" -> [Held(h) EXCEPT !.pc = "fetch"]
                          [] r.op \in {"view", "question", "resolve"} /\ r.board \in Release ->
                                [Held(h) EXCEPT !.pc = "questions"]
                          [] OTHER -> Ready(Held(h)))
    /\ UNCHANGED <<board, registry, jira, kept, used, raced, begun>>

\* create_scope_board: a row without a snapshot.
Insert(h) ==
    /\ At(h, "get") /\ req[h].op = "create"
    /\ board' = [board EXCEPT ![req[h].board] = Null]
    /\ Move(h, IF req[h].board \in Release THEN [req[h] EXCEPT !.pc = "questions"] ELSE Idle)
    /\ UNCHANGED <<registry, jira, kept, used, raced, begun>>

\* update_scope_board: the UPDATE of the other columns returns the row, whose
\* snapshot, if it has one, is saved again with the new settings.
UpdateColumns(h) ==
    /\ At(h, "get") /\ req[h].op = "update"
    /\ Move(h, IF board[req[h].board] \in {None, Null} THEN Idle ELSE Ready(Held(h)))
    /\ UNCHANGED <<board, registry, jira, kept, used, raced, begun>>

\* The JQLs of a refresh, each of which may fail.
Fetch(h, issues, pool, failed) ==
    /\ At(h, "fetch")
    /\ "sections" \in failed => issues = {}
    /\ "queue" \in failed => pool = {}
    /\ LET r == req[h]
       IN  IF Halts(r.snap, failed) THEN Move(h, Idle)
           ELSE \E ranked \in RankedOf(r.snap.ranked, pool) :
                  LET s == Refreshed(r.snap, issues, pool, ranked)
                      new == [r EXCEPT !.failed = failed # {}]
                  IN  Move(h, IF r.board \in Release THEN [new EXCEPT !.pc = "questions", !.snap = s]
                              ELSE [new EXCEPT !.pc = "save", !.snap = [s EXCEPT !.meta = {}]])
    /\ UNCHANGED <<board, registry, jira, kept, used, raced, begun>>

\* get_team_scope_questions.
Questions(h) ==
    /\ At(h, "questions")
    /\ Move(h, IF registry = NoQuestions THEN [req[h] EXCEPT !.pc = "backfill"]
               ELSE Loaded([req[h] EXCEPT !.reg = registry]))
    /\ UNCHANGED <<board, registry, jira, kept, used, raced, begun>>

\* The questions of the boards that are not read are left out.
LeaveOut(read) ==
    kept' = {p \in kept : p[1] \in Release /\ HeldOf(p[1]) /\ p[2] \in Manual => p[1] \in read}

\* backfill_team_scope_questions_from_boards.
Backfill(h) ==
    /\ At(h, "backfill")
    /\ \E read \in LastUpdated :
          /\ Move(h, IF Backfilled(read) = NoQuestions THEN Loaded(req[h])
                     ELSE [req[h] EXCEPT !.reg = Backfilled(read), !.pc = "seed"])
          /\ LeaveOut(read)
    /\ UNCHANGED <<board, registry, jira, used, raced, begun>>

\* save_team_scope_questions, of the questions the boards had or of those
\* the board shows for the first time.
Seed(h) ==
    /\ At(h, "seed")
    /\ registry' = req[h].reg
    /\ Move(h, Loaded(req[h]))
    /\ UNCHANGED <<board, jira, kept, used, raced, begun>>

Track(h) ==
    /\ At(h, "track")
    /\ registry' = req[h].reg
    /\ Move(h, IF req[h].op = "refresh"
               THEN [req[h] EXCEPT !.pc = "save",
                        !.snap = Overlay([@ EXCEPT !.meta = {}], registry', @.issues)]
               ELSE Overlaid(req[h]))
    /\ UNCHANGED <<board, jira, kept, used, raced, begun>>

\* The comment with which a Jira question is resolved comes first: when Jira
\* does not take it, nothing is saved.
Post(h, ok) ==
    /\ At(h, "post")
    /\ jira' = IF ok THEN [jira EXCEPT !.posted = @ \cup {req[h].x}] ELSE jira
    /\ Move(h, IF ok THEN [req[h] EXCEPT !.pc = "save"] ELSE Idle)
    /\ UNCHANGED <<board, registry, kept, used, raced, begun>>

\* So does the due date.
Put(h, ok) ==
    /\ At(h, "put")
    /\ jira' = IF ok THEN [jira EXCEPT !.due = @ \cup {req[h].x}] ELSE jira
    /\ Move(h, IF ok THEN [req[h] EXCEPT !.pc = "save"] ELSE Idle)
    /\ UNCHANGED <<board, registry, kept, used, raced, begun>>

\* What the answer confirms.
Confirmed(r) == IF r.op \in {"question", "add", "remark"} THEN kept \cup {<<r.board, r.x>>} ELSE kept

\* What the cut of the resolved questions leaves out for good: those of a release
\* board are in the registry.
CutOff(r, s) == IF r.board \in Release THEN {} ELSE {r.board} \X (r.snap.resolved \ s.resolved)

\* save_scope_board_snapshot: an UPDATE of the row, if it is still there.
Save(h) ==
    /\ At(h, "save")
    /\ \E s \in Edited(req[h].op, req[h].x, req[h].snap) :
       LET r == req[h]
           next == CASE r.op \in {"question", "resolve"} /\ r.board \in Release -> "sync"
                     [] r.op = "create" -> "questions"
                     [] r.op \in {"comment", "note"} -> "comment"
                     [] r.op \in {"reorder", "reset"} -> "places"
                     [] OTHER -> "idle"
           saved == [r EXCEPT !.snap = s, !.pc = next]
       IN  IF board[r.board] = None
           THEN Move(h, Idle) /\ UNCHANGED <<board, kept>>
           ELSE /\ board' = [board EXCEPT ![r.board] = s]
                /\ kept' = (IF next = "idle" THEN Confirmed(r) ELSE kept) \ CutOff(r, s)
                /\ \/ next = "idle" /\ Move(h, Idle)
                   \/ next = "questions" /\ Move(h, [saved EXCEPT !.op = "view"])
                   \/ next = "places" /\ \E puts \in Puts(r.op, r.x, r.snap) :
                                             Move(h, [saved EXCEPT !.puts = puts])
                   \/ next \in {"sync", "comment"} /\ Move(h, saved)
    /\ UNCHANGED <<registry, jira, used, raced, begun>>

\* _sync_release_team_questions: the questions of the team are read again ...
Sync(h) ==
    /\ At(h, "sync")
    /\ Move(h, [req[h] EXCEPT !.reg = Union(registry, Extract(req[h].snap)), !.pc = "synced"])
    /\ UNCHANGED <<board, registry, jira, kept, used, raced, begun>>

\* ... and written with those of the snapshot.
Synced(h) ==
    /\ At(h, "synced")
    /\ registry' = req[h].reg
    /\ kept' = Confirmed(req[h])
    /\ Move(h, Idle)
    /\ UNCHANGED <<board, jira, used, raced, begun>>

\* The comment of an issue is saved, whether Jira takes it or not.
Commented(h) ==
    /\ At(h, "comment")
    /\ Move(h, Idle)
    /\ UNCHANGED <<board, registry, jira, kept, used, raced, begun>>

\* The significances are written one by one, best effort.
Place(h, ok) ==
    /\ At(h, "places") /\ req[h].puts # <<>>
    /\ LET p == Head(req[h].puts)
       IN  jira' = IF ok THEN [jira EXCEPT !.rank[p[1]] = p[2]] ELSE jira
    /\ Move(h, [req[h] EXCEPT !.puts = Tail(@), !.failed = @ \/ ~ ok])
    /\ UNCHANGED <<board, registry, kept, used, raced, begun>>

Placed(h) ==
    /\ At(h, "places") /\ req[h].puts = <<>>
    /\ Move(h, Idle)
    /\ UNCHANGED <<board, registry, jira, kept, used, raced, begun>>

\* delete_scope_board.
Delete(h) ==
    /\ At(h, "delete")
    /\ board' = [board EXCEPT ![req[h].board] = None]
    /\ Move(h, Idle)
    /\ UNCHANGED <<registry, jira, kept, used, raced, begun>>

\* The process dies: its requests end where they are.
Crash ==
    /\ \E h \in Handlers : req[h] # Idle
    /\ req' = [h \in Handlers |-> Idle]
    /\ UNCHANGED <<board, registry, jira, kept, used, raced, begun>>

Work(h) ==
    \/ Get(h) \/ Insert(h) \/ UpdateColumns(h) \/ Questions(h) \/ Backfill(h) \/ Seed(h) \/ Track(h) \/ Save(h)
    \/ Sync(h) \/ Synced(h) \/ Commented(h) \/ Placed(h) \/ Delete(h)
    \/ \E issues \in SUBSET Open, pool \in SUBSET Queued, failed \in SUBSET {"sections", "queue"} :
          Fetch(h, issues, pool, failed)
    \/ \E ok \in BOOLEAN : Post(h, ok) \/ Put(h, ok) \/ Place(h, ok)

Next ==
    \/ \E h \in Handlers, b \in Boards : Arrive(h, b)
    \/ \E h \in Handlers : Work(h)
    \/ Crash

Spec == Init /\ [][Next]_vars

-----------------------------------------------------------------------------
(* Properties.                                                             *)

Shown(b) == IF board[b] \in {None, Null} THEN Blank ELSE board[b]

\* As long as requests came one after the other, what was confirmed to a user
\* is there until it is taken back or a limit leaves it out: an item on its board;
\* a question among those of the team, open or resolved, once there are any, and
\* else on its board.  That holds after a crash between the save of the board and
\* that of the team's questions, and through the other boards, refreshes, settings
\* and deletions (_ensure_team_scope_questions, _sync_release_team_questions).  The
\* limits leave out the questions of the boards a new registry was not made from, and
\* the questions that were resolved first on a board of another team; the resolved
\* questions of a release board are cut too and stay all the same.
ConfirmedStays ==
    ~ raced => \A p \in kept :
        IF p[2] \in Items THEN p[2] \in Shown(p[1]).items
        ELSE LET q == IF p[1] \in Release /\ registry # NoQuestions
                      THEN registry ELSE Shown(p[1])
             IN  p[2] \in q.manual \cup q.resolved

\* As long as requests came one after the other, no board can open a question
\* of its team again, however old its snapshot is.
ResolvedForGood ==
    [][~ raced' => registry.resolved \subseteq registry'.resolved]_vars

\* A board says only what Jira has accepted before: the resolution of an issue
\* and its due date are written there first, whatever else happens, and the
\* boards of a team take a resolution over from each other.
JiraFirst ==
    \A b \in Boards : /\ Shown(b).resolved \cap Open \subseteq jira.posted
                      /\ Shown(b).due \subseteq jira.due

\* As long as requests came one after the other, a new order that Jira took
\* entirely is the one Jira has (cms_reorder_scope_priority_queue).
PlacesTold ==
    ~ raced => \A h \in Handlers :
        At(h, "places") /\ req[h].puts = <<>> /\ ~ req[h].failed =>
            LET order == Shown(req[h].board).ranked
            IN  \A i \in DOMAIN order : jira.rank[order[i]] = i
=============================================================================
