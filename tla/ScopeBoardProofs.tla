-------------------------- MODULE ScopeBoardProofs --------------------------
(***************************************************************************)
(* Proofs about the scope boards (ScopeBoard), for any number of boards,   *)
(* requests, questions, issues and crashes: that a board says only what    *)
(* Jira has taken, and, as long as requests come one after the other, that *)
(* what was confirmed stays, that resolutions are for good and that Jira   *)
(* has the order of a queue.                                               *)
(***************************************************************************)
EXTENDS ScopeBoard, FiniteSetTheorems, SequenceTheorems, TLAPS

Registries ==
    [manual : SUBSET Manual, resolved : SUBSET (Manual \cup Open), tracked : SUBSET Open]

Things == Manual \cup Open \cup Items \cup Queued \cup Orders \cup Boards \cup {None}

Stages == {"idle", "get", "fetch", "questions", "backfill", "seed", "track", "post", "put",
           "save", "sync", "synced", "comment", "places", "delete"}

Requests ==
    [pc : Stages, op : Ops \cup {"none"}, board : Boards \cup {None}, x : Things,
     snap : Snapshots, reg : Registries, puts : Seq(Queued \X Nat), failed : BOOLEAN]

TypeOK ==
    /\ board \in [Boards -> Snapshots \cup {None, Null}]
    /\ registry \in Registries
    /\ jira \in [posted : SUBSET Open, due : SUBSET Queued, rank : [Queued -> Nat]]
    /\ req \in [Handlers -> Requests]
    /\ kept \subseteq Boards \X (Manual \cup Items)
    /\ raced \in BOOLEAN /\ begun \in Nat

-----------------------------------------------------------------------------
(* What holds however requests meet.                                       *)

\* What the handler of op was asked to work on.
Argument(op, x) ==
    /\ op = "question" => x \in Manual
    /\ op = "resolve" => x \in Manual \cup Open
    /\ op \in {"add", "remark", "tick", "drop"} => x \in Items
    /\ op = "comment" => x \in Open
    /\ op \in {"note", "due"} => x \in Queued
    /\ op = "reorder" => x \in Orders

AskingOps == {"create", "view", "refresh", "question", "resolve"}

\* Where a request is goes with what it is for.
Stationed(r) ==
    /\ r.pc = "idle" <=> r = Idle
    /\ r.pc # "idle" => r.board \in Boards /\ r.op \in Ops /\ Argument(r.op, r.x)
    /\ r.pc \in {"questions", "backfill", "seed", "track"} =>
          r.board \in Release /\ r.op \in AskingOps
    /\ r.pc \in {"sync", "synced"} => r.board \in Release /\ r.op \in {"question", "resolve"}
    /\ r.pc = "save" /\ r.op = "create" => r.board \in Release
    /\ r.pc = "fetch" => r.op = "refresh"
    /\ r.pc = "post" => r.op = "resolve" /\ r.x \in Open
    /\ r.pc = "put" => r.op = "due"
    /\ r.pc = "places" => r.op \in {"reorder", "reset"}
    /\ r.pc = "delete" => r.op = "delete"

\* A snapshot says only what Jira has taken.
TakenBy(s, j) == s.resolved \cap Open \subseteq j.posted /\ s.due \subseteq j.due

\* ... and so does what a request holds, once it is to save what it was asked for.
Taken(r, j) ==
    /\ TakenBy(r.snap, j)
    /\ r.reg.resolved \cap Open \subseteq j.posted
    /\ r.pc = "save" /\ r.op = "resolve" /\ r.x \in Open => r.x \in j.posted
    /\ r.pc = "save" /\ r.op = "due" => r.x \in j.due

AllTaken ==
    /\ JiraFirst
    /\ registry.resolved \cap Open \subseteq jira.posted
    /\ \A h \in Handlers : Taken(req[h], jira)

\* Ids are given out once: a board that is not there yet has no promises.
BoardsUsed ==
    /\ \A b \in Boards : board[b] # None => b \in used
    /\ \A p \in kept : p[1] \in used
    /\ \A h \in Handlers : req[h] # Idle => req[h].board \in used

-----------------------------------------------------------------------------
(* What holds as long as requests come one after the other.                *)

Asks(s) == s.manual \cup s.resolved

Showing(bd, b) == IF bd[b] \in {None, Null} THEN Blank ELSE bd[b]

ItemsOf(k, b) == {i \in Items : <<b, i>> \in k}
QuestionsOf(k, b) == {q \in Manual : <<b, q>> \in k}
TeamQuestions(k) == UNION {QuestionsOf(k, b) : b \in Release}

\* The questions of board b are those of its team.
Told(rg, b) == b \in Release /\ rg # NoQuestions

Promises(bd, rg, k) ==
    \A b \in Boards :
       /\ ItemsOf(k, b) \subseteq Showing(bd, b).items
       /\ QuestionsOf(k, b) \subseteq Asks(IF Told(rg, b) THEN rg ELSE Showing(bd, b))

\* The registry q has all that p has.
Extends(p, q) ==
    Asks(p) \subseteq Asks(q) /\ p.resolved \subseteq q.resolved /\ p.tracked \subseteq q.tracked

\* The significances still to be written make Jira's order that of the board.
Placing(r, bd, j) ==
    LET order == Showing(bd, r.board).ranked
    IN  ~ r.failed => \A i \in DOMAIN order :
           /\ j.rank[order[i]] = i \/ \E n \in DOMAIN r.puts : r.puts[n] = <<order[i], i>>
           /\ \A n \in DOMAIN r.puts : r.puts[n][1] = order[i] => r.puts[n][2] = i

\* What the one request that is worked on holds is no less than what was
\* confirmed, of its board and of its team.
Holds(r, bd, rg, k, j) ==
    /\ r.pc \notin {"idle", "get", "delete"} =>
          /\ ItemsOf(k, r.board) \subseteq r.snap.items
          /\ Told(rg, r.board) \/ QuestionsOf(k, r.board) \subseteq Asks(r.snap)
    /\ r.pc # "idle" /\ r.op = "drop" => r.x \notin ItemsOf(k, r.board)
    /\ r.pc # "idle" /\ r.op = "delete" =>
          ItemsOf(k, r.board) = {} /\ (Told(rg, r.board) \/ QuestionsOf(k, r.board) = {})
    /\ r.pc = "get" /\ r.op = "create" =>
          ItemsOf(k, r.board) = {} /\ QuestionsOf(k, r.board) = {}
    /\ r.pc = "backfill" => rg = NoQuestions
    /\ r.pc \in {"seed", "track", "synced"} => Extends(rg, r.reg)
    /\ r.pc = "seed" => TeamQuestions(k) \subseteq Asks(r.reg)
    /\ \/ r.pc \in {"track", "sync", "synced"}
       \/ r.pc \in {"post", "save"} /\ r.op \in {"question", "resolve"} /\ r.board \in Release
       => rg # NoQuestions \/ TeamQuestions(k) = {}
    /\ r.pc = "sync" /\ r.op = "question" => r.x \in Asks(r.snap)
    /\ r.pc = "synced" /\ r.op = "question" => r.x \in Asks(r.reg)
    /\ r.pc = "places" => Placing(r, bd, j)

Alone == \A g, h \in Handlers : req[g] # Idle /\ req[h] # Idle => g = h

OneByOne ==
    ~ raced => /\ Alone /\ Promises(board, registry, kept)
               /\ \A h \in Handlers : Holds(req[h], board, registry, kept, jira)

IInv == TypeOK /\ (\A h \in Handlers : Stationed(req[h])) /\ AllTaken /\ BoardsUsed /\ OneByOne

-----------------------------------------------------------------------------
(* Registries and snapshots.                                               *)

LEMMA EmptyOrder == <<>> \in Orders
<1>1. Cardinality(Queued) \in Nat
      BY ScopeBoardAssumption, FS_CardinalityType
<1>2. <<>> \in [1..0 -> Queued]
      OBVIOUS
<1>3. 0 \in 0..Cardinality(Queued)
      BY <1>1
<1>4. <<>> \in UNION {[1..n -> Queued] : n \in 0..Cardinality(Queued)}
      BY <1>2, <1>3, Zenon
<1>5. DOMAIN <<>> = {}
      OBVIOUS
<1>6. QED
      BY <1>4, <1>5, Zenon DEF Orders

LEMMA BlankType == Blank \in Snapshots
BY EmptyOrder DEF Blank, Snapshots

LEMMA UnionFits ==
    ASSUME NEW s \in Registries, NEW t \in Registries
    PROVE  /\ Union(s, t) \in Registries
           /\ Asks(Union(s, t)) = Asks(s) \cup Asks(t)
           /\ Union(s, t).resolved = s.resolved \cup t.resolved
           /\ Extends(s, Union(s, t))
BY DEF Registries, Union, Asks, Extends

LEMMA ExtractFits ==
    ASSUME NEW s \in Snapshots
    PROVE  /\ Extract(s) \in Registries
           /\ Asks(Extract(s)) = Asks(s) /\ Extract(s).resolved = s.resolved
BY DEF Registries, Snapshots, Extract, Asks

LEMMA RegisterFits ==
    ASSUME NEW q \in Registries, NEW ids \in SUBSET Open
    PROVE  /\ Register(q, ids) \in Registries
           /\ Asks(Register(q, ids)) = Asks(q) /\ Register(q, ids).resolved = q.resolved
           /\ Extends(q, Register(q, ids))
BY DEF Registries, Register, Asks, Extends

LEMMA OverlayFits ==
    ASSUME NEW s \in Snapshots, NEW q \in Registries, NEW ids \in SUBSET Open
    PROVE  /\ Overlay(s, q, ids) \in Snapshots
           /\ Overlay(s, q, ids).resolved = q.resolved
           /\ Overlay(s, q, ids).items = s.items
           /\ Overlay(s, q, ids).due = s.due
           /\ Overlay(s, q, ids).issues = s.issues
<1>1. q.resolved \subseteq Manual \cup Open
      BY DEF Registries
<1>2. IsFiniteSet(q.resolved)
      BY <1>1, ScopeBoardAssumption, FS_Subset
<1>3. Cardinality(q.resolved) \in Nat
      BY <1>2, FS_CardinalityType
<1>4. QED
      BY <1>3 DEF Registries, Snapshots, Overlay

LEMMA OpenIdsType ==
    ASSUME NEW s \in Snapshots
    PROVE  OpenIds(s) \in SUBSET Open /\ s.issues \in SUBSET Open
BY DEF OpenIds, Snapshots

LEMMA NothingAsked == NoQuestions \in Registries /\ Asks(NoQuestions) = {}
BY DEF NoQuestions, Registries, Asks

\* The questions of the boards that are read make a new registry.
LEMMA LastUpdatedHeld ==
    ASSUME NEW read \in LastUpdated
    PROVE  read \subseteq {b \in Release : HeldOf(b)}
BY DEF LastUpdated

LEMMA BackfilledFits ==
    ASSUME TypeOK, NEW read \in LastUpdated
    PROVE  /\ Backfilled(read) \in Registries
           /\ \A b \in read : Asks(Showing(board, b)) \subseteq Asks(Backfilled(read))
           /\ JiraFirst => Backfilled(read).resolved \cap Open \subseteq jira.posted
<1> DEFINE resolved == UNION {board[b].resolved : b \in read}
           manual == UNION {board[b].manual : b \in read}
           meta == UNION {board[b].meta : b \in read}
<1>1. Backfilled(read) = [manual |-> manual \ resolved, resolved |-> resolved, tracked |-> meta]
      BY DEF Backfilled
<1>2. \A b \in read : b \in Boards /\ board[b] \in Snapshots /\ board[b] \notin {None, Null}
      BY LastUpdatedHeld, ScopeBoardAssumption DEF TypeOK, HeldOf
<1>3. resolved \subseteq Manual \cup Open /\ manual \subseteq Manual /\ meta \subseteq Open
      BY <1>2 DEF Snapshots
<1>4. Backfilled(read) \in Registries
      BY <1>1, <1>3 DEF Registries
<1>5. ASSUME NEW b \in read
      PROVE  Asks(Showing(board, b)) \subseteq Asks(Backfilled(read))
      <2>1. board[b].manual \subseteq manual /\ board[b].resolved \subseteq resolved
            OBVIOUS
      <2>2. Showing(board, b) = board[b]
            BY <1>2 DEF Showing
      <2>3. QED
            BY <1>1, <2>1, <2>2 DEF Asks
<1>6. ASSUME JiraFirst
      PROVE  Backfilled(read).resolved \cap Open \subseteq jira.posted
      <2>1. SUFFICES ASSUME NEW b \in read, NEW k \in board[b].resolved \cap Open
                     PROVE  k \in jira.posted
            BY <1>1
      <2>2. QED
            BY <1>2, <1>6, <2>1 DEF JiraFirst, Shown
<1>7. QED
      BY <1>4, <1>5, <1>6

LEMMA ShowingType ==
    ASSUME TypeOK, NEW b \in Boards
    PROVE  Showing(board, b) \in Snapshots /\ Showing(board, b) = Shown(b)
BY BlankType DEF TypeOK, Showing, Shown

LEMMA ExtendsAgain ==
    ASSUME NEW p, NEW q, NEW r, Extends(p, q), Extends(q, r)
    PROVE  Extends(p, r)
BY DEF Extends

LEMMA ExtendsItself == \A p : Extends(p, p)
BY DEF Extends

LEMMA ExtendsNothing ==
    ASSUME NEW p \in Registries
    PROVE  Extends(NoQuestions, p) /\ (Extends(p, NoQuestions) => p = NoQuestions)
BY DEF Registries, NoQuestions, Extends, Asks

-----------------------------------------------------------------------------
(* The edits.                                                              *)

\* What is left of the resolved questions when another is resolved.
LEMMA LeftOfFits ==
    ASSUME NEW s \in Snapshots, NEW left \in LeftOf(s)
    PROVE  left \subseteq s.resolved
BY DEF LeftOf

LEMMA ResolvedFits ==
    ASSUME NEW s \in Snapshots, NEW q \in Manual \cup Open, NEW left, left \subseteq s.resolved
    PROVE  LET t == WithResolved(s, q, left)
           IN  /\ t \in Snapshots /\ t.resolved = left \cup {q} /\ t.items = s.items
               /\ t.due = s.due /\ t.manual = s.manual \ {q}
<1>1. (IF s.entries < MaxResolved THEN s.entries + 1 ELSE MaxResolved) \in Nat
      BY ScopeBoardAssumption DEF Snapshots
<1>2. s.resolved \subseteq Manual \cup Open
      BY DEF Snapshots
<1>3. left \cup {q} \in SUBSET (Manual \cup Open)
      BY <1>2
<1>4. QED
      BY <1>1, <1>3 DEF Snapshots, WithResolved

\* An edit takes away what it was asked to, and a question or an issue only
\* moves, unless the cut of the resolved ones leaves it out.
LEMMA EditedFits ==
    ASSUME NEW op, NEW x, NEW s \in Snapshots, Argument(op, x), NEW t \in Edited(op, x, s)
    PROVE  /\ t \in Snapshots
           /\ s.items \ {x} \subseteq t.items
           /\ op # "drop" => s.items \subseteq t.items
           /\ op \in {"add", "remark"} => x \in t.items
           /\ Asks(s) \ (s.resolved \ t.resolved) \subseteq Asks(t)
           /\ op # "resolve" => s.resolved \subseteq t.resolved
           /\ op = "question" => x \in Asks(t)
<1>1. CASE op = "question"
      BY <1>1 DEF Snapshots, Asks, Argument, Edited, WithQuestion
<1>2. CASE op = "resolve"
      <2>1. PICK left \in LeftOf(s) : t = WithResolved(s, x, left)
            BY <1>2 DEF Edited
      <2>2. x \in Manual \cup Open
            BY <1>2 DEF Argument
      <2>3. /\ t \in Snapshots /\ t.resolved = left \cup {x} /\ t.items = s.items
            /\ t.manual = s.manual \ {x}
            BY <2>1, <2>2, LeftOfFits, ResolvedFits
      <2>4. QED
            BY <1>2, <2>3 DEF Asks
<1>3. CASE op \in {"add", "remark"}
      BY <1>3 DEF Snapshots, Asks, Argument, Edited, WithItem
<1>4. CASE op = "drop"
      BY <1>4 DEF Snapshots, Asks, Argument, Edited, WithoutItem
<1>5. CASE op = "note"
      BY <1>5 DEF Snapshots, Asks, Argument, Edited, WithNote
<1>6. CASE op = "due"
      BY <1>6 DEF Snapshots, Asks, Argument, Edited, WithDueDate
<1>7. CASE op = "reorder"
      BY <1>7 DEF Snapshots, Asks, Argument, Edited, WithOrder
<1>8. CASE op = "reset"
      BY <1>8, EmptyOrder DEF Snapshots, Asks, Edited, WithOrder
<1>9. CASE op \notin {"question", "resolve", "add", "remark", "drop", "note", "due", "reorder", "reset"}
      BY <1>9 DEF Edited, Asks
<1>10. QED
      BY <1>1, <1>2, <1>3, <1>4, <1>5, <1>6, <1>7, <1>8, <1>9

\* It says no more than Jira has taken, when Jira has taken what it was asked.
LEMMA EditedTaken ==
    ASSUME NEW op, NEW x, NEW s \in Snapshots, NEW j, TakenBy(s, j), Argument(op, x),
           op = "resolve" /\ x \in Open => x \in j.posted, op = "due" => x \in j.due,
           NEW t \in Edited(op, x, s)
    PROVE  TakenBy(t, j)
<1>1. CASE op = "question"
      BY <1>1 DEF Snapshots, TakenBy, Edited, WithQuestion
<1>2. CASE op = "resolve"
      <2>1. PICK left \in LeftOf(s) : t = WithResolved(s, x, left)
            BY <1>2 DEF Edited
      <2>2. x \in Manual \cup Open
            BY <1>2 DEF Argument
      <2>3. t.resolved = left \cup {x} /\ left \subseteq s.resolved /\ t.due = s.due
            BY <2>1, <2>2, LeftOfFits, ResolvedFits
      <2>4. QED
            BY <1>2, <2>3 DEF TakenBy
<1>3. CASE op \in {"add", "remark"}
      BY <1>3 DEF Snapshots, TakenBy, Edited, WithItem
<1>4. CASE op = "drop"
      BY <1>4 DEF Snapshots, TakenBy, Edited, WithoutItem
<1>5. CASE op = "note"
      BY <1>5 DEF Snapshots, TakenBy, Edited, WithNote
<1>6. CASE op = "due"
      BY <1>6 DEF Snapshots, TakenBy, Edited, WithDueDate
<1>7. CASE op \in {"reorder", "reset"}
      BY <1>7 DEF Snapshots, TakenBy, Edited, WithOrder
<1>8. CASE op \notin {"question", "resolve", "add", "remark", "drop", "note", "due", "reorder", "reset"}
      BY <1>8 DEF TakenBy, Edited
<1>9. QED
      BY <1>1, <1>2, <1>3, <1>4, <1>5, <1>6, <1>7, <1>8

-----------------------------------------------------------------------------
(* Where a request goes on.                                                *)

LEMMA IdleFits ==
    /\ Idle \in Requests /\ Stationed(Idle)
    /\ \A j : Taken(Idle, j)
    /\ \A bd, rg, k, j : Holds(Idle, bd, rg, k, j)
<1>1. Idle \in Requests
      BY BlankType, NothingAsked DEF Idle, Requests, Stages, Things
<1>2. Stationed(Idle)
      BY DEF Idle, Stationed
<1>3. \A j : Taken(Idle, j)
      BY DEF Idle, Taken, TakenBy, Blank, NoQuestions
<1>4. \A bd, rg, k, j : Holds(Idle, bd, rg, k, j)
      BY DEF Idle, Holds
<1>5. QED
      BY <1>1, <1>2, <1>3, <1>4

\* r asks for what it may, of a board there is.
Asking(r) ==
    /\ r \in Requests /\ r.board \in Boards /\ r.op \in Ops /\ Argument(r.op, r.x)
    /\ r.op = "create" => r.board \in Release

\* It holds nothing that Jira has not taken.
Backed(r, j) == TakenBy(r.snap, j) /\ r.reg.resolved \cap Open \subseteq j.posted

LEMMA ReadyFits ==
    ASSUME NEW r, NEW j, Asking(r), Backed(r, j)
    PROVE  /\ Ready(r) \in Requests /\ Stationed(Ready(r)) /\ Taken(Ready(r), j)
           /\ Ready(r) = Idle \/ Ready(r).board = r.board
<1>1. CASE Ready(r) = Idle
      BY <1>1, IdleFits
<1>2. CASE Ready(r) # Idle
      <2>1. ~ Refused(r.op, r.x, r.snap)
            BY <1>2 DEF Ready
      <2>2. PICK s \in {"post", "put", "save"} :
               /\ Ready(r) = [r EXCEPT !.pc = s]
               /\ s = "post" <=> r.op = "resolve" /\ r.x \in r.snap.issues
               /\ s = "put" <=> r.op = "due"
            BY <1>2 DEF Ready
      <2>3. r \in Requests /\ r.snap \in Snapshots
            BY DEF Asking, Requests
      <2>4. Ready(r) \in Requests
            BY <2>2, <2>3 DEF Requests, Stages
      <2>5. s = "post" => r.x \in Open
            BY <2>2, <2>3 DEF Snapshots
      <2>6. s = "save" /\ r.op = "resolve" => r.x \notin Open
            BY <2>1, <2>2, <2>3, ScopeBoardAssumption DEF Refused, Snapshots
      <2>7. /\ Ready(r).pc = s /\ Ready(r).board = r.board /\ Ready(r).op = r.op /\ Ready(r).x = r.x
            /\ Ready(r).snap = r.snap /\ Ready(r).reg = r.reg
            BY <2>2, <2>3 DEF Requests
      <2>8. Stationed(Ready(r))
            BY <1>2, <2>2, <2>5, <2>7 DEF Stationed, Asking
      <2>9. Taken(Ready(r), j)
            BY <2>2, <2>6, <2>7 DEF Taken, Backed
      <2>10. QED
            BY <2>4, <2>7, <2>8, <2>9
<1>3. QED
      BY <1>1, <1>2

LEMMA ReadyHolds ==
    ASSUME NEW r \in Requests, NEW bd, NEW rg, NEW k, NEW j,
           ItemsOf(k, r.board) \subseteq r.snap.items,
           Told(rg, r.board) \/ QuestionsOf(k, r.board) \subseteq Asks(r.snap),
           r.op = "drop" => r.x \notin ItemsOf(k, r.board),
           r.op # "delete",
           r.op \in {"question", "resolve"} /\ r.board \in Release =>
              rg # NoQuestions \/ TeamQuestions(k) = {}
    PROVE  Holds(Ready(r), bd, rg, k, j)
<1>1. CASE Ready(r) = Idle
      BY <1>1, IdleFits
<1>2. CASE Ready(r) # Idle
      <2>1. PICK s \in {"post", "put", "save"} : Ready(r) = [r EXCEPT !.pc = s]
            BY <1>2 DEF Ready
      <2>2. /\ Ready(r).pc = s /\ Ready(r).board = r.board /\ Ready(r).op = r.op /\ Ready(r).x = r.x
            /\ Ready(r).snap = r.snap /\ Ready(r).reg = r.reg
            BY <2>1 DEF Requests
      <2>3. QED
            BY <2>2 DEF Holds
<1>3. QED
      BY <1>1, <1>2

\* ... once it holds the questions of the team.
LEMMA OverlaidFits ==
    ASSUME NEW r, NEW j, Asking(r), Backed(r, j)
    PROVE  /\ Overlaid(r) \in Requests /\ Stationed(Overlaid(r)) /\ Taken(Overlaid(r), j)
           /\ Overlaid(r) = Idle \/ Overlaid(r).board = r.board
<1> DEFINE s == Overlay(r.snap, r.reg, OpenIds(r.snap))
           n == [r EXCEPT !.snap = s]
<1>1. r \in Requests /\ r.snap \in Snapshots /\ r.reg \in Registries
      BY DEF Asking, Requests
<1>2. /\ s \in Snapshots /\ s.resolved = r.reg.resolved /\ s.items = r.snap.items
      /\ s.due = r.snap.due
      BY <1>1, OverlayFits, OpenIdsType
<1>3. /\ n \in Requests /\ n.snap = s /\ n.reg = r.reg /\ n.board = r.board /\ n.op = r.op
      /\ n.x = r.x
      BY <1>1, <1>2 DEF Requests
<1>4. Asking(n)
      BY <1>3 DEF Asking
<1>5. Backed(n, j)
      BY <1>2, <1>3 DEF Backed, TakenBy
<1>6. Overlaid(r) = Ready(n)
      BY DEF Overlaid
<1>7. QED
      BY <1>3, <1>4, <1>5, <1>6, ReadyFits


LEMMA LoadedFits ==
    ASSUME NEW r, NEW j, Asking(r), Backed(r, j), r.board \in Release, r.op \in AskingOps
    PROVE  /\ Loaded(r) \in Requests /\ Stationed(Loaded(r)) /\ Taken(Loaded(r), j)
           /\ Loaded(r) = Idle \/ Loaded(r).board = r.board
<1> DEFINE seen == Union(r.reg, Extract(r.snap))
           new  == Register(r.reg, OpenIds(r.snap))
<1>1. r \in Requests /\ r.snap \in Snapshots /\ r.reg \in Registries
      BY DEF Asking, Requests
<1>2. ASSUME NEW q \in Registries, q.resolved \cap Open \subseteq j.posted,
             Loaded(r) = [r EXCEPT !.reg = q, !.pc = "track"]
      PROVE  /\ Loaded(r) \in Requests /\ Stationed(Loaded(r)) /\ Taken(Loaded(r), j)
             /\ Loaded(r) = Idle \/ Loaded(r).board = r.board
      <2>1. /\ Loaded(r).pc = "track" /\ Loaded(r).board = r.board /\ Loaded(r).op = r.op
            /\ Loaded(r).x = r.x /\ Loaded(r).snap = r.snap /\ Loaded(r).reg = q
            BY <1>1, <1>2 DEF Requests
      <2>2. Loaded(r) \in Requests
            BY <1>1, <1>2 DEF Requests, Stages
      <2>3. Loaded(r) # Idle
            BY <2>1 DEF Idle
      <2>4. Stationed(Loaded(r))
            BY <2>1, <2>3 DEF Stationed, Asking
      <2>5. Taken(Loaded(r), j)
            BY <1>2, <2>1 DEF Taken, Backed
      <2>6. QED
            BY <2>1, <2>2, <2>4, <2>5
<1>3. CASE r.op = "refresh"
      <2>1. seen \in Registries /\ seen.resolved = r.reg.resolved \cup r.snap.resolved
            BY <1>1, UnionFits, ExtractFits
      <2>2. Register(seen, r.snap.issues) \in Registries
            /\ Register(seen, r.snap.issues).resolved = seen.resolved
            BY <1>1, <2>1, RegisterFits, OpenIdsType
      <2>3. Register(seen, r.snap.issues).resolved \cap Open \subseteq j.posted
            BY <2>1, <2>2 DEF Backed, TakenBy
      <2>4. Loaded(r) = [r EXCEPT !.reg = Register(seen, r.snap.issues), !.pc = "track"]
            BY <1>3 DEF Loaded
      <2>5. QED
            BY <1>2, <2>2, <2>3, <2>4
<1>4. CASE r.op # "refresh" /\ new # r.reg
      <2>1. new \in Registries /\ new.resolved = r.reg.resolved
            BY <1>1, RegisterFits, OpenIdsType
      <2>2. Loaded(r) = [r EXCEPT !.reg = new, !.pc = "track"]
            BY <1>4 DEF Loaded
      <2>3. QED
            BY <1>2, <2>1, <2>2 DEF Backed
<1>5. CASE r.op # "refresh" /\ new = r.reg
      <2>1. Loaded(r) = Overlaid(r)
            BY <1>5 DEF Loaded
      <2>2. QED
            BY <2>1, OverlaidFits
<1>6. QED
      BY <1>3, <1>4, <1>5

LEMMA OverlaidHolds ==
    ASSUME NEW r, NEW bd, NEW rg, NEW k, NEW j,
           Asking(r), r.board \in Release, r.op \in AskingOps,
           Extends(rg, r.reg), ItemsOf(k, r.board) \subseteq r.snap.items,
           rg # NoQuestions \/ TeamQuestions(k) = {}
    PROVE  Holds(Overlaid(r), bd, rg, k, j)
<1> DEFINE s == Overlay(r.snap, r.reg, OpenIds(r.snap))
           n == [r EXCEPT !.snap = s]
<1>1. r \in Requests /\ r.snap \in Snapshots /\ r.reg \in Registries
      BY DEF Asking, Requests
<1>2. Told(rg, r.board) \/ QuestionsOf(k, r.board) = {}
      BY DEF Told, TeamQuestions
<1>3. s \in Snapshots /\ s.items = r.snap.items
      BY <1>1, OverlayFits, OpenIdsType
<1>4. /\ n \in Requests /\ n.snap = s /\ n.board = r.board /\ n.op = r.op /\ n.x = r.x
      BY <1>1, <1>3 DEF Requests
<1>5. n.op \notin {"drop", "delete"}
      BY <1>4 DEF AskingOps
<1>6. Holds(Ready(n), bd, rg, k, j)
      BY <1>2, <1>3, <1>4, <1>5, ReadyHolds
<1>7. QED
      BY <1>6 DEF Overlaid

LEMMA LoadedHolds ==
    ASSUME NEW r, NEW bd, NEW rg \in Registries, NEW k, NEW j,
           Asking(r), r.board \in Release, r.op \in AskingOps,
           Extends(rg, r.reg), ItemsOf(k, r.board) \subseteq r.snap.items,
           rg # NoQuestions \/ TeamQuestions(k) = {}
    PROVE  Holds(Loaded(r), bd, rg, k, j)
<1> DEFINE seen == Union(r.reg, Extract(r.snap))
           new  == Register(r.reg, OpenIds(r.snap))
           s == Overlay(r.snap, r.reg, OpenIds(r.snap))
           n == [r EXCEPT !.snap = s]
<1>1. r \in Requests /\ r.snap \in Snapshots /\ r.reg \in Registries
      BY DEF Asking, Requests
<1>2. Told(rg, r.board) \/ QuestionsOf(k, r.board) = {}
      BY DEF Told, TeamQuestions
<1>3. ASSUME NEW q \in Registries, Extends(r.reg, q),
             Loaded(r) = [r EXCEPT !.reg = q, !.pc = "track"]
      PROVE  Holds(Loaded(r), bd, rg, k, j)
      <2>1. /\ Loaded(r).pc = "track" /\ Loaded(r).board = r.board /\ Loaded(r).op = r.op
            /\ Loaded(r).x = r.x /\ Loaded(r).snap = r.snap /\ Loaded(r).reg = q
            BY <1>1, <1>3 DEF Requests
      <2>2. Extends(rg, q)
            BY <1>3, ExtendsAgain
      <2>3. QED
            BY <1>2, <2>1, <2>2 DEF Holds, AskingOps
<1>4. CASE r.op = "refresh"
      <2>1. seen \in Registries /\ Extends(r.reg, seen)
            BY <1>1, UnionFits, ExtractFits
      <2>2. Register(seen, r.snap.issues) \in Registries
            /\ Extends(seen, Register(seen, r.snap.issues))
            BY <1>1, <2>1, RegisterFits, OpenIdsType
      <2>3. Extends(r.reg, Register(seen, r.snap.issues))
            BY <2>1, <2>2, ExtendsAgain
      <2>4. Loaded(r) = [r EXCEPT !.reg = Register(seen, r.snap.issues), !.pc = "track"]
            BY <1>4 DEF Loaded
      <2>5. QED
            BY <1>3, <2>2, <2>3, <2>4
<1>5. CASE r.op # "refresh" /\ new # r.reg
      <2>1. new \in Registries /\ Extends(r.reg, new)
            BY <1>1, RegisterFits, OpenIdsType
      <2>2. Loaded(r) = [r EXCEPT !.reg = new, !.pc = "track"]
            BY <1>5 DEF Loaded
      <2>3. QED
            BY <1>3, <2>1, <2>2
<1>6. CASE r.op # "refresh" /\ new = r.reg
      <2>1. Loaded(r) = Overlaid(r)
            BY <1>6 DEF Loaded
      <2>2. QED
            BY <2>1, OverlaidHolds
<1>7. QED
      BY <1>4, <1>5, <1>6

-----------------------------------------------------------------------------
(* What was confirmed.                                                     *)

\* A registry that has all that the one before has, or that the team was
\* promised, keeps what was promised.
LEMMA RegistryGrows ==
    ASSUME NEW bd, NEW rg \in Registries, NEW q \in Registries, NEW k,
           Promises(bd, rg, k), Extends(rg, q),
           rg # NoQuestions \/ TeamQuestions(k) \subseteq Asks(q)
    PROVE  Promises(bd, q, k) /\ (rg # NoQuestions => q # NoQuestions)
<1>1. q = NoQuestions => rg = NoQuestions
      BY ExtendsNothing
<1>2. ASSUME NEW b \in Boards
      PROVE  QuestionsOf(k, b) \subseteq Asks(IF Told(q, b) THEN q ELSE Showing(bd, b))
      <2>1. CASE Told(rg, b)
            BY <1>1, <2>1 DEF Promises, Told, Extends
      <2>2. CASE ~ Told(rg, b) /\ Told(q, b)
            <3>1. QuestionsOf(k, b) \subseteq TeamQuestions(k)
                  BY <2>2 DEF Told, TeamQuestions
            <3>2. TeamQuestions(k) \subseteq Asks(q)
                  BY <2>2 DEF Told
            <3>3. QED
                  BY <2>2, <3>1, <3>2
      <2>3. CASE ~ Told(rg, b) /\ ~ Told(q, b)
            BY <2>3 DEF Promises
      <2>4. QED
            BY <2>1, <2>2, <2>3
<1>3. QED
      BY <1>1, <1>2 DEF Promises

\* Less was promised.
LEMMA FewerPromises ==
    ASSUME NEW bd, NEW rg, NEW k, NEW l \in SUBSET k, Promises(bd, rg, k)
    PROVE  Promises(bd, rg, l)
BY DEF Promises, ItemsOf, QuestionsOf

LEMMA FewerHeld ==
    ASSUME NEW k, NEW l \in SUBSET k, NEW b
    PROVE  ItemsOf(l, b) \subseteq ItemsOf(k, b) /\ QuestionsOf(l, b) \subseteq QuestionsOf(k, b)
BY DEF ItemsOf, QuestionsOf

-----------------------------------------------------------------------------
(* One request moves.                                                      *)

LEMMA OneMoves ==
    ASSUME IInv, NEW h \in Handlers, NEW r \in Requests, Move(h, r), req[h] # Idle,
           Stationed(r), Taken(r, jira'), r = Idle \/ r.board = req[h].board,
           board' \in [Boards -> Snapshots \cup {None, Null}], registry' \in Registries,
           jira' \in [posted : SUBSET Open, due : SUBSET Queued, rank : [Queued -> Nat]],
           kept' \subseteq Boards \X (Manual \cup Items), UNCHANGED <<used, raced, begun>>,
           jira.posted \subseteq jira'.posted, jira.due \subseteq jira'.due,
           JiraFirst', registry'.resolved \cap Open \subseteq jira'.posted,
           \A b \in Boards : board'[b] # None => board[b] # None \/ b = req[h].board,
           \A p \in kept' : p \in kept \/ p[1] = req[h].board,
           ~ raced => Promises(board', registry', kept') /\ Holds(r, board', registry', kept', jira')
    PROVE  IInv'
<1>1. req' = [req EXCEPT ![h] = r] /\ req \in [Handlers -> Requests]
      BY DEF Move, IInv, TypeOK
<1>2. TypeOK'
      BY <1>1 DEF IInv, TypeOK
<1>3. ASSUME NEW g \in Handlers
      PROVE  Stationed(req'[g]) /\ Taken(req'[g], jira')
      BY <1>1 DEF IInv, AllTaken, Taken, TakenBy
<1>4. AllTaken'
      BY <1>3 DEF AllTaken
<1>5. req[h].board \in Boards /\ req[h].board \in used
      BY DEF IInv, Stationed, BoardsUsed, Idle
<1>6. BoardsUsed'
      <2>1. \A b \in Boards : board'[b] # None => b \in used
            BY <1>5 DEF IInv, BoardsUsed
      <2>2. \A p \in kept' : p[1] \in used
            BY <1>5 DEF IInv, BoardsUsed
      <2>3. \A g \in Handlers : req'[g] # Idle => req'[g].board \in used
            BY <1>1, <1>5 DEF IInv, BoardsUsed
      <2>4. QED
            BY <2>1, <2>2, <2>3 DEF BoardsUsed
<1>7. OneByOne'
      <2>1. SUFFICES ASSUME ~ raced
                     PROVE  /\ Alone' /\ Promises(board', registry', kept')
                            /\ \A g \in Handlers : Holds(req'[g], board', registry', kept', jira')
            BY DEF OneByOne
      <2>2. \A g \in Handlers : g # h => req[g] = Idle
            BY <2>1 DEF IInv, OneByOne, Alone
      <2>3. \A g \in Handlers : g # h => req'[g] = Idle
            BY <1>1, <2>2
      <2>4. Alone'
            BY <2>3 DEF Alone
      <2>5. \A g \in Handlers : Holds(req'[g], board', registry', kept', jira')
            BY <1>1, <2>1, <2>3, IdleFits
      <2>6. QED
            BY <2>1, <2>4, <2>5
<1>8. QED
      BY <1>2, <1>3, <1>4, <1>6, <1>7 DEF IInv

\* ... and of what was confirmed some is left out, at most.
LEMMA OneLeavesOut ==
    ASSUME IInv, NEW h \in Handlers, NEW r \in Requests, Move(h, r), req[h] # Idle,
           Stationed(r), Taken(r, jira), r = Idle \/ r.board = req[h].board,
           UNCHANGED <<board, registry, jira, used, raced, begun>>, kept' \subseteq kept,
           ~ raced => Holds(r, board, registry, kept', jira)
    PROVE  IInv'
<1>1. /\ board' = board /\ registry' = registry /\ jira' = jira
      /\ UNCHANGED <<used, raced, begun>>
      OBVIOUS
<1>2. JiraFirst'
      BY <1>1 DEF IInv, AllTaken, JiraFirst, Shown
<1>3. /\ board' \in [Boards -> Snapshots \cup {None, Null}] /\ registry' \in Registries
      /\ jira' \in [posted : SUBSET Open, due : SUBSET Queued, rank : [Queued -> Nat]]
      /\ kept' \subseteq Boards \X (Manual \cup Items)
      /\ registry'.resolved \cap Open \subseteq jira'.posted
      BY <1>1 DEF IInv, TypeOK, AllTaken
<1>4. ~ raced => Promises(board, registry, kept')
      BY FewerPromises DEF IInv, OneByOne
<1>5. ~ raced => Promises(board', registry', kept') /\ Holds(r, board', registry', kept', jira')
      BY <1>1, <1>4
<1>6. Taken(r, jira') /\ (\A p \in kept' : p \in kept)
      BY <1>1
<1>7. QED
      BY <1>1, <1>2, <1>3, <1>5, <1>6, OneMoves

\* ... and nothing else changes.
LEMMA OnlyMoves ==
    ASSUME IInv, NEW h \in Handlers, NEW r \in Requests, Move(h, r), req[h] # Idle,
           Stationed(r), Taken(r, jira), r = Idle \/ r.board = req[h].board,
           UNCHANGED <<board, registry, jira, kept, used, raced, begun>>,
           ~ raced => Holds(r, board, registry, kept, jira)
    PROVE  IInv'
<1>1. /\ board' = board /\ registry' = registry /\ jira' = jira /\ kept' = kept
      /\ UNCHANGED <<used, raced, begun>>
      OBVIOUS
<1>2. JiraFirst'
      BY <1>1 DEF IInv, AllTaken, JiraFirst, Shown
<1>3. /\ board' \in [Boards -> Snapshots \cup {None, Null}] /\ registry' \in Registries
      /\ jira' \in [posted : SUBSET Open, due : SUBSET Queued, rank : [Queued -> Nat]]
      /\ kept' \subseteq Boards \X (Manual \cup Items)
      /\ registry'.resolved \cap Open \subseteq jira'.posted
      BY <1>1 DEF IInv, TypeOK, AllTaken
<1>4. ~ raced => Promises(board', registry', kept') /\ Holds(r, board', registry', kept', jira')
      BY <1>1 DEF IInv, OneByOne
<1>5. Taken(r, jira')
      BY <1>1
<1>6. QED
      BY <1>1, <1>2, <1>3, <1>4, <1>5, OneMoves

\* The request ends without having changed anything.
LEMMA OnlyEnds ==
    ASSUME IInv, NEW h \in Handlers, Move(h, Idle), req[h] # Idle,
           UNCHANGED <<board, registry, jira, kept, used, raced, begun>>
    PROVE  IInv'
BY OnlyMoves, IdleFits

\* What is known of a request that is worked on.
LEMMA Working ==
    ASSUME IInv, NEW h \in Handlers, req[h].pc # "idle"
    PROVE  LET r == req[h]
           IN  /\ r \in Requests /\ r # Idle /\ Stationed(r) /\ Taken(r, jira) /\ Backed(r, jira)
               /\ r.board \in Boards /\ r.op \in Ops /\ Argument(r.op, r.x) /\ r.snap \in Snapshots
               /\ r.reg \in Registries /\ r.x \in Things
               /\ ~ raced => Holds(r, board, registry, kept, jira) /\ Promises(board, registry, kept)
<1> DEFINE r == req[h]
<1>1. r \in Requests
      BY DEF IInv, TypeOK
<1>2. Stationed(r) /\ Taken(r, jira)
      BY DEF IInv, AllTaken
<1>3. /\ r.board \in Boards /\ r.op \in Ops /\ Argument(r.op, r.x) /\ r # Idle
      BY <1>2 DEF Stationed
<1>4. r.snap \in Snapshots /\ r.reg \in Registries /\ r.x \in Things
      BY <1>1 DEF Requests
<1>5. ~ raced => Holds(r, board, registry, kept, jira) /\ Promises(board, registry, kept)
      BY DEF IInv, OneByOne
<1>6. Backed(r, jira)
      BY <1>2 DEF Taken, Backed
<1>7. QED
      BY <1>1, <1>2, <1>3, <1>4, <1>5, <1>6

\* What a request holds once it has read its board.
LEMMA HeldFits ==
    ASSUME IInv, NEW h \in Handlers, req[h].pc # "idle"
    PROVE  LET r == Held(h)
           IN  /\ r \in Requests /\ r.snap = Showing(board, req[h].board) /\ r.snap \in Snapshots
               /\ r.pc = req[h].pc /\ r.op = req[h].op /\ r.x = req[h].x /\ r.board = req[h].board
               /\ r.reg = req[h].reg /\ r.puts = req[h].puts /\ Backed(r, jira)
               /\ ~ raced => /\ ItemsOf(kept, r.board) \subseteq r.snap.items
                             /\ \/ Told(registry, r.board)
                                \/ QuestionsOf(kept, r.board) \subseteq Asks(r.snap)
<1> DEFINE s == Showing(board, req[h].board)
           r == [req[h] EXCEPT !.snap = s]
<1>1. /\ req[h] \in Requests /\ req[h].board \in Boards /\ Backed(req[h], jira)
      /\ ~ raced => Promises(board, registry, kept)
      BY Working
<1>2. s \in Snapshots /\ s = Shown(req[h].board)
      BY <1>1, ShowingType DEF IInv
<1>3. Held(h) = r
      BY DEF Held, Showing
<1>4. /\ r \in Requests /\ r.snap = s /\ r.pc = req[h].pc /\ r.op = req[h].op /\ r.x = req[h].x
      /\ r.board = req[h].board /\ r.reg = req[h].reg /\ r.puts = req[h].puts
      BY <1>1, <1>2 DEF Requests
<1>5. Backed(r, jira)
      BY <1>1, <1>2, <1>4 DEF IInv, AllTaken, JiraFirst, Backed, TakenBy
<1>6. ~ raced => /\ ItemsOf(kept, r.board) \subseteq s.items
                 /\ Told(registry, r.board) \/ QuestionsOf(kept, r.board) \subseteq Asks(s)
      BY <1>1, <1>4 DEF Promises
<1> HIDE DEF s, r
<1>7. QED
      BY <1>2, <1>3, <1>4, <1>5, <1>6 DEF s

-----------------------------------------------------------------------------
(* Steps.                                                                  *)

LEMMA GetKept ==
    ASSUME IInv, NEW h \in Handlers, Get(h)
    PROVE  IInv'
<1> DEFINE r == req[h]
           n == Held(h)
<1>1. /\ r.pc = "get" /\ r.op \notin {"create", "update"}
      /\ UNCHANGED <<board, registry, jira, kept, used, raced, begun>>
      BY DEF Get, At
<1>2. r # Idle /\ r.board \in Boards /\ r.op \in Ops /\ Argument(r.op, r.x)
      BY <1>1, Working
<1>3. /\ n \in Requests /\ n.snap \in Snapshots /\ n.pc = "get" /\ n.op = r.op /\ n.x = r.x
      /\ n.board = r.board /\ Backed(n, jira)
      /\ ~ raced => /\ ItemsOf(kept, n.board) \subseteq n.snap.items
                    /\ \/ Told(registry, n.board)
                       \/ QuestionsOf(kept, n.board) \subseteq Asks(n.snap)
      BY <1>1, HeldFits
<1>4. ~ raced => Holds(r, board, registry, kept, jira)
      BY <1>1, Working
<1> HIDE DEF n
<1>5. ASSUME NEW stage \in {"delete", "fetch", "questions"}, Move(h, [n EXCEPT !.pc = stage]),
             stage = "delete" => r.op = "delete", stage = "fetch" => r.op = "refresh",
             stage = "questions" => r.op \in AskingOps /\ r.board \in Release
      PROVE  IInv'
      <2> DEFINE m == [n EXCEPT !.pc = stage]
      <2>1. /\ m \in Requests /\ m.pc = stage /\ m.op = r.op /\ m.x = r.x /\ m.board = r.board
            /\ m.snap = n.snap /\ m.reg = n.reg
            BY <1>3 DEF Requests, Stages
      <2>2. m # Idle
            BY <2>1 DEF Idle
      <2> HIDE DEF m
      <2>3. Stationed(m)
            BY <1>2, <1>5, <2>1, <2>2 DEF Stationed
      <2>4. Taken(m, jira)
            BY <1>3, <2>1 DEF Taken, Backed
      <2>5. ~ raced => Holds(m, board, registry, kept, jira)
            BY <1>1, <1>3, <1>4, <1>5, <2>1 DEF Holds, AskingOps
      <2>6. Move(h, m)
            BY <1>5 DEF m
      <2>7. QED
            BY <1>1, <1>2, <2>1, <2>3, <2>4, <2>5, <2>6, OnlyMoves
<1>6. CASE Move(h, Idle)
      BY <1>1, <1>2, <1>6, OnlyEnds
<1>7. ASSUME Move(h, Ready(n)), r.op # "delete",
             r.op \in {"question", "resolve"} => r.board \notin Release
      PROVE  IInv'
      <2>1. Asking(n)
            BY <1>1, <1>2, <1>3 DEF Asking
      <2>2. /\ Ready(n) \in Requests /\ Stationed(Ready(n)) /\ Taken(Ready(n), jira)
            /\ Ready(n) = Idle \/ Ready(n).board = r.board
            BY <1>3, <2>1, ReadyFits
      <2>3. ~ raced => (n.op = "drop" => n.x \notin ItemsOf(kept, n.board))
            BY <1>1, <1>3, <1>4 DEF Holds
      <2>4. ~ raced => Holds(Ready(n), board, registry, kept, jira)
            BY <1>3, <1>7, <2>3, ReadyHolds
      <2>5. QED
            BY <1>1, <1>2, <1>7, <2>2, <2>4, OnlyMoves
<1>8. \/ Move(h, Idle)
      \/ r.op = "delete" /\ Move(h, [n EXCEPT !.pc = "delete"])
      \/ r.op = "refresh" /\ Move(h, [n EXCEPT !.pc = "fetch"])
      \/ r.op \in {"view", "question", "resolve"} /\ r.board \in Release
            /\ Move(h, [n EXCEPT !.pc = "questions"])
      \/ r.op # "delete" /\ (r.op \in {"question", "resolve"} => r.board \notin Release)
            /\ Move(h, Ready(n))
      BY DEF Get, n
<1>9. QED
      BY <1>5, <1>6, <1>7, <1>8 DEF AskingOps

LEMMA InsertKept ==
    ASSUME IInv, NEW h \in Handlers, Insert(h)
    PROVE  IInv'
<1> DEFINE r == req[h]
           m == IF r.board \in Release THEN [r EXCEPT !.pc = "questions"] ELSE Idle
<1>1. /\ r.pc = "get" /\ r.op = "create" /\ board' = [board EXCEPT ![r.board] = Null]
      /\ Move(h, m) /\ UNCHANGED <<registry, jira, kept, used, raced, begun>>
      BY DEF Insert, At
<1>2. /\ r \in Requests /\ r # Idle /\ Taken(r, jira) /\ r.board \in Boards /\ r.op \in Ops
      /\ Argument(r.op, r.x) /\ r.snap \in Snapshots
      /\ ~ raced => Holds(r, board, registry, kept, jira) /\ Promises(board, registry, kept)
      BY <1>1, Working
<1>3. board \in [Boards -> Snapshots \cup {None, Null}]
      BY DEF IInv, TypeOK
<1>4. /\ board' \in [Boards -> Snapshots \cup {None, Null}]
      /\ \A b \in Boards : board'[b] # None => board[b] # None \/ b = r.board
      BY <1>1, <1>2, <1>3
<1>5. \A b \in Boards : Showing(board', b) = IF b = r.board THEN Blank ELSE Showing(board, b)
      BY <1>1, <1>3 DEF Showing
<1>6. JiraFirst'
      BY <1>1, <1>5 DEF IInv, AllTaken, JiraFirst, Shown, Showing, Blank
<1>7. m \in Requests /\ Stationed(m) /\ Taken(m, jira) /\ (m = Idle \/ m.board = r.board)
      <2>1. CASE r.board \notin Release
            BY <2>1, IdleFits
      <2>2. CASE r.board \in Release
            <3>1. /\ m \in Requests /\ m.pc = "questions" /\ m.op = r.op /\ m.x = r.x
                  /\ m.board = r.board /\ m.snap = r.snap /\ m.reg = r.reg
                  BY <1>2, <2>2 DEF Requests, Stages
            <3>2. m # Idle
                  BY <3>1 DEF Idle
            <3> HIDE DEF m
            <3>3. Stationed(m)
                  BY <1>1, <1>2, <2>2, <3>1, <3>2 DEF Stationed, AskingOps
            <3>4. Taken(m, jira)
                  BY <1>2, <3>1 DEF Taken
            <3>5. QED
                  BY <3>1, <3>3, <3>4
      <2>3. QED
            BY <2>1, <2>2
<1>8. ASSUME ~ raced
      PROVE  Promises(board', registry, kept) /\ Holds(m, board', registry, kept, jira)
      <2>1. ItemsOf(kept, r.board) = {} /\ QuestionsOf(kept, r.board) = {}
            BY <1>1, <1>2, <1>8 DEF Holds
      <2>2. Promises(board', registry, kept)
            BY <1>2, <1>5, <1>8, <2>1 DEF Promises
      <2>3. CASE m = Idle
            BY <2>2, <2>3, IdleFits
      <2>4. CASE m = [r EXCEPT !.pc = "questions"]
            <3>1. m.pc = "questions" /\ m.op = "create" /\ m.board = r.board
                  BY <1>1, <1>2, <2>4 DEF Requests
            <3> HIDE DEF m
            <3>2. Holds(m, board', registry, kept, jira)
                  BY <2>1, <3>1 DEF Holds
            <3>3. QED
                  BY <2>2, <3>2
      <2>5. QED
            BY <2>3, <2>4
<1> HIDE DEF m
<1>9. /\ registry' = registry /\ jira' = jira /\ kept' = kept /\ registry \in Registries
      /\ jira \in [posted : SUBSET Open, due : SUBSET Queued, rank : [Queued -> Nat]]
      /\ kept \subseteq Boards \X (Manual \cup Items)
      /\ registry.resolved \cap Open \subseteq jira.posted
      BY <1>1 DEF IInv, TypeOK, AllTaken
<1>10. QED
      BY <1>1, <1>2, <1>4, <1>6, <1>7, <1>8, <1>9, OneMoves

LEMMA UpdateColumnsKept ==
    ASSUME IInv, NEW h \in Handlers, UpdateColumns(h)
    PROVE  IInv'
<1> DEFINE r == req[h]
           n == Held(h)
<1>1. /\ r.pc = "get" /\ r.op = "update" /\ (Move(h, Idle) \/ Move(h, Ready(n)))
      /\ UNCHANGED <<board, registry, jira, kept, used, raced, begun>>
      BY DEF UpdateColumns, At
<1>2. r # Idle /\ r.board \in Boards /\ r.op \in Ops /\ Argument(r.op, r.x)
      BY <1>1, Working
<1>3. /\ n \in Requests /\ n.op = r.op /\ n.x = r.x /\ n.board = r.board /\ Backed(n, jira)
      /\ ~ raced => /\ ItemsOf(kept, n.board) \subseteq n.snap.items
                    /\ \/ Told(registry, n.board)
                       \/ QuestionsOf(kept, n.board) \subseteq Asks(n.snap)
      BY <1>1, HeldFits
<1> HIDE DEF n
<1>4. Asking(n)
      BY <1>1, <1>2, <1>3 DEF Asking
<1>5. /\ Ready(n) \in Requests /\ Stationed(Ready(n)) /\ Taken(Ready(n), jira)
      /\ Ready(n) = Idle \/ Ready(n).board = r.board
      BY <1>3, <1>4, ReadyFits
<1>6. ~ raced => Holds(Ready(n), board, registry, kept, jira)
      BY <1>1, <1>3, ReadyHolds
<1>7. CASE Move(h, Idle)
      BY <1>1, <1>2, <1>7, OnlyEnds
<1>8. CASE Move(h, Ready(n))
      BY <1>1, <1>2, <1>5, <1>6, <1>8, OnlyMoves
<1>9. QED
      BY <1>1, <1>7, <1>8

\* A fetch keeps what users put into the snapshot before.
LEMMA RefreshedFits ==
    ASSUME TypeOK, NEW s \in Snapshots, NEW issues \in SUBSET Open, NEW pool \in SUBSET Queued,
           NEW ranked \in Orders, TakenBy(s, jira)
    PROVE  LET n == Refreshed(s, issues, pool, ranked)
           IN  /\ n \in Snapshots /\ n.items = s.items /\ Asks(n) = Asks(s) /\ TakenBy(n, jira)
<1>1. jira.due \subseteq Queued
      BY DEF TypeOK
<1>2. QED
      BY <1>1 DEF Refreshed, Snapshots, Asks, TakenBy

LEMMA FetchKept ==
    ASSUME IInv, NEW h \in Handlers, NEW issues \in SUBSET Open, NEW pool \in SUBSET Queued,
           NEW failed, Fetch(h, issues, pool, failed)
    PROVE  IInv'
<1> DEFINE r == req[h]
<1>1. r.pc = "fetch" /\ UNCHANGED <<board, registry, jira, kept, used, raced, begun>>
      BY DEF Fetch, At
<1>2. /\ r \in Requests /\ r # Idle /\ Stationed(r) /\ Backed(r, jira) /\ r.board \in Boards
      /\ r.op \in Ops /\ Argument(r.op, r.x) /\ r.snap \in Snapshots
      /\ ~ raced => Holds(r, board, registry, kept, jira)
      BY <1>1, Working
<1>3. r.op = "refresh"
      BY <1>1, <1>2 DEF Stationed
<1>4. CASE Move(h, Idle)
      BY <1>1, <1>2, <1>4, OnlyEnds
<1>5. ASSUME NEW s \in Snapshots, s.items = r.snap.items, Asks(s) = Asks(r.snap), TakenBy(s, jira),
             NEW stage \in {"questions", "save"}, stage = "questions" => r.board \in Release,
             NEW f \in BOOLEAN, Move(h, [r EXCEPT !.failed = f, !.pc = stage, !.snap = s])
      PROVE  IInv'
      <2> DEFINE m == [r EXCEPT !.failed = f, !.pc = stage, !.snap = s]
      <2>1. /\ m \in Requests /\ m.pc = stage /\ m.op = r.op /\ m.x = r.x /\ m.board = r.board
            /\ m.snap = s /\ m.reg = r.reg
            BY <1>2 DEF Requests, Stages
      <2>2. m # Idle
            BY <2>1 DEF Idle
      <2> HIDE DEF m
      <2>3. Stationed(m)
            BY <1>2, <1>3, <1>5, <2>1, <2>2 DEF Stationed, AskingOps
      <2>4. Taken(m, jira)
            BY <1>2, <1>3, <1>5, <2>1 DEF Taken, Backed
      <2>5. ~ raced => Holds(m, board, registry, kept, jira)
            BY <1>1, <1>2, <1>3, <1>5, <2>1 DEF Holds
      <2>6. Move(h, m)
            BY <1>5 DEF m
      <2>7. QED
            BY <1>1, <1>2, <2>1, <2>3, <2>4, <2>5, <2>6, OnlyMoves
<1>6. ASSUME NEW ranked \in RankedOf(r.snap.ranked, pool), NEW s, NEW new,
             s = Refreshed(r.snap, issues, pool, ranked), new = [r EXCEPT !.failed = failed # {}],
             Move(h, IF r.board \in Release THEN [new EXCEPT !.pc = "questions", !.snap = s]
                     ELSE [new EXCEPT !.pc = "save", !.snap = [s EXCEPT !.meta = {}]])
      PROVE  IInv'
      <2>1. ranked \in Orders
            BY DEF RankedOf
      <2>2. s \in Snapshots /\ s.items = r.snap.items /\ Asks(s) = Asks(r.snap) /\ TakenBy(s, jira)
            BY <1>2, <1>6, <2>1, RefreshedFits DEF IInv, Backed
      <2> DEFINE t == [s EXCEPT !.meta = {}]
                 f == failed # {}
      <2>3. t \in Snapshots /\ t.items = r.snap.items /\ Asks(t) = Asks(r.snap) /\ TakenBy(t, jira)
            BY <2>2 DEF Snapshots, Asks, TakenBy
      <2>4. f \in BOOLEAN
            OBVIOUS
      <2>5. new = [r EXCEPT !.failed = f]
            BY <1>6
      <2> HIDE DEF f
      <2>6. CASE r.board \in Release
            <3>1. [new EXCEPT !.pc = "questions", !.snap = s]
                  = [r EXCEPT !.failed = f, !.pc = "questions", !.snap = s]
                  BY <1>2, <2>5 DEF Requests
            <3>2. QED
                  BY <1>5, <1>6, <2>2, <2>4, <2>6, <3>1
      <2>7. CASE r.board \notin Release
            <3>1. [new EXCEPT !.pc = "save", !.snap = t]
                  = [r EXCEPT !.failed = f, !.pc = "save", !.snap = t]
                  BY <1>2, <2>5 DEF Requests
            <3>2. QED
                  BY <1>5, <1>6, <2>3, <2>4, <2>7, <3>1
      <2>8. QED
            BY <2>6, <2>7
<1>7. QED
      BY <1>4, <1>6 DEF Fetch

LEMMA QuestionsKept ==
    ASSUME IInv, NEW h \in Handlers, Questions(h)
    PROVE  IInv'
<1> DEFINE r == req[h]
           n == [r EXCEPT !.reg = registry]
<1>1. /\ r.pc = "questions" /\ UNCHANGED <<board, registry, jira, kept, used, raced, begun>>
      /\ Move(h, IF registry = NoQuestions THEN [r EXCEPT !.pc = "backfill"] ELSE Loaded(n))
      BY DEF Questions, At
<1>2. /\ r \in Requests /\ r # Idle /\ Stationed(r) /\ Taken(r, jira) /\ Backed(r, jira)
      /\ r.board \in Boards /\ r.op \in Ops /\ Argument(r.op, r.x) /\ r.snap \in Snapshots
      /\ ~ raced => Holds(r, board, registry, kept, jira)
      BY <1>1, Working
<1>3. r.board \in Release /\ r.op \in AskingOps
      BY <1>1, <1>2 DEF Stationed
<1>4. registry \in Registries /\ registry.resolved \cap Open \subseteq jira.posted
      BY DEF IInv, TypeOK, AllTaken
<1>5. CASE registry = NoQuestions
      <2> DEFINE m == [r EXCEPT !.pc = "backfill"]
      <2>1. /\ m \in Requests /\ m.pc = "backfill" /\ m.op = r.op /\ m.x = r.x
            /\ m.board = r.board /\ m.snap = r.snap /\ m.reg = r.reg
            BY <1>2 DEF Requests, Stages
      <2>2. m # Idle
            BY <2>1 DEF Idle
      <2>3. Move(h, m)
            BY <1>1, <1>5
      <2> HIDE DEF m
      <2>4. Stationed(m)
            BY <1>2, <1>3, <2>1, <2>2 DEF Stationed
      <2>5. Taken(m, jira)
            BY <1>2, <2>1 DEF Taken
      <2>6. ~ raced => Holds(m, board, registry, kept, jira)
            BY <1>1, <1>2, <1>3, <1>5, <2>1 DEF Holds, AskingOps
      <2>7. QED
            BY <1>1, <1>2, <2>1, <2>3, <2>4, <2>5, <2>6, OnlyMoves
<1>6. CASE registry # NoQuestions
      <2>1. /\ n \in Requests /\ n.op = r.op /\ n.x = r.x /\ n.board = r.board
            /\ n.snap = r.snap /\ n.reg = registry
            BY <1>2, <1>4 DEF Requests
      <2>2. Move(h, Loaded(n))
            BY <1>1, <1>6
      <2> HIDE DEF n
      <2>3. Asking(n) /\ Backed(n, jira)
            BY <1>2, <1>3, <1>4, <2>1 DEF Asking, Backed
      <2>4. /\ Loaded(n) \in Requests /\ Stationed(Loaded(n)) /\ Taken(Loaded(n), jira)
            /\ Loaded(n) = Idle \/ Loaded(n).board = r.board
            BY <1>3, <2>1, <2>3, LoadedFits
      <2>5. ASSUME ~ raced
            PROVE  Holds(Loaded(n), board, registry, kept, jira)
            <3>1. ItemsOf(kept, n.board) \subseteq n.snap.items
                  BY <1>1, <1>2, <2>1, <2>5 DEF Holds
            <3>2. Extends(registry, n.reg)
                  BY <2>1, ExtendsItself
            <3>3. QED
                  BY <1>3, <1>4, <1>6, <2>1, <2>3, <3>1, <3>2, LoadedHolds
      <2>6. QED
            BY <1>1, <1>2, <2>2, <2>4, <2>5, OnlyMoves
<1>7. QED
      BY <1>5, <1>6

LEMMA BackfillKept ==
    ASSUME IInv, NEW h \in Handlers, Backfill(h)
    PROVE  IInv'
<1> DEFINE r == req[h]
<1>1. r.pc = "backfill" /\ UNCHANGED <<board, registry, jira, used, raced, begun>>
      BY DEF Backfill, At
<1>2. PICK read \in LastUpdated :
         /\ Move(h, IF Backfilled(read) = NoQuestions THEN Loaded(r)
                    ELSE [r EXCEPT !.reg = Backfilled(read), !.pc = "seed"])
         /\ LeaveOut(read)
      BY DEF Backfill
<1> DEFINE q == Backfilled(read)
<1>3. /\ r \in Requests /\ r # Idle /\ Stationed(r) /\ Taken(r, jira) /\ Backed(r, jira)
      /\ r.board \in Boards /\ r.op \in Ops /\ Argument(r.op, r.x) /\ r.snap \in Snapshots
      /\ r.reg \in Registries
      /\ ~ raced => Holds(r, board, registry, kept, jira) /\ Promises(board, registry, kept)
      BY <1>1, Working
<1>4. r.board \in Release /\ r.op \in AskingOps
      BY <1>1, <1>3 DEF Stationed
<1>5. /\ q \in Registries /\ \A b \in read : Asks(Showing(board, b)) \subseteq Asks(q)
      /\ q.resolved \cap Open \subseteq jira.posted
      BY BackfilledFits DEF IInv, AllTaken
<1> HIDE DEF q
<1>6. /\ kept' \subseteq kept
      /\ \A b \in Release : HeldOf(b) /\ b \notin read => QuestionsOf(kept', b) = {}
      BY <1>2 DEF LeaveOut, QuestionsOf
<1>7. \A b \in Boards : /\ ItemsOf(kept', b) \subseteq ItemsOf(kept, b)
                        /\ QuestionsOf(kept', b) \subseteq QuestionsOf(kept, b)
      BY <1>6, FewerHeld
<1>8. ~ raced => registry = NoQuestions /\ TeamQuestions(kept') \subseteq Asks(q)
      <2>1. SUFFICES ASSUME ~ raced
                     PROVE  registry = NoQuestions /\ TeamQuestions(kept') \subseteq Asks(q)
            OBVIOUS
      <2>2. registry = NoQuestions
            BY <1>1, <1>3, <2>1 DEF Holds
      <2>3. ASSUME NEW b \in Release
            PROVE  QuestionsOf(kept', b) \subseteq Asks(q)
            <3>1. b \in Boards
                  BY ScopeBoardAssumption
            <3>2. QuestionsOf(kept', b) \subseteq Asks(Showing(board, b))
                  BY <1>3, <1>7, <2>1, <2>2, <3>1 DEF Promises, Told
            <3>3. CASE HeldOf(b)
                  BY <1>5, <1>6, <3>2, <3>3
            <3>4. CASE ~ HeldOf(b)
                  BY <3>2, <3>4 DEF HeldOf, Showing, Asks, Blank
            <3>5. QED
                  BY <3>3, <3>4
      <2>4. QED
            BY <2>2, <2>3 DEF TeamQuestions
<1>9. ASSUME ~ raced
      PROVE  /\ Holds(r, board, registry, kept, jira) /\ ItemsOf(kept', r.board) \subseteq r.snap.items
             /\ Told(registry, r.board) \/ QuestionsOf(kept', r.board) \subseteq Asks(r.snap)
      BY <1>1, <1>3, <1>7, <1>9 DEF Holds
<1>10. CASE q = NoQuestions
      <2>1. Asking(r)
            BY <1>3, <1>4 DEF Asking
      <2>2. /\ Loaded(r) \in Requests /\ Stationed(Loaded(r)) /\ Taken(Loaded(r), jira)
            /\ Loaded(r) = Idle \/ Loaded(r).board = r.board
            BY <1>3, <1>4, <2>1, LoadedFits
      <2>3. ASSUME ~ raced
            PROVE  Holds(Loaded(r), board, registry, kept', jira)
            <3>1. TeamQuestions(kept') = {}
                  BY <1>8, <1>10, <2>3, NothingAsked
            <3>2. registry \in Registries /\ Extends(registry, r.reg)
                  BY <1>3, <1>8, <2>3, ExtendsNothing, NothingAsked
            <3>3. QED
                  BY <1>4, <1>9, <2>1, <2>3, <3>1, <3>2, LoadedHolds
      <2>4. Move(h, Loaded(r))
            BY <1>2, <1>10 DEF q
      <2>5. QED
            BY <1>1, <1>3, <1>6, <2>2, <2>3, <2>4, OneLeavesOut
<1>11. CASE q # NoQuestions
      <2> DEFINE m == [r EXCEPT !.reg = q, !.pc = "seed"]
      <2>1. /\ m \in Requests /\ m.pc = "seed" /\ m.op = r.op /\ m.x = r.x
            /\ m.board = r.board /\ m.snap = r.snap /\ m.reg = q
            BY <1>3, <1>5 DEF Requests, Stages
      <2>2. m # Idle
            BY <2>1 DEF Idle
      <2>3. Move(h, m)
            BY <1>2, <1>11 DEF q
      <2> HIDE DEF m
      <2>4. Stationed(m)
            BY <1>3, <1>4, <2>1, <2>2 DEF Stationed
      <2>5. Taken(m, jira)
            BY <1>3, <1>5, <2>1 DEF Taken
      <2>6. ASSUME ~ raced
            PROVE  Holds(m, board, registry, kept', jira)
            <3>1. Extends(registry, q)
                  BY <1>5, <1>8, <2>6, ExtendsNothing
            <3>2. QED
                  BY <1>4, <1>8, <1>9, <2>1, <2>6, <3>1 DEF Holds, AskingOps
      <2>7. QED
            BY <1>1, <1>3, <1>6, <2>1, <2>3, <2>4, <2>5, <2>6, OneLeavesOut
<1>12. QED
      BY <1>10, <1>11

\* The questions a request holds become those of the team.
LEMMA RegistryWritten ==
    ASSUME IInv, NEW h \in Handlers, NEW r \in Requests, Move(h, r), req[h].pc # "idle",
           registry' = req[h].reg, UNCHANGED <<board, jira, kept, used, raced, begun>>,
           Stationed(r), Taken(r, jira), r = Idle \/ r.board = req[h].board,
           ~ raced => /\ Promises(board, req[h].reg, kept)
                      /\ Holds(r, board, req[h].reg, kept, jira)
    PROVE  IInv'
<1>1. req[h] # Idle /\ req[h].reg \in Registries /\ Backed(req[h], jira)
      BY Working
<1>2. /\ board' = board /\ jira' = jira /\ kept' = kept /\ UNCHANGED <<used, raced, begun>>
      OBVIOUS
<1>3. JiraFirst'
      BY <1>2 DEF IInv, AllTaken, JiraFirst, Shown
<1>4. /\ board' \in [Boards -> Snapshots \cup {None, Null}] /\ registry' \in Registries
      /\ jira' \in [posted : SUBSET Open, due : SUBSET Queued, rank : [Queued -> Nat]]
      /\ kept' \subseteq Boards \X (Manual \cup Items)
      /\ registry'.resolved \cap Open \subseteq jira'.posted
      BY <1>1, <1>2 DEF IInv, TypeOK, Backed
<1>5. ~ raced => Promises(board', registry', kept') /\ Holds(r, board', registry', kept', jira')
      BY <1>2
<1>6. Taken(r, jira')
      BY <1>2
<1>7. QED
      BY <1>1, <1>2, <1>3, <1>4, <1>5, <1>6, OneMoves

LEMMA SeedKept ==
    ASSUME IInv, NEW h \in Handlers, Seed(h)
    PROVE  IInv'
<1> DEFINE r == req[h]
<1>1. /\ r.pc = "seed" /\ registry' = r.reg /\ Move(h, Loaded(r))
      /\ UNCHANGED <<board, jira, kept, used, raced, begun>>
      BY DEF Seed, At
<1>2. /\ r \in Requests /\ r # Idle /\ Stationed(r) /\ Backed(r, jira)
      /\ r.board \in Boards /\ r.op \in Ops /\ Argument(r.op, r.x) /\ r.reg \in Registries
      /\ ~ raced => Holds(r, board, registry, kept, jira) /\ Promises(board, registry, kept)
      BY <1>1, Working
<1>3. r.board \in Release /\ r.op \in AskingOps
      BY <1>1, <1>2 DEF Stationed
<1>4. Asking(r)
      BY <1>2, <1>3 DEF Asking
<1>5. /\ Loaded(r) \in Requests /\ Stationed(Loaded(r)) /\ Taken(Loaded(r), jira)
      /\ Loaded(r) = Idle \/ Loaded(r).board = r.board
      BY <1>2, <1>3, <1>4, LoadedFits
<1>6. ASSUME ~ raced
      PROVE  Promises(board, r.reg, kept) /\ Holds(Loaded(r), board, r.reg, kept, jira)
      <2>1. /\ Extends(registry, r.reg) /\ TeamQuestions(kept) \subseteq Asks(r.reg)
            /\ ItemsOf(kept, r.board) \subseteq r.snap.items
            BY <1>1, <1>2, <1>6 DEF Holds
      <2>2. Promises(board, r.reg, kept)
            BY <1>2, <1>6, <2>1, RegistryGrows DEF IInv, TypeOK
      <2>3. r.reg # NoQuestions \/ TeamQuestions(kept) = {}
            BY <2>1, NothingAsked
      <2>4. Holds(Loaded(r), board, r.reg, kept, jira)
            BY <1>2, <1>3, <1>4, <2>1, <2>3, LoadedHolds, ExtendsItself
      <2>5. QED
            BY <2>2, <2>4
<1>7. QED
      BY <1>1, <1>2, <1>5, <1>6, RegistryWritten

LEMMA TrackKept ==
    ASSUME IInv, NEW h \in Handlers, Track(h)
    PROVE  IInv'
<1> DEFINE r == req[h]
           t == [r.snap EXCEPT !.meta = {}]
           s == Overlay(t, r.reg, r.snap.issues)
           m == [r EXCEPT !.pc = "save", !.snap = s]
<1>1. /\ r.pc = "track" /\ registry' = r.reg
      /\ Move(h, IF r.op = "refresh"
                 THEN [r EXCEPT !.pc = "save", !.snap = Overlay([@ EXCEPT !.meta = {}], registry', @.issues)]
                 ELSE Overlaid(r))
      /\ UNCHANGED <<board, jira, kept, used, raced, begun>>
      BY DEF Track, At
<1>2. /\ r \in Requests /\ r # Idle /\ Stationed(r) /\ Backed(r, jira)
      /\ r.board \in Boards /\ r.op \in Ops /\ Argument(r.op, r.x) /\ r.reg \in Registries
      /\ r.snap \in Snapshots
      /\ ~ raced => Holds(r, board, registry, kept, jira) /\ Promises(board, registry, kept)
      BY <1>1, Working
<1>3. r.board \in Release /\ r.op \in AskingOps
      BY <1>1, <1>2 DEF Stationed
<1>4. ASSUME ~ raced
      PROVE  /\ Promises(board, r.reg, kept) /\ ItemsOf(kept, r.board) \subseteq r.snap.items
             /\ r.reg # NoQuestions \/ TeamQuestions(kept) = {}
      <2>1. /\ Extends(registry, r.reg) /\ ItemsOf(kept, r.board) \subseteq r.snap.items
            /\ registry # NoQuestions \/ TeamQuestions(kept) = {}
            BY <1>1, <1>2, <1>4 DEF Holds
      <2>2. /\ Promises(board, r.reg, kept)
            /\ registry # NoQuestions => r.reg # NoQuestions
            BY <1>2, <1>4, <2>1, RegistryGrows DEF IInv, TypeOK
      <2>3. QED
            BY <2>1, <2>2
<1>5. CASE r.op = "refresh"
      <2>1. Move(h, m)
            BY <1>1, <1>5
      <2>2. t \in Snapshots /\ t.items = r.snap.items /\ t.due = r.snap.due
            BY <1>2 DEF Snapshots
      <2>3. /\ s \in Snapshots /\ s.resolved = r.reg.resolved /\ s.items = r.snap.items
            /\ s.due = r.snap.due
            <3> HIDE DEF t
            <3>1. r.snap.issues \in SUBSET Open /\ r.reg \in Registries
                  BY <1>2, OpenIdsType
            <3>2. /\ s \in Snapshots /\ s.resolved = r.reg.resolved /\ s.items = t.items
                  /\ s.due = t.due
                  BY <2>2, <3>1, OverlayFits
            <3>3. QED
                  BY <2>2, <3>2
      <2>4. /\ m \in Requests /\ m.pc = "save" /\ m.op = r.op /\ m.x = r.x
            /\ m.board = r.board /\ m.snap = s /\ m.reg = r.reg
            <3> HIDE DEF s
            <3>1. QED
                  BY <1>2, <2>3 DEF Requests, Stages
      <2>5. Asks(s) = Asks(r.reg)
            BY <1>2, <2>2 DEF Asks, Overlay, Snapshots
      <2>6. m # Idle
            BY <2>4 DEF Idle
      <2> HIDE DEF m, s, t
      <2>7. Stationed(m)
            BY <1>2, <1>3, <1>5, <2>4, <2>6 DEF Stationed
      <2>8. Taken(m, jira)
            BY <1>2, <1>5, <2>3, <2>4 DEF Taken, Backed, TakenBy
      <2>9. ASSUME ~ raced
            PROVE  Holds(m, board, r.reg, kept, jira)
            <3>1. Told(r.reg, r.board) \/ QuestionsOf(kept, r.board) = {}
                  BY <1>3, <1>4, <2>9 DEF Told, TeamQuestions
            <3>2. QED
                  BY <1>4, <1>5, <2>3, <2>4, <2>9, <3>1 DEF Holds
      <2>10. QED
            BY <1>1, <1>2, <1>4, <2>1, <2>4, <2>7, <2>8, <2>9, RegistryWritten
<1>6. CASE r.op # "refresh"
      <2>1. Asking(r) /\ Move(h, Overlaid(r))
            BY <1>1, <1>2, <1>3, <1>6 DEF Asking
      <2>2. /\ Overlaid(r) \in Requests /\ Stationed(Overlaid(r)) /\ Taken(Overlaid(r), jira)
            /\ Overlaid(r) = Idle \/ Overlaid(r).board = r.board
            BY <1>2, <2>1, OverlaidFits
      <2>3. ~ raced => Holds(Overlaid(r), board, r.reg, kept, jira)
            BY <1>3, <1>4, <2>1, OverlaidHolds, ExtendsItself
      <2>4. QED
            BY <1>1, <1>2, <1>4, <2>1, <2>2, <2>3, RegistryWritten
<1>7. QED
      BY <1>5, <1>6

\* Jira takes what it is asked, or does not.
LEMMA PostKept ==
    ASSUME IInv, NEW h \in Handlers, NEW ok \in BOOLEAN, Post(h, ok) \/ Put(h, ok)
    PROVE  IInv'
<1> DEFINE r == req[h]
           m == [r EXCEPT !.pc = "save"]
<1>1. /\ r.pc \in {"post", "put"} /\ UNCHANGED <<board, registry, kept, used, raced, begun>>
      /\ Move(h, IF ok THEN m ELSE Idle)
      /\ ok /\ r.pc = "post" => jira' = [jira EXCEPT !.posted = @ \cup {r.x}]
      /\ ok /\ r.pc = "put" => jira' = [jira EXCEPT !.due = @ \cup {r.x}]
      /\ ~ ok => jira' = jira
      BY DEF Post, Put, At
<1>2. /\ r \in Requests /\ r # Idle /\ Stationed(r) /\ Taken(r, jira) /\ Backed(r, jira)
      /\ r.board \in Boards /\ r.op \in Ops /\ Argument(r.op, r.x)
      /\ ~ raced => Holds(r, board, registry, kept, jira) /\ Promises(board, registry, kept)
      BY <1>1, Working
<1>3. /\ r.pc = "post" => r.op = "resolve" /\ r.x \in Open
      /\ r.pc = "put" => r.op = "due" /\ r.x \in Queued
      BY <1>1, <1>2 DEF Stationed, Argument
<1>4. CASE ~ ok
      BY <1>1, <1>2, <1>4, OnlyEnds
<1>5. CASE ok
      <2>1. /\ m \in Requests /\ m.pc = "save" /\ m.op = r.op /\ m.x = r.x
            /\ m.board = r.board /\ m.snap = r.snap /\ m.reg = r.reg
            BY <1>2 DEF Requests, Stages
      <2>2. m # Idle
            BY <2>1 DEF Idle
      <2>3. Move(h, m)
            BY <1>1, <1>5
      <2> HIDE DEF m
      <2>4. Stationed(m)
            BY <1>1, <1>2, <1>3, <2>1, <2>2 DEF Stationed
      <2>5. /\ jira' \in [posted : SUBSET Open, due : SUBSET Queued, rank : [Queued -> Nat]]
            /\ jira.posted \subseteq jira'.posted /\ jira.due \subseteq jira'.due
            /\ r.pc = "post" => r.x \in jira'.posted
            /\ r.pc = "put" => r.x \in jira'.due
            BY <1>1, <1>3, <1>5 DEF IInv, TypeOK
      <2>6. Taken(m, jira')
            BY <1>1, <1>2, <1>3, <2>1, <2>5 DEF Taken, TakenBy
      <2>7. /\ JiraFirst' /\ registry' = registry /\ kept' = kept /\ board' = board
            /\ registry'.resolved \cap Open \subseteq jira'.posted
            BY <1>1, <2>5 DEF IInv, AllTaken, JiraFirst, Shown
      <2>8. ~ raced => Holds(m, board, registry, kept, jira')
            BY <1>1, <1>2, <1>3, <2>1 DEF Holds
      <2>9. /\ board' \in [Boards -> Snapshots \cup {None, Null}] /\ registry' \in Registries
            /\ kept' \subseteq Boards \X (Manual \cup Items)
            BY <2>7 DEF IInv, TypeOK
      <2>10. QED
            BY <1>1, <1>2, <2>1, <2>3, <2>4, <2>5, <2>6, <2>7, <2>8, <2>9, OneMoves
<1>6. QED
      BY <1>4, <1>5

\* The significances of an order, as they are handed to Jira.
LEMMA PutsFit ==
    ASSUME NEW op \in {"reorder", "reset"}, NEW x, Argument(op, x), NEW s \in Snapshots,
           NEW puts \in Puts(op, x, s), NEW t \in Edited(op, x, s)
    PROVE  LET order == t.ranked
           IN  /\ puts \in Seq(Queued \X Nat)
               /\ \A i \in DOMAIN order :
                     /\ \E n \in DOMAIN puts : puts[n] = <<order[i], i>>
                     /\ \A n \in DOMAIN puts : puts[n][1] = order[i] => puts[n][2] = i
<1> DEFINE order == IF op = "reorder" THEN x ELSE <<>>
<1>1. order \in Orders /\ t.ranked = order
      BY EmptyOrder DEF Argument, Edited, WithOrder, Snapshots
<1>2. PICK lost \in RankedOf(s.ranked, Queued \ Ranks(order)) :
         puts = [i \in DOMAIN order |-> <<order[i], i>>] \o [i \in DOMAIN lost |-> <<lost[i], 0>>]
      BY DEF Puts
<1> HIDE DEF order
<1>3. lost \in Orders /\ \A i \in DOMAIN lost : lost[i] \in Queued \ Ranks(order)
      BY DEF RankedOf, Ranks
<1>4. ASSUME NEW o \in Orders
      PROVE  o \in Seq(Queued) /\ \A i, j \in DOMAIN o : o[i] = o[j] => i = j
      <2>1. PICK n \in 0..Cardinality(Queued) : o \in [1..n -> Queued]
            BY DEF Orders
      <2>2. n \in Nat
            BY ScopeBoardAssumption, FS_CardinalityType
      <2>3. o \in Seq(Queued)
            BY <2>1, <2>2
      <2>4. QED
            BY <2>3 DEF Orders
<1> DEFINE new == [i \in DOMAIN order |-> <<order[i], i>>]
           old == [i \in DOMAIN lost |-> <<lost[i], 0>>]
<1>5. order \in Seq(Queued) /\ lost \in Seq(Queued)
      BY <1>1, <1>3, <1>4
<1>6. /\ new \in Seq(Queued \X Nat) /\ Len(new) = Len(order)
      /\ old \in Seq(Queued \X Nat) /\ Len(old) = Len(lost)
      <2>1. Len(order) \in Nat /\ DOMAIN order = 1..Len(order) /\ Len(lost) \in Nat /\ DOMAIN lost = 1..Len(lost)
            BY <1>5
      <2>2. \A i \in 1..Len(order) : order[i] \in Queued /\ i \in Nat
            BY <1>5
      <2>3. \A i \in 1..Len(lost) : lost[i] \in Queued
            BY <1>5
      <2>4. new \in Seq(Queued \X Nat) /\ Len(new) = Len(order)
            BY <2>1, <2>2
      <2>5. old \in Seq(Queued \X Nat) /\ Len(old) = Len(lost)
            BY <2>1, <2>3
      <2>6. QED
            BY <2>4, <2>5
<1>7. puts = new \o old
      BY <1>2
<1>8. \A i \in 1..Len(order) : new[i] = <<order[i], i>>
      BY <1>5
<1>9. \A i \in 1..Len(lost) : old[i] = <<lost[i], 0>>
      BY <1>5
<1> HIDE DEF new, old
<1>10. /\ puts \in Seq(Queued \X Nat) /\ Len(puts) = Len(order) + Len(lost)
       /\ \A n \in 1..Len(order) : puts[n] = new[n]
       /\ \A n \in (Len(order) + 1)..Len(puts) :
             puts[n] = old[n - Len(order)] /\ n - Len(order) \in 1..Len(lost)
       <2>1. puts \in Seq(Queued \X Nat) /\ Len(puts) = Len(new) + Len(old)
             BY <1>6, <1>7
       <2>2. \A n \in 1..Len(new) : puts[n] = new[n]
             BY <1>6, <1>7
       <2>3. \A n \in (Len(new) + 1)..(Len(new) + Len(old)) : puts[n] = old[n - Len(new)]
             BY <1>6, <1>7
       <2>4. Len(new) \in Nat /\ Len(old) \in Nat
             BY <1>6
       <2>5. QED
             BY <1>6, <2>1, <2>2, <2>3, <2>4
<1>11. ASSUME NEW i \in 1..Len(order)
       PROVE  /\ \E n \in DOMAIN puts : puts[n] = <<order[i], i>>
              /\ \A n \in DOMAIN puts : puts[n][1] = order[i] => puts[n][2] = i
       <2>1. i \in DOMAIN puts /\ puts[i] = <<order[i], i>>
             BY <1>5, <1>8, <1>10
       <2>2. ASSUME NEW n \in 1..Len(order), puts[n][1] = order[i]
             PROVE  puts[n][2] = i
             <3>1. puts[n] = <<order[n], n>>
                   BY <1>8, <1>10
             <3>2. order[n] = order[i]
                   BY <2>2, <3>1
             <3>3. n \in DOMAIN order /\ i \in DOMAIN order
                   BY <1>5
             <3>4. n = i
                   BY <1>1, <3>2, <3>3, Zenon DEF Orders
             <3>5. QED
                   BY <3>1, <3>4
       <2>3. ASSUME NEW n \in (Len(order) + 1)..Len(puts), puts[n][1] = order[i]
             PROVE  FALSE
             <3>1. PICK m \in 1..Len(lost) : puts[n] = old[m]
                   BY <1>10
             <3>2. puts[n] = <<lost[m], 0>> /\ m \in DOMAIN lost
                   BY <1>5, <1>9, <3>1
             <3>3. lost[m] = order[i]
                   BY <2>3, <3>2
             <3>4. i \in DOMAIN order
                   BY <1>5
             <3>5. order[i] \in Ranks(order)
                   BY <3>4 DEF Ranks
             <3>6. QED
                   BY <1>3, <3>2, <3>3, <3>5
       <2>4. \A n \in DOMAIN puts : n \in 1..Len(order) \/ n \in (Len(order) + 1)..Len(puts)
             BY <1>5, <1>10
       <2>5. QED
             BY <2>1, <2>2, <2>3, <2>4
<1>12. DOMAIN order = 1..Len(order)
       BY <1>5
<1>13. QED
       BY <1>1, <1>10, <1>11, <1>12

LEMMA ConfirmedFits ==
    ASSUME NEW r, kept \subseteq Boards \X (Manual \cup Items), r.board \in Boards,
           Argument(r.op, r.x)
    PROVE  /\ Confirmed(r) \subseteq Boards \X (Manual \cup Items)
           /\ \A p \in Confirmed(r) : p \in kept \/ p[1] = r.board
           /\ \A b \in Boards : b # r.board => /\ ItemsOf(Confirmed(r), b) = ItemsOf(kept, b)
                                               /\ QuestionsOf(Confirmed(r), b) = QuestionsOf(kept, b)
           /\ ItemsOf(Confirmed(r), r.board) = IF r.op \in {"add", "remark"}
                 THEN ItemsOf(kept, r.board) \cup {r.x} ELSE ItemsOf(kept, r.board)
           /\ QuestionsOf(Confirmed(r), r.board) = IF r.op = "question"
                 THEN QuestionsOf(kept, r.board) \cup {r.x} ELSE QuestionsOf(kept, r.board)
<1>1. CASE r.op \notin {"question", "add", "remark"}
      BY <1>1 DEF Confirmed
<1>2. CASE r.op \in {"question", "add", "remark"}
      <2>1. Confirmed(r) = kept \cup {<<r.board, r.x>>}
            BY <1>2 DEF Confirmed
      <2>2. /\ r.op = "question" => r.x \in Manual /\ r.x \notin Items
            /\ r.op # "question" => r.x \in Items /\ r.x \notin Manual
            BY <1>2, ScopeBoardAssumption DEF Argument
      <2>3. QED
            BY <1>2, <2>1, <2>2 DEF ItemsOf, QuestionsOf
<1>3. QED
      BY <1>1, <1>2

LEMMA SaveKept ==
    ASSUME IInv, NEW h \in Handlers, Save(h)
    PROVE  IInv'
<1> DEFINE r == req[h]
           next == CASE r.op \in {"question", "resolve"} /\ r.board \in Release -> "sync"
                     [] r.op = "create" -> "questions"
                     [] r.op \in {"comment", "note"} -> "comment"
                     [] r.op \in {"reorder", "reset"} -> "places"
                     [] OTHER -> "idle"
<1>1. r.pc = "save" /\ UNCHANGED <<registry, jira, used, raced, begun>>
      BY DEF Save, At
<1>2. PICK s \in Edited(r.op, r.x, r.snap) :
         LET saved == [r EXCEPT !.snap = s, !.pc = next]
         IN  \/ board[r.board] = None /\ Move(h, Idle) /\ UNCHANGED <<board, kept>>
             \/ /\ board' = [board EXCEPT ![r.board] = s]
                /\ kept' = (IF next = "idle" THEN Confirmed(r) ELSE kept) \ CutOff(r, s)
                /\ \/ next = "idle" /\ Move(h, Idle)
                   \/ next = "questions" /\ Move(h, [saved EXCEPT !.op = "view"])
                   \/ next = "places" /\ \E puts \in Puts(r.op, r.x, r.snap) :
                                             Move(h, [saved EXCEPT !.puts = puts])
                   \/ next \in {"sync", "comment"} /\ Move(h, saved)
      BY DEF Save
<1> DEFINE saved == [r EXCEPT !.snap = s, !.pc = next]
           cut == CutOff(r, s)
<1>3. /\ r \in Requests /\ r # Idle /\ Stationed(r) /\ Taken(r, jira) /\ Backed(r, jira)
      /\ r.board \in Boards /\ r.op \in Ops /\ Argument(r.op, r.x) /\ r.snap \in Snapshots
      /\ ~ raced => Holds(r, board, registry, kept, jira) /\ Promises(board, registry, kept)
      BY <1>1, Working
<1>4. /\ next \in {"sync", "questions", "comment", "places", "idle"}
      /\ next = "sync" <=> r.op \in {"question", "resolve"} /\ r.board \in Release
      /\ next = "questions" <=> r.op = "create"
      /\ next = "comment" <=> r.op \in {"comment", "note"}
      /\ next = "places" <=> r.op \in {"reorder", "reset"}
      OBVIOUS
<1> HIDE DEF next
<1>5. /\ s \in Snapshots /\ (r.op # "drop" => r.snap.items \subseteq s.items)
      /\ r.snap.items \ {r.x} \subseteq s.items
      /\ r.op \in {"add", "remark"} => r.x \in s.items
      /\ Asks(r.snap) \ (r.snap.resolved \ s.resolved) \subseteq Asks(s)
      /\ r.op # "resolve" => r.snap.resolved \subseteq s.resolved
      /\ r.op = "question" => r.x \in Asks(s)
      BY <1>3, EditedFits
<1>6. TakenBy(s, jira)
      BY <1>1, <1>3, EditedTaken DEF Taken
<1>7. r.op # "resolve" \/ r.board \in Release => cut = {}
      BY <1>5 DEF CutOff
<1>8. \A k : QuestionsOf(k \ cut, r.board) =
                  QuestionsOf(k, r.board) \ (IF r.board \in Release THEN {} ELSE r.snap.resolved \ s.resolved)
      BY DEF QuestionsOf, CutOff
<1> HIDE DEF cut
<1>9. CASE board[r.board] = None /\ Move(h, Idle) /\ UNCHANGED <<board, kept>>
      BY <1>1, <1>3, <1>9, OnlyEnds
<1>10. CASE /\ board' = [board EXCEPT ![r.board] = s]
            /\ kept' = (IF next = "idle" THEN Confirmed(r) ELSE kept) \ cut
            /\ \/ next = "idle" /\ Move(h, Idle)
               \/ next = "questions" /\ Move(h, [saved EXCEPT !.op = "view"])
               \/ next = "places"
                     /\ \E puts \in Puts(r.op, r.x, r.snap) : Move(h, [saved EXCEPT !.puts = puts])
               \/ next \in {"sync", "comment"} /\ Move(h, saved)
      <2>1. board \in [Boards -> Snapshots \cup {None, Null}] /\ s \notin {None, Null}
            BY <1>5, ScopeBoardAssumption DEF IInv, TypeOK
      <2>2. /\ board' \in [Boards -> Snapshots \cup {None, Null}]
            /\ \A b \in Boards : board'[b] # None => board[b] # None \/ b = r.board
            BY <1>3, <1>5, <1>10, <2>1
      <2>3. \A b \in Boards : Showing(board', b) = IF b = r.board THEN s ELSE Showing(board, b)
            BY <1>10, <2>1 DEF Showing
      <2>4. JiraFirst'
            BY <1>1, <1>6, <2>3 DEF IInv, AllTaken, JiraFirst, Shown, Showing, TakenBy
      <2>5. /\ registry' = registry /\ jira' = jira /\ registry \in Registries
            /\ jira \in [posted : SUBSET Open, due : SUBSET Queued, rank : [Queued -> Nat]]
            /\ kept \subseteq Boards \X (Manual \cup Items)
            /\ registry.resolved \cap Open \subseteq jira.posted
            BY <1>1 DEF IInv, TypeOK, AllTaken
      <2>6. ASSUME ~ raced
            PROVE  /\ ItemsOf(kept \ cut, r.board) \subseteq s.items
                   /\ Told(registry, r.board) \/ QuestionsOf(kept \ cut, r.board) \subseteq Asks(s)
                   /\ Promises(board', registry, kept \ cut)
            <3>1. /\ ItemsOf(kept, r.board) \subseteq r.snap.items
                  /\ Told(registry, r.board) \/ QuestionsOf(kept, r.board) \subseteq Asks(r.snap)
                  /\ r.op = "drop" => r.x \notin ItemsOf(kept, r.board)
                  /\ r.op = "resolve" /\ r.board \in Release =>
                        registry # NoQuestions \/ TeamQuestions(kept) = {}
                  BY <1>1, <1>3, <2>6 DEF Holds
            <3>2. /\ ItemsOf(kept \ cut, r.board) \subseteq ItemsOf(kept, r.board)
                  /\ QuestionsOf(kept \ cut, r.board) \subseteq QuestionsOf(kept, r.board)
                  BY FewerHeld
            <3>3. ItemsOf(kept \ cut, r.board) \subseteq s.items
                  BY <1>5, <3>1, <3>2
            <3>4. Told(registry, r.board) \/ QuestionsOf(kept \ cut, r.board) \subseteq Asks(s)
                  <4>1. CASE r.op = "resolve" /\ r.board \in Release
                        BY <3>1, <3>2, <4>1 DEF Told, TeamQuestions
                  <4>2. CASE r.op = "resolve" /\ r.board \notin Release
                        BY <1>5, <1>8, <3>1, <4>2
                  <4>3. CASE r.op # "resolve"
                        BY <1>5, <3>1, <3>2, <4>3
                  <4>4. QED
                        BY <4>1, <4>2, <4>3
            <3>5. Promises(board, registry, kept \ cut)
                  BY <1>3, <2>6, FewerPromises
            <3>6. Promises(board', registry, kept \ cut)
                  BY <2>3, <3>3, <3>4, <3>5 DEF Promises
            <3>7. QED
                  BY <3>3, <3>4, <3>6
      <2>7. CASE next = "idle" /\ r.op = "resolve"
            <3>1. Move(h, Idle) /\ kept' = kept \ cut
                  BY <1>10, <2>7 DEF Confirmed
            <3>2. /\ kept' \subseteq Boards \X (Manual \cup Items)
                  /\ \A p \in kept' : p \in kept
                  BY <2>5, <3>1
            <3>3. ~ raced => Promises(board', registry, kept')
                  BY <2>6, <3>1
            <3>4. QED
                  BY <1>1, <1>3, <2>2, <2>4, <2>5, <3>1, <3>2, <3>3, IdleFits, OneMoves
      <2>8. CASE next = "idle" /\ r.op # "resolve"
            <3>1. Move(h, Idle) /\ kept' = Confirmed(r) /\ kept \ cut = kept
                  BY <1>10, <1>7, <2>8
            <3>2. /\ kept' \subseteq Boards \X (Manual \cup Items)
                  /\ \A p \in kept' : p \in kept \/ p[1] = r.board
                  BY <1>3, <2>5, <3>1, ConfirmedFits
            <3>3. ASSUME ~ raced
                  PROVE  Promises(board', registry, kept')
                  <4>1. /\ ItemsOf(kept', r.board) \subseteq s.items
                        /\ Told(registry, r.board) \/ QuestionsOf(kept', r.board) \subseteq Asks(s)
                        /\ Told(registry, r.board) => QuestionsOf(kept', r.board) = QuestionsOf(kept, r.board)
                        <5>1. /\ ItemsOf(kept', r.board) = IF r.op \in {"add", "remark"}
                                    THEN ItemsOf(kept, r.board) \cup {r.x} ELSE ItemsOf(kept, r.board)
                              /\ QuestionsOf(kept', r.board) = IF r.op = "question"
                                    THEN QuestionsOf(kept, r.board) \cup {r.x} ELSE QuestionsOf(kept, r.board)
                              BY <1>3, <2>5, <3>1, ConfirmedFits
                        <5>2. r.op = "question" => ~ Told(registry, r.board)
                              BY <1>4, <2>8 DEF Told
                        <5>3. ItemsOf(kept', r.board) \subseteq s.items
                              BY <1>5, <2>6, <3>1, <3>3, <5>1
                        <5>4. QED
                              BY <1>5, <2>6, <3>1, <3>3, <5>1, <5>2, <5>3
                  <4>2. \A b \in Boards : b # r.board =>
                           ItemsOf(kept', b) = ItemsOf(kept, b) /\ QuestionsOf(kept', b) = QuestionsOf(kept, b)
                        BY <1>3, <2>5, <3>1, ConfirmedFits
                  <4>3. QED
                        BY <2>3, <2>6, <3>1, <3>3, <4>1, <4>2 DEF Promises
            <3>4. QED
                  BY <1>1, <1>3, <2>2, <2>4, <2>5, <3>1, <3>2, <3>3, IdleFits, OneMoves
      <2>9. ASSUME next # "idle", NEW m \in Requests, Move(h, m), m.pc = next,
                   m.op = r.op \/ (next = "questions" /\ m.op = "view"),
                   m.x = r.x, m.board = r.board, m.snap = s, m.reg = r.reg,
                   ~ raced /\ next = "places" => Placing(m, board', jira)
            PROVE  IInv'
            <3>1. kept' = kept /\ kept \ cut = kept
                  BY <1>4, <1>10, <1>7, <2>9
            <3>2. m # Idle /\ m.pc # "idle"
                  BY <2>9 DEF Idle
            <3>3. Stationed(m)
                  <4>1. CASE m.op = r.op
                        BY <1>1, <1>3, <1>4, <2>9, <3>2, <4>1 DEF Stationed, AskingOps
                  <4>2. CASE next = "questions" /\ m.op = "view"
                        BY <1>1, <1>3, <1>4, <2>9, <3>2, <4>2 DEF Stationed, AskingOps, Argument, Ops
                  <4>3. QED
                        BY <2>9, <4>1, <4>2
            <3>4. Taken(m, jira)
                  BY <1>3, <1>4, <1>6, <2>9 DEF Taken, Backed
            <3>5. ~ raced => Holds(m, board', registry, kept, jira)
                  BY <1>1, <1>3, <1>4, <1>5, <2>6, <2>9, <3>1 DEF Holds
            <3>6. QED
                  BY <1>1, <1>3, <2>2, <2>4, <2>5, <2>6, <2>9, <3>1, <3>3, <3>4, <3>5, OneMoves
      <2>10. /\ saved \in Requests /\ saved.pc = next /\ saved.op = r.op /\ saved.x = r.x
            /\ saved.board = r.board /\ saved.snap = s /\ saved.reg = r.reg /\ saved.failed = r.failed
            BY <1>3, <1>4, <1>5 DEF Requests, Stages
      <2> HIDE DEF saved
      <2>11. CASE next = "questions" /\ Move(h, [saved EXCEPT !.op = "view"])
            <3> DEFINE m == [saved EXCEPT !.op = "view"]
            <3>1. /\ m \in Requests /\ m.pc = next /\ m.op = "view" /\ m.x = r.x
                  /\ m.board = r.board /\ m.snap = s /\ m.reg = r.reg
                  BY <2>10 DEF Requests, Ops
            <3> HIDE DEF m
            <3>2. Move(h, m)
                  BY <2>11 DEF m
            <3>3. QED
                  BY <2>9, <2>11, <3>1, <3>2
      <2>12. CASE next = "places"
                  /\ \E puts \in Puts(r.op, r.x, r.snap) : Move(h, [saved EXCEPT !.puts = puts])
            <3>1. PICK puts \in Puts(r.op, r.x, r.snap) : Move(h, [saved EXCEPT !.puts = puts])
                  BY <2>12
            <3>2. /\ puts \in Seq(Queued \X Nat)
                  /\ \A i \in DOMAIN s.ranked :
                        /\ \E n \in DOMAIN puts : puts[n] = <<s.ranked[i], i>>
                        /\ \A n \in DOMAIN puts : puts[n][1] = s.ranked[i] => puts[n][2] = i
                  <4>1. /\ r.op \in {"reorder", "reset"} /\ Argument(r.op, r.x)
                        /\ r.snap \in Snapshots /\ s \in Edited(r.op, r.x, r.snap)
                        BY <1>2, <1>3, <1>4, <2>12
                  <4>2. QED
                        BY <3>1, <4>1, PutsFit
            <3> DEFINE m == [saved EXCEPT !.puts = puts]
            <3>3. /\ m \in Requests /\ m.pc = next /\ m.op = r.op /\ m.x = r.x
                  /\ m.board = r.board /\ m.snap = s /\ m.reg = r.reg /\ m.puts = puts
                  BY <2>10, <3>2 DEF Requests
            <3> HIDE DEF m
            <3>4. Move(h, m)
                  BY <3>1 DEF m
            <3>5. Placing(m, board', jira)
                  BY <1>3, <2>3, <3>2, <3>3 DEF Placing
            <3>6. QED
                  BY <2>9, <2>12, <3>3, <3>4, <3>5
      <2>13. CASE next \in {"sync", "comment"} /\ Move(h, saved)
            BY <2>9, <2>10, <2>13
      <2>14. QED
            BY <1>10, <2>8, <2>11, <2>12, <2>13, <2>7
<1>11. QED
      BY <1>2, <1>9, <1>10 DEF cut

LEMMA SyncKept ==
    ASSUME IInv, NEW h \in Handlers, Sync(h)
    PROVE  IInv'
<1> DEFINE r == req[h]
           q == Union(registry, Extract(r.snap))
           m == [r EXCEPT !.reg = q, !.pc = "synced"]
<1>1. /\ r.pc = "sync" /\ UNCHANGED <<board, registry, jira, kept, used, raced, begun>>
      /\ Move(h, m)
      BY DEF Sync, At
<1>2. /\ r \in Requests /\ r # Idle /\ Stationed(r) /\ Taken(r, jira) /\ Backed(r, jira)
      /\ r.board \in Boards /\ r.op \in Ops /\ Argument(r.op, r.x) /\ r.snap \in Snapshots
      /\ ~ raced => Holds(r, board, registry, kept, jira)
      BY <1>1, Working
<1>3. r.board \in Release /\ r.op \in {"question", "resolve"}
      BY <1>1, <1>2 DEF Stationed
<1>4. registry \in Registries /\ registry.resolved \cap Open \subseteq jira.posted
      BY DEF IInv, TypeOK, AllTaken
<1>5. /\ q \in Registries /\ Asks(q) = Asks(registry) \cup Asks(r.snap) /\ Extends(registry, q)
      /\ q.resolved = registry.resolved \cup r.snap.resolved
      BY <1>2, <1>4, UnionFits, ExtractFits
<1> HIDE DEF q
<1>6. /\ m \in Requests /\ m.pc = "synced" /\ m.op = r.op /\ m.x = r.x
      /\ m.board = r.board /\ m.snap = r.snap /\ m.reg = q
      BY <1>2, <1>5 DEF Requests, Stages
<1>7. m # Idle
      BY <1>6 DEF Idle
<1> HIDE DEF m
<1>8. Stationed(m)
      BY <1>2, <1>3, <1>6, <1>7 DEF Stationed
<1>9. Taken(m, jira)
      BY <1>2, <1>4, <1>5, <1>6 DEF Taken, Backed, TakenBy
<1>10. ~ raced => Holds(m, board, registry, kept, jira)
       BY <1>1, <1>2, <1>3, <1>5, <1>6 DEF Holds
<1>11. QED
       BY <1>1, <1>2, <1>6, <1>8, <1>9, <1>10, OnlyMoves

LEMMA SyncedKept ==
    ASSUME IInv, NEW h \in Handlers, Synced(h)
    PROVE  IInv'
<1> DEFINE r == req[h]
<1>1. /\ r.pc = "synced" /\ registry' = r.reg /\ kept' = Confirmed(r) /\ Move(h, Idle)
      /\ UNCHANGED <<board, jira, used, raced, begun>>
      BY DEF Synced, At
<1>2. /\ r \in Requests /\ r # Idle /\ Stationed(r) /\ Backed(r, jira)
      /\ r.board \in Boards /\ r.op \in Ops /\ Argument(r.op, r.x) /\ r.reg \in Registries
      /\ ~ raced => Holds(r, board, registry, kept, jira) /\ Promises(board, registry, kept)
      BY <1>1, Working
<1>3. r.board \in Release /\ r.op \in {"question", "resolve"}
      BY <1>1, <1>2 DEF Stationed
<1>4. /\ board' = board /\ jira' = jira
      /\ board \in [Boards -> Snapshots \cup {None, Null}] /\ registry \in Registries
      /\ jira \in [posted : SUBSET Open, due : SUBSET Queued, rank : [Queued -> Nat]]
      /\ kept \subseteq Boards \X (Manual \cup Items)
      BY <1>1 DEF IInv, TypeOK
<1>5. JiraFirst'
      BY <1>4 DEF IInv, AllTaken, JiraFirst, Shown
<1>6. /\ kept' \subseteq Boards \X (Manual \cup Items)
      /\ \A p \in kept' : p \in kept \/ p[1] = r.board
      BY <1>1, <1>2, <1>4, ConfirmedFits
<1>7. ASSUME ~ raced
      PROVE  Promises(board, r.reg, kept')
      <2>1. /\ Extends(registry, r.reg) /\ (r.op = "question" => r.x \in Asks(r.reg))
            /\ registry # NoQuestions \/ TeamQuestions(kept) = {}
            BY <1>1, <1>2, <1>7 DEF Holds
      <2>2. Promises(board, r.reg, kept)
            BY <1>2, <1>4, <1>7, <2>1, RegistryGrows
      <2>3. ASSUME NEW b \in Boards, b # r.board
            PROVE  /\ ItemsOf(kept', b) \subseteq Showing(board, b).items
                   /\ QuestionsOf(kept', b)
                         \subseteq Asks(IF Told(r.reg, b) THEN r.reg ELSE Showing(board, b))
            <3>1. ItemsOf(kept', b) = ItemsOf(kept, b) /\ QuestionsOf(kept', b) = QuestionsOf(kept, b)
                  BY <1>1, <1>2, <1>4, <2>3, ConfirmedFits
            <3>2. QED
                  BY <2>2, <3>1 DEF Promises
      <2>4. /\ ItemsOf(kept', r.board) = ItemsOf(kept, r.board)
            /\ QuestionsOf(kept', r.board) = IF r.op = "question"
                  THEN QuestionsOf(kept, r.board) \cup {r.x} ELSE QuestionsOf(kept, r.board)
            BY <1>1, <1>2, <1>3, <1>4, ConfirmedFits
      <2>5. r.op = "question" => Told(r.reg, r.board)
            BY <1>3, <2>1, NothingAsked DEF Told
      <2>6. /\ ItemsOf(kept, r.board) \subseteq Showing(board, r.board).items
            /\ QuestionsOf(kept, r.board)
                  \subseteq Asks(IF Told(r.reg, r.board) THEN r.reg ELSE Showing(board, r.board))
            BY <1>2, <2>2 DEF Promises
      <2>7. /\ ItemsOf(kept', r.board) \subseteq Showing(board, r.board).items
            /\ QuestionsOf(kept', r.board)
                  \subseteq Asks(IF Told(r.reg, r.board) THEN r.reg ELSE Showing(board, r.board))
            BY <2>1, <2>4, <2>5, <2>6
      <2>8. QED
            BY <2>3, <2>7 DEF Promises
<1>8. registry' \in Registries /\ registry'.resolved \cap Open \subseteq jira'.posted
      BY <1>1, <1>2, <1>4 DEF Backed
<1>9. QED
      BY <1>1, <1>2, <1>4, <1>5, <1>6, <1>7, <1>8, IdleFits, OneMoves

\* A significance is taken or not; when not, the answer says so.
LEMMA PlaceKept ==
    ASSUME IInv, NEW h \in Handlers, NEW ok \in BOOLEAN, Place(h, ok)
    PROVE  IInv'
<1> DEFINE r == req[h]
           p == Head(r.puts)
           m == [r EXCEPT !.puts = Tail(r.puts), !.failed = r.failed \/ ~ ok]
<1>1. /\ r.pc = "places" /\ r.puts # <<>> /\ Move(h, m)
      /\ jira' = IF ok THEN [jira EXCEPT !.rank[p[1]] = p[2]] ELSE jira
      /\ UNCHANGED <<board, registry, kept, used, raced, begun>>
      BY DEF Place, At
<1>2. /\ r \in Requests /\ r # Idle /\ Stationed(r) /\ Taken(r, jira) /\ Backed(r, jira)
      /\ r.board \in Boards /\ r.op \in Ops /\ Argument(r.op, r.x) /\ r.snap \in Snapshots
      /\ ~ raced => Holds(r, board, registry, kept, jira) /\ Promises(board, registry, kept)
      BY <1>1, Working
<1>3. r.puts \in Seq(Queued \X Nat)
      BY <1>2 DEF Requests
<1>4. /\ p \in Queued \X Nat /\ Tail(r.puts) \in Seq(Queued \X Nat) /\ p = r.puts[1]
      /\ 1 \in DOMAIN r.puts /\ DOMAIN Tail(r.puts) = 1..(Len(r.puts) - 1)
      /\ DOMAIN r.puts = 1..Len(r.puts) /\ Len(r.puts) \in Nat
      /\ \A n \in DOMAIN Tail(r.puts) : n + 1 \in DOMAIN r.puts /\ Tail(r.puts)[n] = r.puts[n + 1]
      <2> DEFINE puts == r.puts
                 rest == Tail(puts)
      <2>1. puts \in Seq(Queued \X Nat) /\ puts # <<>>
            BY <1>1, <1>3
      <2> HIDE DEF puts
      <2>2. p = puts[1]
            BY <2>1 DEF puts
      <2>3. DOMAIN puts = 1..Len(puts) /\ Len(puts) \in Nat
            BY <2>1
      <2>4. Len(puts) # 0
            BY <2>1
      <2>5. puts[1] \in Queued \X Nat /\ 1 \in DOMAIN puts
            BY <2>1, <2>3, <2>4
      <2>6. /\ rest \in Seq(Queued \X Nat) /\ Len(rest) = Len(puts) - 1
            /\ \A n \in 1..Len(rest) : rest[n] = puts[n + 1]
            BY <2>1, HeadTailProperties
      <2> HIDE DEF rest
      <2>7. DOMAIN rest = 1..(Len(puts) - 1)
            BY <2>6
      <2>8. \A n \in DOMAIN rest : n + 1 \in DOMAIN puts /\ rest[n] = puts[n + 1]
            BY <2>3, <2>6, <2>7
      <2>9. QED
            BY <2>2, <2>3, <2>5, <2>6, <2>7, <2>8 DEF puts, rest
<1> DEFINE f == r.failed \/ ~ ok
<1>5. f \in BOOLEAN
      OBVIOUS
<1>6. /\ m \in Requests /\ m.pc = "places" /\ m.op = r.op /\ m.x = r.x /\ m.board = r.board
      /\ m.snap = r.snap /\ m.reg = r.reg /\ m.puts = Tail(r.puts) /\ m.failed = f
      <2> HIDE DEF f
      <2>1. m = [r EXCEPT !.puts = Tail(r.puts), !.failed = f]
            BY DEF f
      <2>2. QED
            BY <1>1, <1>2, <1>4, <1>5, <2>1 DEF Requests
<1>7. m # Idle
      BY <1>6 DEF Idle
<1> HIDE DEF m
<1>8. Stationed(m)
      BY <1>1, <1>2, <1>6, <1>7 DEF Stationed
<1>9. Taken(m, jira)
      BY <1>2, <1>6 DEF Taken, Backed
<1>10. /\ jira \in [posted : SUBSET Open, due : SUBSET Queued, rank : [Queued -> Nat]]
       /\ board \in [Boards -> Snapshots \cup {None, Null}] /\ registry \in Registries
       /\ kept \subseteq Boards \X (Manual \cup Items)
       BY DEF IInv, TypeOK
<1>11. /\ jira' \in [posted : SUBSET Open, due : SUBSET Queued, rank : [Queued -> Nat]]
       /\ jira'.posted = jira.posted /\ jira'.due = jira.due
       /\ ok => \A k \in Queued : jira'.rank[k] = IF k = p[1] THEN p[2] ELSE jira.rank[k]
       <2>1. p[1] \in Queued /\ p[2] \in Nat
             BY <1>4
       <2>2. CASE ok
             <3>1. jira' = [jira EXCEPT !.rank = [jira.rank EXCEPT ![p[1]] = p[2]]]
                   BY <1>1, <2>2
             <3>2. /\ [jira.rank EXCEPT ![p[1]] = p[2]] \in [Queued -> Nat]
                   /\ \A k \in Queued : [jira.rank EXCEPT ![p[1]] = p[2]][k]
                                         = IF k = p[1] THEN p[2] ELSE jira.rank[k]
                   BY <1>10, <2>1
             <3>3. QED
                   BY <1>10, <3>1, <3>2
       <2>3. CASE ~ ok
             BY <1>1, <1>10, <2>3
       <2>4. QED
             BY <2>2, <2>3
<1>12. Taken(m, jira')
       BY <1>9, <1>11 DEF Taken, TakenBy
<1>13. JiraFirst' /\ registry'.resolved \cap Open \subseteq jira'.posted
       BY <1>1, <1>11 DEF IInv, AllTaken, JiraFirst, Shown
<1>14. ASSUME ~ raced
       PROVE  Holds(m, board, registry, kept, jira')
       <2> DEFINE order == Showing(board, r.board).ranked
       <2>1. Placing(r, board, jira)
             BY <1>1, <1>2, <1>14 DEF Holds
       <2>2. order \in Orders
             BY <1>2, ShowingType DEF IInv, Snapshots
       <2>3. ASSUME NEW i \in DOMAIN order
             PROVE  order[i] \in Queued
             BY <2>2 DEF Orders
       <2> HIDE DEF order
       <2>4. ASSUME ~ m.failed, NEW i \in DOMAIN order
             PROVE  /\ \/ jira'.rank[order[i]] = i
                       \/ \E n \in DOMAIN m.puts : m.puts[n] = <<order[i], i>>
                    /\ \A n \in DOMAIN m.puts : m.puts[n][1] = order[i] => m.puts[n][2] = i
             <3>1. ok /\ ~ r.failed
                   BY <1>6, <2>4
             <3>2. /\ \/ jira.rank[order[i]] = i
                      \/ \E n \in DOMAIN r.puts : r.puts[n] = <<order[i], i>>
                   /\ \A n \in DOMAIN r.puts : r.puts[n][1] = order[i] => r.puts[n][2] = i
                   BY <2>1, <2>4, <3>1 DEF Placing, order
             <3>3. \A n \in DOMAIN m.puts : m.puts[n][1] = order[i] => m.puts[n][2] = i
                   BY <1>4, <1>6, <3>2
             <3>4. CASE p[1] = order[i]
                   <4>1. p[2] = i
                         BY <1>4, <3>2, <3>4
                   <4>2. jira'.rank[order[i]] = i
                         BY <1>11, <2>3, <2>4, <3>1, <3>4, <4>1
                   <4>3. QED
                         BY <3>3, <4>2
             <3>5. CASE p[1] # order[i]
                   <4>1. jira'.rank[order[i]] = jira.rank[order[i]]
                         BY <1>11, <2>3, <2>4, <3>1, <3>5
                   <4>2. ASSUME NEW n \in DOMAIN r.puts, r.puts[n] = <<order[i], i>>
                         PROVE  \E l \in DOMAIN m.puts : m.puts[l] = <<order[i], i>>
                         <5>1. n # 1
                               BY <1>4, <3>5, <4>2
                         <5>2. n - 1 \in 1..(Len(r.puts) - 1) /\ (n - 1) + 1 = n
                               <6> DEFINE size == Len(r.puts)
                               <6>1. size \in Nat /\ n \in 1..size
                                     BY <1>4
                               <6> HIDE DEF size
                               <6>2. QED
                                     BY <5>1, <6>1 DEF size
                         <5>3. n - 1 \in DOMAIN m.puts
                               BY <1>4, <1>6, <5>2
                         <5>4. m.puts[n - 1] = r.puts[n]
                               BY <1>4, <1>6, <5>2, <5>3
                         <5>5. QED
                               BY <4>2, <5>3, <5>4
                   <4>3. QED
                         BY <3>2, <3>3, <4>1, <4>2
             <3>6. QED
                   BY <3>4, <3>5
       <2>5. Placing(m, board, jira')
             <3>1. Showing(board, m.board).ranked = order
                   BY <1>6 DEF order
             <3>2. QED
                   BY <2>4, <3>1, Zenon DEF Placing
       <2>6. QED
             BY <1>1, <1>2, <1>6, <1>14, <2>5 DEF Holds
<1>15. /\ board' = board /\ registry' = registry /\ kept' = kept
       BY <1>1
<1>16. QED
       BY <1>1, <1>2, <1>6, <1>8, <1>10, <1>11, <1>12, <1>13, <1>14, <1>15, OneMoves

LEMMA DeleteKept ==
    ASSUME IInv, NEW h \in Handlers, Delete(h)
    PROVE  IInv'
<1> DEFINE r == req[h]
<1>1. /\ r.pc = "delete" /\ board' = [board EXCEPT ![r.board] = None] /\ Move(h, Idle)
      /\ UNCHANGED <<registry, jira, kept, used, raced, begun>>
      BY DEF Delete, At
<1>2. /\ r \in Requests /\ r # Idle /\ Stationed(r) /\ r.board \in Boards
      /\ ~ raced => Holds(r, board, registry, kept, jira) /\ Promises(board, registry, kept)
      BY <1>1, Working
<1>3. r.op = "delete"
      BY <1>1, <1>2 DEF Stationed
<1>4. /\ registry' = registry /\ jira' = jira /\ kept' = kept
      /\ board \in [Boards -> Snapshots \cup {None, Null}] /\ registry \in Registries
      /\ jira \in [posted : SUBSET Open, due : SUBSET Queued, rank : [Queued -> Nat]]
      /\ kept \subseteq Boards \X (Manual \cup Items)
      /\ registry.resolved \cap Open \subseteq jira.posted
      BY <1>1 DEF IInv, TypeOK, AllTaken
<1>5. /\ board' \in [Boards -> Snapshots \cup {None, Null}]
      /\ \A b \in Boards : board'[b] # None => board[b] # None
      BY <1>1, <1>2, <1>4
<1>6. \A b \in Boards : Showing(board', b) = IF b = r.board THEN Blank ELSE Showing(board, b)
      BY <1>1, <1>4 DEF Showing
<1>7. JiraFirst'
      BY <1>4, <1>6 DEF IInv, AllTaken, JiraFirst, Shown, Showing, Blank
<1>8. ASSUME ~ raced
      PROVE  Promises(board', registry, kept)
      <2>1. ItemsOf(kept, r.board) = {}
            /\ (Told(registry, r.board) \/ QuestionsOf(kept, r.board) = {})
            BY <1>1, <1>2, <1>3, <1>8 DEF Holds
      <2>2. QED
            BY <1>2, <1>6, <1>8, <2>1 DEF Promises
<1>9. QED
      BY <1>1, <1>2, <1>4, <1>5, <1>7, <1>8, IdleFits, OneMoves

LEMMA CrashKept ==
    ASSUME IInv, Crash
    PROVE  IInv'
<1>1. /\ req' = [h \in Handlers |-> Idle]
      /\ UNCHANGED <<board, registry, jira, kept, used, raced, begun>>
      BY DEF Crash
<1>2. \A h \in Handlers : req'[h] = Idle
      BY <1>1
<1>3. TypeOK'
      BY <1>1, IdleFits DEF IInv, TypeOK
<1>4. AllTaken' /\ \A h \in Handlers : Stationed(req'[h])
      BY <1>1, <1>2, IdleFits DEF IInv, AllTaken, JiraFirst, Shown
<1>5. BoardsUsed'
      BY <1>1, <1>2 DEF IInv, BoardsUsed
<1>6. OneByOne'
      BY <1>1, <1>2, IdleFits DEF IInv, OneByOne, Alone
<1>7. QED
      BY <1>3, <1>4, <1>5, <1>6 DEF IInv

-----------------------------------------------------------------------------
(* Requests arrive.                                                        *)

LEMMA BeginKept ==
    ASSUME IInv, NEW h \in Handlers, NEW op \in Ops, NEW b \in Boards, NEW x \in Things,
           Begin(h, op, b, x), Argument(op, x), kept' \subseteq kept, used \subseteq used', b \in used',
           op = "drop" => x \notin ItemsOf(kept', b),
           op = "delete" =>
              ItemsOf(kept', b) = {} /\ (Told(registry, b) \/ QuestionsOf(kept', b) = {}),
           op = "create" => ItemsOf(kept', b) = {} /\ QuestionsOf(kept', b) = {}
    PROVE  IInv'
<1> DEFINE n == [Idle EXCEPT !.pc = "get", !.op = op, !.board = b, !.x = x]
<1>1. /\ req[h] = Idle /\ raced' = (raced \/ \E g \in Handlers : req[g] # Idle)
      /\ req' = [req EXCEPT ![h] = n] /\ begun' = begun + 1
      /\ board' = board /\ registry' = registry /\ jira' = jira
      BY DEF Begin
<1>2. /\ n \in Requests /\ n.pc = "get" /\ n.op = op /\ n.board = b /\ n.x = x
      /\ n.snap = Blank /\ n.reg = NoQuestions
      BY IdleFits DEF Requests, Stages, Idle
<1>3. n # Idle
      BY <1>2 DEF Idle
<1> HIDE DEF n
<1>4. Stationed(n)
      BY <1>2, <1>3 DEF Stationed
<1>5. Taken(n, jira)
      BY <1>2 DEF Taken, TakenBy, Blank, NoQuestions
<1>6. req \in [Handlers -> Requests]
      BY DEF IInv, TypeOK
<1>7. TypeOK'
      BY <1>1, <1>2 DEF IInv, TypeOK
<1>8. \A g \in Handlers : req'[g] = IF g = h THEN n ELSE req[g]
      BY <1>1, <1>6
<1>9. /\ \A g \in Handlers : Stationed(req'[g])
      /\ AllTaken'
      BY <1>1, <1>4, <1>5, <1>8 DEF IInv, AllTaken, JiraFirst, Shown
<1>10. BoardsUsed'
      BY <1>1, <1>2, <1>8 DEF IInv, BoardsUsed
<1>11. OneByOne'
      <2>1. SUFFICES ASSUME ~ raced'
                     PROVE  /\ Alone' /\ Promises(board, registry, kept')
                            /\ \A g \in Handlers : Holds(req'[g], board, registry, kept', jira)
            BY <1>1 DEF OneByOne
      <2>2. ~ raced /\ \A g \in Handlers : req[g] = Idle
            BY <1>1, <2>1
      <2>3. Alone'
            BY <1>8, <2>2 DEF Alone
      <2>4. Promises(board, registry, kept')
            BY <2>2, FewerPromises DEF IInv, OneByOne
      <2>5. Holds(n, board, registry, kept', jira)
            BY <1>2 DEF Holds
      <2>6. \A g \in Handlers : Holds(req'[g], board, registry, kept', jira)
            BY <1>8, <2>2, <2>5, IdleFits
      <2>7. QED
            BY <2>3, <2>4, <2>6
<1>12. QED
      BY <1>7, <1>9, <1>10, <1>11 DEF IInv

LEMMA BeginEditKept ==
    ASSUME IInv, NEW h \in Handlers, NEW op \in Ops \ {"create", "drop", "delete"}, NEW b \in Boards,
           NEW x \in Things, BeginEdit(h, op, b, x), Argument(op, x)
    PROVE  IInv'
<1>1. Begin(h, op, b, x) /\ board[b] # None /\ kept' = kept /\ used' = used
      BY DEF BeginEdit
<1>2. b \in used'
      BY <1>1 DEF IInv, BoardsUsed
<1>3. QED
      BY <1>1, <1>2, BeginKept

LEMMA BeginNewKept ==
    ASSUME IInv, NEW h \in Handlers, NEW op \in Ops \ {"create", "drop", "delete"}, NEW b \in Boards,
           NEW x \in Things, board[b] # None, BeginNew(h, op, b, x), Argument(op, x)
    PROVE  IInv'
<1>1. Begin(h, op, b, x) /\ kept' = kept /\ used' = used \cup {x}
      BY DEF BeginNew
<1>2. used \subseteq used' /\ b \in used'
      BY <1>1 DEF IInv, BoardsUsed
<1>3. QED
      BY <1>1, <1>2, BeginKept

LEMMA ArriveKept ==
    ASSUME IInv, NEW h \in Handlers, NEW b \in Boards, Arrive(h, b)
    PROVE  IInv'
<1>1. CASE CreateBoard(h, b)
      <2>1. Begin(h, "create", b, b) /\ kept' = kept /\ used' = used \cup {b} /\ b \notin used
            BY <1>1 DEF CreateBoard, BeginNew
      <2>2. ItemsOf(kept', b) = {} /\ QuestionsOf(kept', b) = {}
            BY <2>1 DEF IInv, BoardsUsed, ItemsOf, QuestionsOf
      <2>3. used \subseteq used' /\ b \in used' /\ kept' \subseteq kept
            BY <2>1
      <2>4. Argument("create", b) /\ b \in Things /\ "create" \in Ops
            BY DEF Argument, Things, Ops
      <2>5. QED
            BY <2>1, <2>2, <2>3, <2>4, BeginKept
<1>2. CASE \E op \in {"view", "update", "refresh", "reset"} : BeginEdit(h, op, b, None)
      <2>1. PICK op \in {"view", "update", "refresh", "reset"} : BeginEdit(h, op, b, None)
            BY <1>2
      <2>2. Argument(op, None) /\ None \in Things /\ op \in Ops \ {"create", "drop", "delete"}
            BY DEF Argument, Things, Ops
      <2>3. QED
            BY <2>1, <2>2, BeginEditKept
<1>3. ASSUME NEW op \in {"resolve", "tick", "comment", "note", "due", "reorder"}, NEW x,
             Argument(op, x), BeginEdit(h, op, b, x)
      PROVE  IInv'
      <2>1. x \in Things /\ op \in Ops \ {"create", "drop", "delete"}
            BY <1>3 DEF Argument, Things, Ops
      <2>2. QED
            BY <1>3, <2>1, BeginEditKept
<1>4. ASSUME NEW op \in {"question", "add", "remark"}, NEW x, Argument(op, x),
             board[b] # None, BeginNew(h, op, b, x)
      PROVE  IInv'
      <2>1. x \in Things /\ op \in Ops \ {"create", "drop", "delete"}
            BY <1>4 DEF Argument, Things, Ops
      <2>2. QED
            BY <1>4, <2>1, BeginNewKept
<1>5. CASE DropItem(h, b)
      <2>1. PICK i \in Items : /\ board[b] # None /\ kept' = kept \ {<<b, i>>}
                               /\ used' = used /\ Begin(h, "drop", b, i)
            BY <1>5 DEF DropItem
      <2>2. i \notin ItemsOf(kept', b) /\ kept' \subseteq kept
            BY <2>1 DEF ItemsOf
      <2>3. b \in used' /\ used \subseteq used'
            BY <2>1 DEF IInv, BoardsUsed
      <2>4. Argument("drop", i) /\ i \in Things /\ "drop" \in Ops
            BY DEF Argument, Things, Ops
      <2>5. QED
            BY <2>1, <2>2, <2>3, <2>4, BeginKept
<1>6. CASE DeleteBoard(h, b)
      <2>1. /\ board[b] # None /\ used' = used /\ Begin(h, "delete", b, None)
            /\ kept' = {p \in kept : p[1] # b \/ (b \in Release /\ p[2] \in Manual /\ registry # NoQuestions)}
            BY <1>6 DEF DeleteBoard
      <2>2. kept' \subseteq kept
            BY <2>1
      <2>3. \A i \in Items : i \notin Manual
            BY ScopeBoardAssumption
      <2>4. ItemsOf(kept', b) = {}
            BY <2>1, <2>3 DEF ItemsOf
      <2>5. Told(registry, b) \/ QuestionsOf(kept', b) = {}
            BY <2>1 DEF Told, QuestionsOf
      <2>6. b \in used' /\ used \subseteq used'
            BY <2>1 DEF IInv, BoardsUsed
      <2>7. Argument("delete", None) /\ None \in Things /\ "delete" \in Ops
            BY DEF Argument, Things, Ops
      <2>8. QED
            BY <2>1, <2>2, <2>4, <2>5, <2>6, <2>7, BeginKept
<1>7. CASE ViewBoard(h, b) \/ UpdateBoard(h, b) \/ RefreshBoard(h, b) \/ ResetQueue(h, b)
      BY <1>2, <1>7 DEF ViewBoard, UpdateBoard, RefreshBoard, ResetQueue
<1>8. CASE ResolveQuestion(h, b) \/ TickItem(h, b) \/ CommentIssue(h, b)
      BY <1>3, <1>8 DEF ResolveQuestion, TickItem, CommentIssue, Argument
<1>9. CASE NoteIssue(h, b) \/ SetDueDate(h, b) \/ ReorderQueue(h, b)
      BY <1>3, <1>9 DEF NoteIssue, SetDueDate, ReorderQueue, Argument
<1>10. CASE AddQuestion(h, b) \/ AddItem(h, b) \/ RemarkIssue(h, b)
      BY <1>4, <1>10 DEF AddQuestion, AddItem, RemarkIssue, Argument
<1>11. QED
      BY <1>1, <1>5, <1>6, <1>7, <1>8, <1>9, <1>10 DEF Arrive

-----------------------------------------------------------------------------
(* The invariant.                                                          *)

LEMMA InitFits == Init => IInv
<1> SUFFICES ASSUME Init
             PROVE  IInv
    OBVIOUS
<1> DEFINE shown(old) == [Blank EXCEPT !.manual = old, !.issues = Open, !.pool = Queued]
           first == {shown(old) : old \in {{}, Legacy}}
<1>1. /\ board \in [Boards -> {None} \cup first]
      /\ registry = NoQuestions /\ req = [h \in Handlers |-> Idle]
      /\ jira = [posted |-> {}, due |-> {}, rank |-> [k \in Queued |-> 0]]
      /\ kept = {p \in Boards \X Legacy : p[2] \in Asked(p[1])}
      /\ used = Legacy \cup {b \in Boards : board[b] # None} /\ raced = FALSE /\ begun = 0
      BY DEF Init
<1>2. \A s \in first : s \in Snapshots /\ s.resolved = {} /\ s.due = {}
      <2>1. \A old \in {{}, Legacy} : /\ shown(old) \in Snapshots
                                      /\ shown(old).resolved = {} /\ shown(old).due = {}
            BY BlankType, ScopeBoardAssumption DEF Snapshots, Blank
      <2>2. QED
            BY <2>1
<1> HIDE DEF first
<1>3. board \in [Boards -> Snapshots \cup {None, Null}]
      BY <1>1, <1>2
<1>4. \A h \in Handlers : req[h] = Idle
      BY <1>1
<1>5. kept \subseteq Boards \X (Manual \cup Items) /\ \A p \in kept : p[1] \in Boards /\ p[2] \in Legacy
      BY <1>1, ScopeBoardAssumption
<1>6. TypeOK
      BY <1>1, <1>3, <1>5, IdleFits, NothingAsked DEF TypeOK
<1>7. \A b \in Boards : Shown(b).resolved = {} /\ Shown(b).due = {}
      BY <1>1, <1>2 DEF Shown, Blank
<1>8. AllTaken
      BY <1>1, <1>4, <1>7, IdleFits DEF AllTaken, JiraFirst, NoQuestions
<1>9. BoardsUsed
      <2>1. \A p \in kept : p[1] \in Boards /\ board[p[1]] # None
            BY <1>1 DEF Asked
      <2>2. QED
            BY <1>1, <1>4, <2>1 DEF BoardsUsed
<1>10. ASSUME NEW b \in Boards
       PROVE  ItemsOf(kept, b) = {} /\ QuestionsOf(kept, b) \subseteq Asks(Showing(board, b))
       <2>1. ItemsOf(kept, b) = {}
             BY <1>5, ScopeBoardAssumption DEF ItemsOf
       <2>2. QuestionsOf(kept, b) \subseteq Asked(b)
             BY <1>1 DEF QuestionsOf
       <2>3. Asked(b) \subseteq Asks(Showing(board, b))
             BY DEF Asked, Showing, Asks
       <2>4. QED
             BY <2>1, <2>2, <2>3
<1>11. Promises(board, registry, kept)
       BY <1>1, <1>10 DEF Promises, Told
<1>12. OneByOne
       BY <1>4, <1>11, IdleFits DEF OneByOne, Alone
<1>13. QED
       BY <1>4, <1>6, <1>8, <1>9, <1>12, IdleFits DEF IInv

LEMMA NextKeeps == IInv /\ [Next]_vars => IInv'
<1> SUFFICES ASSUME IInv, [Next]_vars
             PROVE  IInv'
    OBVIOUS
<1>1. CASE UNCHANGED vars
      BY <1>1, Zenon DEF vars, IInv, TypeOK, AllTaken, JiraFirst, Shown, BoardsUsed, OneByOne, Alone
<1>2. ASSUME NEW h \in Handlers, NEW b \in Boards, Arrive(h, b)
      PROVE  IInv'
      BY <1>2, ArriveKept
<1>3. ASSUME NEW h \in Handlers, Work(h)
      PROVE  IInv'
      <2>1. CASE Get(h)
            BY <2>1, GetKept
      <2>2. CASE Insert(h)
            BY <2>2, InsertKept
      <2>3. CASE UpdateColumns(h)
            BY <2>3, UpdateColumnsKept
      <2>4. CASE Questions(h)
            BY <2>4, QuestionsKept
      <2>5. CASE Backfill(h)
            BY <2>5, BackfillKept
      <2>6. CASE Seed(h)
            BY <2>6, SeedKept
      <2>7. CASE Track(h)
            BY <2>7, TrackKept
      <2>8. CASE Save(h)
            BY <2>8, SaveKept
      <2>9. CASE Sync(h)
            BY <2>9, SyncKept
      <2>10. CASE Synced(h)
            BY <2>10, SyncedKept
      <2>11. CASE Commented(h) \/ Placed(h)
            <3>1. /\ Move(h, Idle) /\ req[h].pc \in {"comment", "places"}
                  /\ UNCHANGED <<board, registry, jira, kept, used, raced, begun>>
                  BY <2>11 DEF Commented, Placed, At
            <3>2. req[h] # Idle
                  BY <3>1 DEF Idle
            <3>3. QED
                  BY <3>1, <3>2, OnlyEnds
      <2>12. CASE Delete(h)
            BY <2>12, DeleteKept
      <2>13. ASSUME NEW issues \in SUBSET Open, NEW pool \in SUBSET Queued, NEW failed,
                    Fetch(h, issues, pool, failed)
            PROVE  IInv'
            BY <2>13, FetchKept
      <2>14. ASSUME NEW ok \in BOOLEAN, Post(h, ok) \/ Put(h, ok)
            PROVE  IInv'
            BY <2>14, PostKept
      <2>15. ASSUME NEW ok \in BOOLEAN, Place(h, ok)
            PROVE  IInv'
            BY <2>15, PlaceKept
      <2>16. QED
            BY <1>3, <2>1, <2>2, <2>3, <2>4, <2>5, <2>6, <2>7, <2>8, <2>9, <2>10, <2>11, <2>12,
               <2>13, <2>14, <2>15 DEF Work
<1>4. CASE Crash
      BY <1>4, CrashKept
<1>5. QED
      BY <1>1, <1>2, <1>3, <1>4 DEF Next

\* Only a request that holds all the questions of the team writes them, as long
\* as it is the only one.
LEMMA RegistrySteps ==
    ASSUME IInv, [Next]_vars, ~ raced'
    PROVE  registry.resolved \subseteq registry'.resolved
<1>1. ASSUME NEW h \in Handlers, Seed(h) \/ Track(h) \/ Synced(h)
      PROVE  registry.resolved \subseteq registry'.resolved
      <2>1. /\ req[h].pc \in {"seed", "track", "synced"} /\ registry' = req[h].reg /\ raced' = raced
            BY <1>1 DEF Seed, Track, Synced, At
      <2>2. Holds(req[h], board, registry, kept, jira)
            BY <2>1, Working
      <2>3. QED
            BY <2>1, <2>2 DEF Holds, Extends
<1>2. CASE registry' = registry
      BY <1>2
<1>3. ASSUME NEW h \in Handlers, NEW b \in Boards, Arrive(h, b)
      PROVE  registry' = registry
      <2>1. \E op, x : Begin(h, op, b, x)
            BY <1>3 DEF Arrive, CreateBoard, ViewBoard, UpdateBoard, RefreshBoard, AddQuestion,
               ResolveQuestion, AddItem, RemarkIssue, TickItem, DropItem, CommentIssue, NoteIssue,
               SetDueDate, ReorderQueue, ResetQueue, DeleteBoard, BeginNew, BeginEdit
      <2>2. QED
            BY <2>1 DEF Begin
<1>4. ASSUME NEW h \in Handlers, Work(h)
      PROVE  registry' = registry \/ Seed(h) \/ Track(h) \/ Synced(h)
      BY <1>4 DEF Work, Get, Insert, UpdateColumns, Questions, Backfill, Save, Sync, Commented,
         Placed, Delete, Fetch, Post, Put, Place
<1>5. CASE Crash
      BY <1>5 DEF Crash
<1>6. QED
      BY <1>1, <1>2, <1>3, <1>4, <1>5 DEF Next, vars

-----------------------------------------------------------------------------
(* Theorems.                                                               *)

\* The inductive invariant: what the requests hold is taken by Jira however they
\* meet, and is all that was confirmed as long as they come one after the other.
THEOREM BoardInductive == Spec => []IInv
<1>1. QED
      BY InitFits, NextKeeps, PTL DEF Spec

\* A board shows a resolved issue or a due date only once Jira has taken it,
\* however many edits, refreshes and boards of a team meet, and wherever the
\* process dies (cms_resolve_scope_question, cms_set_scope_priority_due_date).
THEOREM JiraComesFirst == Spec => []JiraFirst
<1>1. IInv => JiraFirst
      BY DEF IInv, AllTaken
<1>2. QED
      BY <1>1, BoardInductive, PTL

\* As long as requests come one after the other, what was confirmed to a user
\* stays until it is taken back, across refreshes, the other boards of the team,
\* the first registry made of their snapshots and crashes between the save of a
\* board and that of the questions (_ensure_team_scope_questions), unless a limit
\* leaves it out: the boards read for the registry, or the resolved questions of a
\* board of another team.
THEOREM ConfirmedIsKept == Spec => []ConfirmedStays
<1>1. IInv => ConfirmedStays
      <2>1. SUFFICES ASSUME IInv, ~ raced, NEW p \in kept
                     PROVE  IF p[2] \in Items THEN p[2] \in Shown(p[1]).items
                            ELSE LET q == IF p[1] \in Release /\ registry # NoQuestions
                                          THEN registry ELSE Shown(p[1])
                                 IN  p[2] \in q.manual \cup q.resolved
            BY DEF ConfirmedStays
      <2>2. p \in Boards \X (Manual \cup Items) /\ p = <<p[1], p[2]>>
            BY <2>1 DEF IInv, TypeOK
      <2>3. p[1] \in Boards /\ p[2] \in Manual \cup Items
            BY <2>2
      <2>4. Promises(board, registry, kept) /\ Showing(board, p[1]) = Shown(p[1])
            BY <2>1, <2>3, ShowingType DEF IInv, OneByOne
      <2>5. CASE p[2] \in Items
            <3>1. p[2] \in ItemsOf(kept, p[1])
                  BY <2>1, <2>2, <2>5 DEF ItemsOf
            <3>2. QED
                  BY <2>3, <2>4, <2>5, <3>1 DEF Promises
      <2>6. CASE p[2] \notin Items
            <3>1. p[2] \in QuestionsOf(kept, p[1])
                  BY <2>1, <2>2, <2>3, <2>6 DEF QuestionsOf
            <3>2. p[2] \in Asks(IF Told(registry, p[1]) THEN registry ELSE Showing(board, p[1]))
                  BY <2>3, <2>4, <3>1 DEF Promises
            <3>3. QED
                  BY <2>4, <2>6, <3>2 DEF Asks, Told
      <2>7. QED
            BY <2>5, <2>6
<1>2. QED
      BY <1>1, BoardInductive, PTL

\* As long as requests come one after the other, a new order of a queue that
\* Jira took entirely is the order Jira has when the answer is given
\* (_sync_queue_significance_to_jira).
THEOREM PlacesAreTold == Spec => []PlacesTold
<1>1. IInv => PlacesTold
      <2>1. SUFFICES ASSUME IInv, ~ raced, NEW h \in Handlers, At(h, "places"),
                            req[h].puts = <<>>, ~ req[h].failed,
                            NEW i \in DOMAIN Shown(req[h].board).ranked
                     PROVE  jira.rank[Shown(req[h].board).ranked[i]] = i
            BY DEF PlacesTold
      <2>2. req[h].pc = "places"
            BY <2>1 DEF At
      <2>3. Placing(req[h], board, jira) /\ req[h].board \in Boards
            BY <2>1, <2>2, Working DEF Holds
      <2>4. Showing(board, req[h].board) = Shown(req[h].board)
            BY <2>1, <2>3, ShowingType DEF IInv
      <2>5. QED
            BY <2>1, <2>3, <2>4 DEF Placing
<1>2. QED
      BY <1>1, BoardInductive, PTL

\* As long as requests come one after the other, no board opens a question of
\* its team again, however old the snapshot that it saves with.
THEOREM ResolutionsAreForGood == Spec => ResolvedForGood
<1>1. IInv /\ [Next]_vars => [~ raced' => registry.resolved \subseteq registry'.resolved]_vars
      BY RegistrySteps
<1>2. QED
      BY <1>1, BoardInductive, PTL DEF Spec, ResolvedForGood
=============================================================================
