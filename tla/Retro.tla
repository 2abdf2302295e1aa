------------------------------- MODULE Retro -------------------------------
(***************************************************************************)
(* One retrospective (services/voting_service/retro_api.py): the live state*)
(* in Redis, which participants and the manager change through             *)
(* RedisRetroRepository.mutate_retro, and its row of cms_retros in         *)
(* Postgres.  mutate_retro is the WATCH loop of mutate_session; that its   *)
(* rounds are one atomic step is what SessionStore checks, so a mutation is *)
(* one action here.  The requests that touch both stores, or one of them   *)
(* twice, are several actions: between two of them anything may happen, and*)
(* the process may die.  Every mutation reads Loaded(live), what the factory*)
(* makes of the stored state, and writes back what it leaves.              *)
(*                                                                         *)
(* A manager's request begins with an access check that reads the row.     *)
(* Where one mutation is all it does, the check is folded into it; a       *)
(* retrospective is finished some time after the check, and the row, which *)
(* was there once, may be gone by then.                                    *)
(* What RedisRetroRepository turns down is a request that changes nothing. *)
(***************************************************************************)
EXTENDS RetroBoard

CONSTANTS
    Managers, \* the requests of managers that may be under way at a time
    NoRetro,  \* no live retrospective
    NoRow     \* no row of the CMS

VARIABLES
    live,    \* the key retro:{id}
    row,     \* the row of cms_retros
    invited, \* a participant link has been handed out
    pc,      \* what a manager's request does next
    held     \* what it has read and still uses

vars == <<live, row, invited, pc, held>>

Snapshots ==
    [phase        : PHASES,
     section_id   : [Cards -> Sections \cup {None}],
     group_id     : [Cards -> Groups \cup {None}],
     vote_count   : [Cards -> Nat],
     card_ids     : [Groups -> SUBSET Cards],
     group_count  : [Groups -> Nat],
     action_items : SUBSET Items,
     ai_summary   : BOOLEAN]

Rows ==
    [status   : {"draft", "live", "done"},
     config   : Budgets,
     snapshot : Snapshots \cup {None},
     ai       : BOOLEAN]

ASSUME SentinelsAssumption == NoRetro \notin Retrospective /\ None \notin Snapshots

\* cms_create_retro.
Init ==
    /\ live = NoRetro
    /\ row \in [status : {"draft"}, config : Budgets, snapshot : {None}, ai : {FALSE}]
    /\ invited = FALSE
    /\ pc = [p \in Managers |-> "idle"]
    /\ held = [p \in Managers |-> None]

Goto(p, label, what) ==
    /\ pc' = [pc EXCEPT ![p] = label]
    /\ held' = [held EXCEPT ![p] = what]

\* UPDATE ... WHERE id = ...: nothing if the row is gone.
UpdateRow(new) == row' = IF row = NoRow THEN NoRow ELSE new

-----------------------------------------------------------------------------
(* Participants.  Their key is written by a join, so they are among the    *)
(* participants of the live state.                                         *)

Join ==
    /\ live # NoRetro /\ invited
    /\ \E u \in Users : live' = AddParticipant(Loaded(live), u)
    /\ UNCHANGED <<row, invited, pc, held>>

WriteCard ==
    /\ live # NoRetro /\ live.participants # {}
    /\ LET r == Loaded(live)
       IN  \E c \in Cards, s \in Sections :
              CanAddCard(r, c, s) /\ live' = AddCard(r, c, s)
    /\ UNCHANGED <<row, invited, pc, held>>

ToggleVote ==
    /\ live # NoRetro
    /\ LET r == Loaded(live)
       IN  \E u \in live.participants :
              \/ \E c \in Cards  : CanVoteCard(r, c, u) /\ live' = VoteCard(r, c, u)
              \/ \E g \in Groups : CanVoteGroup(r, g, u) /\ live' = VoteGroup(r, g, u)
    /\ UNCHANGED <<row, invited, pc, held>>

-----------------------------------------------------------------------------
(* The manager's mutations of the live state.                              *)

Managed == row # NoRow /\ live # NoRetro

GroupCards ==
    /\ Managed
    /\ LET r == Loaded(live)
       IN  \/ \E g \in Groups, cards \in SUBSET Cards :
                 CanCreateGroup(r, g, cards) /\ live' = CreateGroup(r, g, cards)
           \/ \E g \in Groups : CanUngroup(r, g) /\ live' = Ungroup(r, g)
    /\ UNCHANGED <<row, invited, pc, held>>

EditActions ==
    /\ Managed
    /\ LET r == Loaded(live)
       IN  \E i \in Items :
              \/ CanAddActionItem(r, i) /\ live' = AddActionItem(r, i)
              \/ CanRemoveActionItem(r) /\ live' = RemoveActionItem(r, i)
    /\ UNCHANGED <<row, invited, pc, held>>

Collect ==
    /\ Managed
    /\ LET r == Loaded(live)
       IN  \/ \E s \in Sections : CanOpenSection(r) /\ live' = OpenSection(r, s)
           \/ live' = CloseSection(r)
    /\ UNCHANGED <<row, invited, pc, held>>

ChangePhase ==
    /\ Managed
    /\ LET r == Loaded(live)
       IN  \/ CanStartVoting(r) /\ live' = StartVoting(r)
           \/ CanStartDiscussion(r) /\ live' = StartDiscussion(r)
    /\ UNCHANGED <<row, invited, pc, held>>

-----------------------------------------------------------------------------
(* cms_retro_invite: read the row, SET NX the live state, mint the link.   *)

\* Bound: nobody is invited again once the live state is lost.
ReadRow(p) ==
    /\ pc[p] = "idle" /\ row # NoRow
    /\ row.snapshot # None => live # NoRetro
    /\ Goto(p, "inviting", row)
    /\ UNCHANGED <<live, row, invited>>

Ensure(p) ==
    /\ pc[p] = "inviting"
    /\ live' = IF live = NoRetro THEN FromConfig(held[p].config) ELSE live
    /\ Goto(p, "minting", held[p])
    /\ UNCHANGED <<row, invited>>

\* The link is known once the request is answered.
Mint(p) ==
    /\ pc[p] = "minting"
    /\ UpdateRow([row EXCEPT !.status = IF held[p].status = "draft" THEN "live" ELSE @])
    /\ invited' = TRUE
    /\ Goto(p, "idle", None)
    /\ UNCHANGED live

-----------------------------------------------------------------------------
(* cms_update_retro: look at the status, store the configuration.          *)

CheckDraft(p) ==
    /\ pc[p] = "idle" /\ row # NoRow
    /\ row.status = "draft"
    /\ Goto(p, "updating", None)
    /\ UNCHANGED <<live, row, invited>>

SaveConfig(p) ==
    /\ pc[p] = "updating"
    /\ \E budget \in Budgets : UpdateRow([row EXCEPT !.config = budget])
    /\ Goto(p, "idle", None)
    /\ UNCHANGED <<live, invited>>

-----------------------------------------------------------------------------
(* cms_retro_finalize: end the live state, store its snapshot.             *)

\* Mutant: the snapshot is taken before the live state is finished.
FinalizeLiveLate(p) ==
    /\ pc[p] = "idle" /\ live # NoRetro
    /\ live' = Finalize(Loaded(live))
    /\ Goto(p, "saving", Snapshot(live))
    /\ UNCHANGED <<row, invited>>

FinalizeLive(p) ==
    /\ pc[p] = "idle" /\ live # NoRetro
    /\ live' = Finalize(Loaded(live))
    /\ Goto(p, "saving", Snapshot(live'))
    /\ UNCHANGED <<row, invited>>

SaveSnapshot(p) ==
    /\ pc[p] = "saving"
    /\ UpdateRow([row EXCEPT !.snapshot = held[p], !.status = "done"])
    /\ Goto(p, "idle", None)
    /\ UNCHANGED <<live, invited>>

-----------------------------------------------------------------------------
(* cms_retro_analyze and run_retro_ai_job: look at the live state, or at   *)
(* the snapshot in the row when there is none, ask the model, store its    *)
(* answer in Postgres and then in Redis.                                   *)

Analyzable(r) == r.phase = "done" /\ Written(r) # {} /\ ~r.ai_summary

\* Mutant: the summary is shown before it is stored.
AnalyzeShowsFirst(p) ==
    /\ pc[p] = "idle"
    /\ live # NoRetro /\ Analyzable(live) /\ Goto(p, "showing", None)
    /\ UNCHANGED <<live, row, invited>>

Analyze(p) ==
    /\ pc[p] = "idle"
    /\ \/ live # NoRetro /\ Analyzable(live) /\ Goto(p, "asking", None)
       \/ live = NoRetro /\ Goto(p, "recalling", None)
    /\ UNCHANGED <<live, row, invited>>

Recall(p) ==
    /\ pc[p] = "recalling"
    /\ row # NoRow /\ row.snapshot # None /\ Analyzable(row.snapshot)
    /\ Goto(p, "asking", None)
    /\ UNCHANGED <<live, row, invited>>

StoreSummary(p) ==
    /\ pc[p] = "asking"
    /\ UpdateRow([row EXCEPT !.ai = TRUE])
    /\ Goto(p, "showing", None)
    /\ UNCHANGED <<live, invited>>

ShowSummary(p) ==
    /\ pc[p] = "showing"
    /\ IF live = NoRetro THEN UNCHANGED live ELSE live' = SetAi(Loaded(live))
    /\ Goto(p, "idle", None)
    /\ UNCHANGED <<row, invited>>

-----------------------------------------------------------------------------
(* cms_delete_retro: the row, then the live state.                         *)

DeleteRow(p) ==
    /\ pc[p] = "idle" /\ row # NoRow
    /\ row' = NoRow
    /\ Goto(p, "dropping", None)
    /\ UNCHANGED <<live, invited>>

DropLive(p) ==
    /\ pc[p] = "dropping"
    /\ live' = NoRetro
    /\ Goto(p, "idle", None)
    /\ UNCHANGED <<row, invited>>

\* A request ends between two steps: the process dies, a store or the model
\* fails, the rate limit of the invitations is reached, there is nothing to analyse.
Abandon(p) ==
    /\ pc[p] # "idle"
    /\ Goto(p, "idle", None)
    /\ UNCHANGED <<live, row, invited>>

\* Redis loses the live state, for which cms_retro_analyze is prepared.  Bound:
\* only once the row has a snapshot, and while nobody is being invited.
Lose ==
    /\ row # NoRow /\ row.snapshot # None
    /\ \A p \in Managers : pc[p] # "inviting"
    /\ live' = NoRetro
    /\ UNCHANGED <<row, invited, pc, held>>

-----------------------------------------------------------------------------
Meeting == Join \/ WriteCard \/ ToggleVote \/ GroupCards \/ EditActions
           \/ Collect \/ ChangePhase

Request(p) ==
    \/ ReadRow(p) \/ Ensure(p) \/ Mint(p)
    \/ CheckDraft(p) \/ SaveConfig(p)
    \/ FinalizeLive(p) \/ SaveSnapshot(p)
    \/ Analyze(p) \/ Recall(p) \/ StoreSummary(p) \/ ShowSummary(p)
    \/ DeleteRow(p) \/ DropLive(p)
    \/ Abandon(p)

Next == Meeting \/ Lose \/ \E p \in Managers : Request(p)

Spec == Init /\ [][Next]_vars

-----------------------------------------------------------------------------
(* Safety.                                                                 *)

Labels == {"idle", "inviting", "minting", "updating", "saving", "recalling",
           "asking", "showing", "dropping"}

TypeOK ==
    /\ live \in Retrospective \cup {NoRetro}
    /\ row \in Rows \cup {NoRow}
    /\ invited \in BOOLEAN
    /\ pc \in [Managers -> Labels]
    /\ held \in [Managers -> Rows \cup Snapshots \cup {None}]

\* The two accounts of the grouping, RetroCard.group_id and
\* RetroGroup.card_ids, agree; a group has two cards or more of one section,
\* and its cards have no votes of their own.
GroupsAgree ==
    live # NoRetro =>
        /\ \A c \in Cards, g \in Groups :
              c \in live.card_ids[g] <=> live.group_id[c] = g
        /\ \A g \in Present(live) :
              /\ Cardinality(live.card_ids[g]) >= 2
              /\ \A c, d \in live.card_ids[g] :
                    live.section_id[c] = live.section_id[d]
        /\ \A c \in Cards : live.group_id[c] # None =>
              c \in Written(live) /\ live.votes[c] = {}

\* "The per-person budget is shared across card and group targets"
\* (toggle_vote): nobody has more votes out than votes_per_person, however
\* cards are grouped and groups taken apart.
WithinBudget ==
    live # NoRetro =>
        \A u \in Users : VotesUsedBy(live, u) <= live.votes_per_person

\* What the phases allow: cards only in sections that have been opened, votes
\* only after every section has been, one open section at most and only while
\* cards are collected.
InputMatchesPhase ==
    live # NoRetro =>
        /\ \A c \in Written(live) : live.section_id[c] \in live.visited_section_ids
        /\ live.phase \in {"voting", "discussing"} => live.visited_section_ids = Sections
        /\ live.active_section_id # None =>
              live.phase = "collecting" /\ live.active_section_id \in live.visited_section_ids
        /\ (\E c \in Cards : live.votes[c] # {}) \/ (\E g \in Groups : live.group_votes[g] # {})
              => /\ live.phase \in {"voting", "discussing", "done"}
                 /\ live.visited_section_ids = Sections

Rank == [lobby |-> 0, collecting |-> 1, voting |-> 2, discussing |-> 3, done |-> 4]

Content(r) ==
    <<r.section_id, r.group_id, r.votes, r.card_ids, r.group_votes, r.action_items>>

\* The phases only go on, and a finished retrospective keeps its cards, votes,
\* groups and actions whatever requests are still on their way.
FinishedIsFrozen ==
    [][live # NoRetro /\ live' # NoRetro =>
          /\ Rank[live.phase] <= Rank[live'.phase]
          /\ live.phase = "done" => Content(live') = Content(live)]_vars

Supports(r, u, c) ==
    u \in IF r.group_id[c] = None THEN r.votes[c] ELSE r.group_votes[r.group_id[c]]

\* A vote for a card, or for the group it is in, is only lost when its owner
\* takes it back or the group is taken apart: grouping keeps the votes.
VotesKept ==
    [][live # NoRetro /\ live' # NoRetro =>
          \A u \in Users, c \in Cards :
             Supports(live, u, c) /\ ~Supports(live', u, c) =>
                \/ live.group_id[c] # None /\ live'.group_id[c] = None
                \/ /\ live'.group_id = live.group_id
                   /\ \A v \in Users \ {u}, d \in Cards :
                         Supports(live', v, d) = Supports(live, v, d)]_vars

\* The row of a finished retrospective holds what the live state ended with,
\* also when it is finished several times and the snapshots are stored in
\* another order.  Only the AI summary may come later, and only the live state
\* may be lost.
SnapshotIsFinal ==
    row # NoRow =>
        /\ row.status = "done" => row.snapshot # None
        /\ row.snapshot # None /\ live # NoRetro =>
              /\ [row.snapshot EXCEPT !.ai_summary = live.ai_summary] = Snapshot(live)
              /\ row.snapshot.ai_summary => live.ai_summary

\* A summary that is shown has been stored: Postgres comes before Redis.
ShownIsStored ==
    live # NoRetro /\ row # NoRow /\ live.ai_summary => row.ai
=============================================================================
