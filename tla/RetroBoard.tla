----------------------------- MODULE RetroBoard -----------------------------
(***************************************************************************)
(* The retrospective aggregate (app/domain/retro.py): its mutators as pure *)
(* operators from a retrospective to a retrospective.  As in SessionOps    *)
(* CanM(r, ...) is the condition under which the code applies M and        *)
(* M(r, ...) what it leaves; where there is no CanM the code has no guard. *)
(*                                                                         *)
(* Abstractions.  Cards, groups and action items are their ids.  A card    *)
(* that has not been written has no section, a group that does not exist   *)
(* has no cards.  Texts, titles, authors, assignees, times and the soft    *)
(* deadline of a section are left out, and so is rename_group, which only  *)
(* changes a title; version numbers the mutations and nothing in the       *)
(* service compares it.  The order of the cards is a matter of display.    *)
(***************************************************************************)
EXTENDS Naturals, FiniteSets

CONSTANTS
    Sections, \* the columns of the retrospective
    Users,    \* the participants
    Cards,    \* the card ids that can ever be handed out
    Groups,   \* the group ids
    Items,    \* the ids of action items
    Budgets,  \* the numbers of votes per person managers choose among
    MaxCards, \* MAX_CARDS_PER_RETRO
    None      \* no section, no group

ASSUME NoneAssumption == None \notin Sections /\ None \notin Groups

ASSUME LimitsAssumption ==
    /\ Budgets \subseteq Nat \ {0} /\ Budgets # {}
    /\ MaxCards \in Nat
    /\ IsFiniteSet(Cards) /\ IsFiniteSet(Groups) /\ IsFiniteSet(Users)

PHASES == {"lobby", "collecting", "voting", "discussing", "done"}

Retrospective ==
    [votes_per_person    : Budgets,
     phase               : PHASES,
     active_section_id   : Sections \cup {None},
     visited_section_ids : SUBSET Sections,
     participants        : SUBSET Users,
     section_id          : [Cards -> Sections \cup {None}],
     group_id            : [Cards -> Groups \cup {None}],
     votes               : [Cards -> SUBSET Users],
     card_ids            : [Groups -> SUBSET Cards],
     group_votes         : [Groups -> SUBSET Users],
     action_items        : SUBSET Items,
     ai_summary          : BOOLEAN]

\* _retro_from_config: a live retrospective before it begins.
FromConfig(budget) ==
    [votes_per_person    |-> budget,
     phase               |-> "lobby",
     active_section_id   |-> None,
     visited_section_ids |-> {},
     participants        |-> {},
     section_id          |-> [c \in Cards |-> None],
     group_id            |-> [c \in Cards |-> None],
     votes               |-> [c \in Cards |-> {}],
     card_ids            |-> [g \in Groups |-> {}],
     group_votes         |-> [g \in Groups |-> {}],
     action_items        |-> {},
     ai_summary          |-> FALSE]

Written(r) == {c \in Cards : r.section_id[c] # None}
Present(r) == {g \in Groups : r.card_ids[g] # {}}
Loose(r)   == {c \in Written(r) : r.group_id[c] = None}

VotesUsedBy(r, u) ==
    Cardinality({c \in Loose(r) : u \in r.votes[c]}) +
    Cardinality({g \in Present(r) : u \in r.group_votes[g]})

\* RetrospectiveFactory.from_dict repairs what it reads: an unknown phase and
\* unknown sections go, cards that are not there leave their group, a group
\* without cards goes, and each card's group_id follows the lists of the
\* groups.  (The code lets the last of two groups that list a card have it.)
Loaded(r) ==
    LET listed(g) == r.card_ids[g] \cap Written(r)
        listing(c) == {g \in Groups : c \in listed(g)}
    IN  [r EXCEPT
            !.phase       = IF @ \in PHASES THEN @ ELSE "lobby",
            !.visited_section_ids = @ \cap Sections,
            !.card_ids    = [g \in Groups |-> listed(g)],
            !.group_votes = [g \in Groups |-> IF listed(g) = {} THEN {} ELSE @[g]],
            !.group_id    = [c \in Cards |->
                IF listing(c) # {} THEN CHOOSE g \in listing(c) : TRUE
                ELSE IF \E g \in Groups : g = @[c] /\ listed(g) # {} THEN @[c]
                ELSE None]]

-----------------------------------------------------------------------------
(* What participants do.                                                   *)

AddParticipant(r, u) == [r EXCEPT !.participants = @ \cup {u}]

CanAddCard(r, c, s) ==
    /\ r.phase = "collecting"
    /\ s = r.active_section_id
    /\ s \in Sections
    /\ Cardinality(Written(r)) < MaxCards
    /\ c \notin Written(r)

AddCard(r, c, s) == [r EXCEPT !.section_id[c] = s]

\* Mutant: <= for <.
MayAddVoteAtLimit(r, u) == VotesUsedBy(r, u) <= r.votes_per_person

MayAddVote(r, u) == VotesUsedBy(r, u) < r.votes_per_person

\* toggle_vote on a card: taking a vote back is always possible.
CanVoteCard(r, c, u) ==
    /\ r.phase = "voting"
    /\ c \in Loose(r)
    /\ u \in r.votes[c] \/ MayAddVote(r, u)

VoteCard(r, c, u) ==
    [r EXCEPT !.votes[c] = IF u \in @ THEN @ \ {u} ELSE @ \cup {u}]

CanVoteGroup(r, g, u) ==
    /\ r.phase = "voting"
    /\ g \in Present(r)
    /\ u \in r.group_votes[g] \/ MayAddVote(r, u)

VoteGroup(r, g, u) ==
    [r EXCEPT !.group_votes[g] = IF u \in @ THEN @ \ {u} ELSE @ \cup {u}]

-----------------------------------------------------------------------------
(* What the manager does.                                                  *)

CanCreateGroup(r, g, cards) ==
    /\ r.phase # "done"
    /\ Cardinality(cards) >= 2
    /\ cards \subseteq Loose(r)
    /\ \A c, d \in cards : r.section_id[c] = r.section_id[d]
    /\ g \notin Present(r)

\* Mutant: the cards keep their votes besides.
CreateGroupKeepsVotes(r, g, cards) ==
    [r EXCEPT !.card_ids[g]    = cards,
              !.group_votes[g] = UNION {r.votes[c] : c \in cards},
              !.group_id = [c \in Cards |-> IF c \in cards THEN g ELSE @[c]]]

\* Mutant: the group begins without votes.
CreateGroupDropsVotes(r, g, cards) ==
    [r EXCEPT !.card_ids[g] = cards,
              !.group_id = [c \in Cards |-> IF c \in cards THEN g ELSE @[c]],
              !.votes    = [c \in Cards |-> IF c \in cards THEN {} ELSE @[c]]]

\* The votes of the cards become votes of the group.
CreateGroup(r, g, cards) ==
    [r EXCEPT !.card_ids[g]    = cards,
              !.group_votes[g] = UNION {r.votes[c] : c \in cards},
              !.group_id = [c \in Cards |-> IF c \in cards THEN g ELSE @[c]],
              !.votes    = [c \in Cards |-> IF c \in cards THEN {} ELSE @[c]]]

\* Mutant: no guard on the phase.
CanUngroupAlways(r, g) == g \in Present(r)

CanUngroup(r, g) == r.phase # "done" /\ g \in Present(r)

\* The group goes with its votes.
Ungroup(r, g) ==
    [r EXCEPT !.card_ids[g]    = {},
              !.group_votes[g] = {},
              !.group_id = [c \in Cards |-> IF @[c] = g THEN None ELSE @[c]]]

CanAddActionItem(r, i) == r.phase = "discussing" /\ i \notin r.action_items

AddActionItem(r, i) == [r EXCEPT !.action_items = @ \cup {i}]

CanRemoveActionItem(r) == r.phase # "done"

RemoveActionItem(r, i) == [r EXCEPT !.action_items = @ \ {i}]

CanOpenSection(r) == r.phase \notin {"voting", "discussing", "done"}

OpenSection(r, s) ==
    [r EXCEPT !.phase = "collecting",
              !.active_section_id = s,
              !.visited_section_ids = @ \cup {s}]

CloseSection(r) == [r EXCEPT !.active_section_id = None]

CanStartVoting(r) ==
    /\ r.phase = "collecting"
    /\ Sections \subseteq r.visited_section_ids

StartVoting(r) == [r EXCEPT !.phase = "voting", !.active_section_id = None]

CanStartDiscussion(r) == r.phase = "voting"

StartDiscussion(r) ==
    [r EXCEPT !.phase = "discussing", !.active_section_id = None]

\* There is no guard: a retrospective may be finished from any phase, again
\* too.
Finalize(r) == [r EXCEPT !.phase = "done", !.active_section_id = None]

SetAi(r) == [r EXCEPT !.ai_summary = TRUE]

\* _anonymized_retro_snapshot: numbers of votes instead of voters.  The number
\* of participants, who may join later too, is left out.
Snapshot(r) ==
    [phase        |-> r.phase,
     section_id   |-> r.section_id,
     group_id     |-> r.group_id,
     vote_count   |-> [c \in Cards |->
                          IF r.group_id[c] = None THEN Cardinality(r.votes[c]) ELSE 0],
     card_ids     |-> r.card_ids,
     group_count  |-> [g \in Groups |-> Cardinality(r.group_votes[g])],
     action_items |-> r.action_items,
     ai_summary   |-> r.ai_summary]
=============================================================================
