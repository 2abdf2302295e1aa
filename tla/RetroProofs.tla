----------------------------- MODULE RetroProofs -----------------------------
(***************************************************************************)
(* Proofs about Retro, for every set of sections, participants, cards and  *)
(* requests.  The board (RetroBoard) and the requests around it are kept   *)
(* apart: BoardStep says what one mutation can do to a live retrospective, *)
(* OnlyBoardSteps that the specification does nothing else to it, and the  *)
(* lemmas about the board speak of two retrospectives, without primes.     *)
(***************************************************************************)
EXTENDS Retro, FiniteSetTheorems, TLAPS

-----------------------------------------------------------------------------
(* The board.                                                              *)

\* What makes GroupsAgree inductive, and the repair of Loaded idle: votes are
\* only on cards that stand alone and on groups that exist.
Agree(r) ==
    /\ \A c \in Cards, g \in Groups : c \in r.card_ids[g] <=> r.group_id[c] = g
    /\ \A g \in Groups : r.card_ids[g] # {} =>
          /\ Cardinality(r.card_ids[g]) >= 2
          /\ \A c, d \in r.card_ids[g] : r.section_id[c] = r.section_id[d]
    /\ \A c \in Cards : r.group_id[c] # None => r.section_id[c] # None
    /\ \A c \in Cards : r.votes[c] # {} =>
          r.section_id[c] # None /\ r.group_id[c] = None
    /\ \A g \in Groups : r.group_votes[g] # {} => r.card_ids[g] # {}

Ordered(r) ==
    /\ \A c \in Cards : r.section_id[c] # None => r.section_id[c] \in r.visited_section_ids
    /\ r.phase \in {"voting", "discussing"} => r.visited_section_ids = Sections
    /\ r.active_section_id # None =>
          r.phase = "collecting" /\ r.active_section_id \in r.visited_section_ids
    /\ (\E c \in Cards : r.votes[c] # {}) \/ (\E g \in Groups : r.group_votes[g] # {})
          => /\ r.phase \in {"voting", "discussing", "done"}
             /\ r.visited_section_ids = Sections

Thrifty(r) == \A u \in Users : VotesUsedBy(r, u) <= r.votes_per_person

Sound(r) == r \in Retrospective /\ Agree(r) /\ Ordered(r) /\ Thrifty(r)

\* One mutation.
BoardStep(r, s) ==
    \/ \E u \in Users : s = AddParticipant(r, u)
    \/ \E c \in Cards, k \in Sections : CanAddCard(r, c, k) /\ s = AddCard(r, c, k)
    \/ \E c \in Cards, u \in Users : CanVoteCard(r, c, u) /\ s = VoteCard(r, c, u)
    \/ \E g \in Groups, u \in Users : CanVoteGroup(r, g, u) /\ s = VoteGroup(r, g, u)
    \/ \E g \in Groups, cards \in SUBSET Cards :
          CanCreateGroup(r, g, cards) /\ s = CreateGroup(r, g, cards)
    \/ \E g \in Groups : CanUngroup(r, g) /\ s = Ungroup(r, g)
    \/ \E i \in Items : CanAddActionItem(r, i) /\ s = AddActionItem(r, i)
    \/ \E i \in Items : CanRemoveActionItem(r) /\ s = RemoveActionItem(r, i)
    \/ \E k \in Sections : CanOpenSection(r) /\ s = OpenSection(r, k)
    \/ s = CloseSection(r)
    \/ CanStartVoting(r) /\ s = StartVoting(r)
    \/ CanStartDiscussion(r) /\ s = StartDiscussion(r)
    \/ s = Finalize(r)
    \/ s = SetAi(r)

\* The factory has nothing to repair in what the mutators leave behind.
LEMMA NothingToRepair ==
    ASSUME NEW r \in Retrospective, Agree(r)
    PROVE  Loaded(r) = r
<1> DEFINE listed(g) == r.card_ids[g] \cap Written(r)
           listing(c) == {g \in Groups : c \in listed(g)}
<1>1. \A g \in Groups : listed(g) = r.card_ids[g]
  BY NoneAssumption DEF Agree, Written, Retrospective
<1>2. r.visited_section_ids \cap Sections = r.visited_section_ids
  BY DEF Retrospective
<1>3. [g \in Groups |-> listed(g)] = r.card_ids
  BY <1>1 DEF Retrospective
<1>4. [g \in Groups |-> IF listed(g) = {} THEN {} ELSE r.group_votes[g]] = r.group_votes
  BY <1>1 DEF Retrospective, Agree
<1>5. \A c \in Cards :
        r.group_id[c] = IF listing(c) # {} THEN CHOOSE g \in listing(c) : TRUE
                ELSE IF \E g \in Groups : g = r.group_id[c] /\ listed(g) # {} THEN r.group_id[c]
                ELSE None
  <2> TAKE c \in Cards
  <2>1. r.group_id[c] \in Groups \cup {None}
    BY DEF Retrospective
  <2>2. \A g \in listing(c) : g = r.group_id[c]
    BY <1>1 DEF Agree
  <2>3. CASE r.group_id[c] \in Groups
    <3>1. r.group_id[c] \in listing(c)
      BY <1>1, <2>3 DEF Agree
    <3> QED BY <3>1, <2>2
  <2>4. CASE r.group_id[c] = None
    <3>1. listing(c) = {}
      BY <2>2, <2>4, NoneAssumption
    <3> QED BY <3>1, <2>4
  <2> QED BY <2>1, <2>3, <2>4
<1>6. [c \in Cards |->
            IF listing(c) # {} THEN CHOOSE g \in listing(c) : TRUE
            ELSE IF \E g \in Groups : g = r.group_id[c] /\ listed(g) # {} THEN r.group_id[c]
            ELSE None] = r.group_id
  BY <1>5 DEF Retrospective
<1>7. r.phase \in PHASES
  BY DEF Retrospective
<1> HIDE DEF listed, listing
<1>8. Loaded(r) = [r EXCEPT !.phase = r.phase,
                            !.visited_section_ids = r.visited_section_ids,
                            !.card_ids = r.card_ids,
                            !.group_votes = r.group_votes,
                            !.group_id = r.group_id]
  BY <1>2, <1>3, <1>4, <1>6, <1>7 DEF Loaded, listed, listing
<1> QED BY <1>8 DEF Retrospective

LEMMA FromConfigSound ==
    ASSUME NEW budget \in Budgets
    PROVE  Sound(FromConfig(budget))
<1> DEFINE r == FromConfig(budget)
<1>1. r \in Retrospective
  BY DEF FromConfig, Retrospective, PHASES
<1>2. Agree(r) /\ Ordered(r)
  BY NoneAssumption DEF FromConfig, Agree, Ordered
<1>3. \A u \in Users : VotesUsedBy(r, u) = 0
  BY FS_EmptySet DEF FromConfig, VotesUsedBy, Loose, Written, Present
<1>4. r.votes_per_person \in Nat
  BY LimitsAssumption DEF FromConfig
<1> QED BY <1>1, <1>2, <1>3, <1>4 DEF Sound, Thrifty

LEMMA BoardType ==
    ASSUME NEW r \in Retrospective, NEW s, BoardStep(r, s)
    PROVE  s \in Retrospective
<1>1. ASSUME NEW u \in Users, s = AddParticipant(r, u) PROVE s \in Retrospective
  BY <1>1 DEF AddParticipant, Retrospective
<1>2. ASSUME NEW c \in Cards, NEW k \in Sections, s = AddCard(r, c, k)
      PROVE  s \in Retrospective
  BY <1>2 DEF AddCard, Retrospective
<1>3. ASSUME NEW c \in Cards, NEW u \in Users, s = VoteCard(r, c, u)
      PROVE  s \in Retrospective
  BY <1>3 DEF VoteCard, Retrospective
<1>4. ASSUME NEW g \in Groups, NEW u \in Users, s = VoteGroup(r, g, u)
      PROVE  s \in Retrospective
  BY <1>4 DEF VoteGroup, Retrospective
<1>5. ASSUME NEW g \in Groups, NEW cards \in SUBSET Cards, s = CreateGroup(r, g, cards)
      PROVE  s \in Retrospective
  <2>1. UNION {r.votes[c] : c \in cards} \in SUBSET Users
    BY DEF Retrospective
  <2> QED BY <1>5, <2>1 DEF CreateGroup, Retrospective
<1>6. ASSUME NEW g \in Groups, s = Ungroup(r, g) PROVE s \in Retrospective
  BY <1>6 DEF Ungroup, Retrospective
<1>7. ASSUME NEW i \in Items, s = AddActionItem(r, i) \/ s = RemoveActionItem(r, i)
      PROVE  s \in Retrospective
  BY <1>7 DEF AddActionItem, RemoveActionItem, Retrospective
<1>8. ASSUME NEW k \in Sections, s = OpenSection(r, k) PROVE s \in Retrospective
  BY <1>8 DEF OpenSection, Retrospective, PHASES
<1>9. CloseSection(r) \in Retrospective
  BY DEF CloseSection, Retrospective
<1>10. StartVoting(r) \in Retrospective
  BY DEF StartVoting, Retrospective, PHASES
<1>11. StartDiscussion(r) \in Retrospective
  BY DEF StartDiscussion, Retrospective, PHASES
<1>12. Finalize(r) \in Retrospective
  BY DEF Finalize, Retrospective, PHASES
<1>13. SetAi(r) \in Retrospective
  BY DEF SetAi, Retrospective
<1> QED BY <1>1, <1>2, <1>3, <1>4, <1>5, <1>6, <1>7, <1>8, <1>9,
          <1>10, <1>11, <1>12, <1>13 DEF BoardStep

LEMMA BoardAgree ==
    ASSUME NEW r \in Retrospective, Agree(r), NEW s, BoardStep(r, s)
    PROVE  Agree(s)
<1> DEFINE Same == /\ s.section_id = r.section_id /\ s.group_id = r.group_id
                   /\ s.votes = r.votes /\ s.card_ids = r.card_ids
                   /\ s.group_votes = r.group_votes
<1>1. Same => Agree(s)
  BY DEF Agree
<1>2. ASSUME \/ \E u \in Users : s = AddParticipant(r, u)
             \/ \E i \in Items : s = AddActionItem(r, i) \/ s = RemoveActionItem(r, i)
             \/ \E k \in Sections : s = OpenSection(r, k)
             \/ s = CloseSection(r) \/ s = StartVoting(r) \/ s = StartDiscussion(r)
             \/ s = Finalize(r) \/ s = SetAi(r)
      PROVE  Agree(s)
  <2>1. Same
    BY <1>2 DEF AddParticipant, AddActionItem, RemoveActionItem, OpenSection,
                CloseSection, StartVoting, StartDiscussion, Finalize, SetAi, Retrospective
  <2> QED BY <1>1, <2>1
<1>3. ASSUME NEW c \in Cards, NEW k \in Sections, CanAddCard(r, c, k), s = AddCard(r, c, k)
      PROVE  Agree(s)
  <2>1. r.section_id[c] = None
    BY <1>3 DEF CanAddCard, Written
  <2>2. \A g \in Groups : c \notin r.card_ids[g]
    BY <2>1, NoneAssumption DEF Agree
  <2> QED BY <1>3, <2>1, <2>2, NoneAssumption DEF AddCard, Agree, Retrospective
<1>4. ASSUME NEW c \in Cards, NEW u \in Users, CanVoteCard(r, c, u), s = VoteCard(r, c, u)
      PROVE  Agree(s)
  BY <1>4 DEF CanVoteCard, Loose, Written, VoteCard, Agree, Retrospective
<1>5. ASSUME NEW g \in Groups, NEW u \in Users, CanVoteGroup(r, g, u), s = VoteGroup(r, g, u)
      PROVE  Agree(s)
  BY <1>5 DEF CanVoteGroup, Present, VoteGroup, Agree, Retrospective
<1>6. ASSUME NEW g \in Groups, NEW cards \in SUBSET Cards,
             CanCreateGroup(r, g, cards), s = CreateGroup(r, g, cards)
      PROVE  Agree(s)
  <2>1. /\ s.section_id = r.section_id
        /\ s.card_ids = [r.card_ids EXCEPT ![g] = cards]
        /\ s.group_id = [c \in Cards |-> IF c \in cards THEN g ELSE r.group_id[c]]
        /\ s.votes = [c \in Cards |-> IF c \in cards THEN {} ELSE r.votes[c]]
        /\ \A h \in Groups \ {g} : s.group_votes[h] = r.group_votes[h]
    BY <1>6 DEF CreateGroup, Retrospective
  <2>2. r.card_ids[g] = {} /\ Cardinality(cards) >= 2
    BY <1>6 DEF CanCreateGroup, Present
  <2>3. \A c \in cards : r.section_id[c] # None /\ r.group_id[c] = None
    BY <1>6 DEF CanCreateGroup, Loose, Written
  <2>4. \A c, d \in cards : r.section_id[c] = r.section_id[d]
    BY <1>6 DEF CanCreateGroup
  <2>5. cards # {}
    BY <2>2, FS_EmptySet
  <2>6. \A h \in Groups : s.card_ids[h] = IF h = g THEN cards ELSE r.card_ids[h]
    BY <2>1 DEF Retrospective
  <2>7. \A c \in Cards, h \in Groups : c \in s.card_ids[h] <=> s.group_id[c] = h
    BY <2>1, <2>2, <2>3, <2>6, NoneAssumption DEF Agree
  <2>8. \A h \in Groups : s.card_ids[h] # {} =>
          /\ Cardinality(s.card_ids[h]) >= 2
          /\ \A c, d \in s.card_ids[h] : s.section_id[c] = s.section_id[d]
    BY <2>1, <2>2, <2>4, <2>6 DEF Agree
  <2>9. \A c \in Cards : s.group_id[c] # None => s.section_id[c] # None
    BY <2>1, <2>3 DEF Agree
  <2>10. \A c \in Cards : s.votes[c] # {} =>
          s.section_id[c] # None /\ s.group_id[c] = None
    BY <2>1 DEF Agree
  <2>11. \A h \in Groups : s.group_votes[h] # {} => s.card_ids[h] # {}
    BY <2>1, <2>5, <2>6 DEF Agree
  <2> QED BY <2>7, <2>8, <2>9, <2>10, <2>11 DEF Agree
<1>7. ASSUME NEW g \in Groups, s = Ungroup(r, g)
      PROVE  Agree(s)
  BY <1>7, NoneAssumption DEF Ungroup, Agree, Retrospective
<1> QED BY <1>2, <1>3, <1>4, <1>5, <1>6, <1>7 DEF BoardStep

LEMMA BoardOrdered ==
    ASSUME NEW r \in Retrospective, Agree(r), Ordered(r), NEW s, BoardStep(r, s)
    PROVE  Ordered(s)
<1>1. ASSUME \/ \E u \in Users : s = AddParticipant(r, u)
             \/ \E i \in Items : s = AddActionItem(r, i) \/ s = RemoveActionItem(r, i)
             \/ s = SetAi(r)
      PROVE  Ordered(s)
  BY <1>1 DEF AddParticipant, AddActionItem, RemoveActionItem, SetAi, Ordered, Retrospective
<1>2. ASSUME NEW c \in Cards, NEW k \in Sections, CanAddCard(r, c, k), s = AddCard(r, c, k)
      PROVE  Ordered(s)
  BY <1>2, NoneAssumption DEF CanAddCard, AddCard, Ordered, Retrospective
<1>3. ASSUME NEW c \in Cards, NEW u \in Users, CanVoteCard(r, c, u), s = VoteCard(r, c, u)
      PROVE  Ordered(s)
  BY <1>3 DEF CanVoteCard, VoteCard, Ordered, Retrospective
<1>4. ASSUME NEW g \in Groups, NEW u \in Users, CanVoteGroup(r, g, u), s = VoteGroup(r, g, u)
      PROVE  Ordered(s)
  BY <1>4 DEF CanVoteGroup, VoteGroup, Ordered, Retrospective
<1>5. ASSUME NEW g \in Groups, NEW cards \in SUBSET Cards, s = CreateGroup(r, g, cards)
      PROVE  Ordered(s)
  <2>1. /\ s.section_id = r.section_id /\ s.phase = r.phase
        /\ s.visited_section_ids = r.visited_section_ids
        /\ s.active_section_id = r.active_section_id
    BY <1>5 DEF CreateGroup, Retrospective
  <2>2. \A c \in Cards : s.votes[c] # {} => r.votes[c] # {}
    BY <1>5 DEF CreateGroup, Retrospective
  <2>3. \A h \in Groups : s.group_votes[h] # {} =>
          r.group_votes[h] # {} \/ \E c \in Cards : r.votes[c] # {}
    <3>1. s.group_votes = [r.group_votes EXCEPT ![g] = UNION {r.votes[c] : c \in cards}]
      BY <1>5 DEF CreateGroup, Retrospective
    <3> QED BY <3>1 DEF Retrospective
  <2> QED BY <2>1, <2>2, <2>3 DEF Ordered
<1>6. ASSUME NEW g \in Groups, s = Ungroup(r, g)
      PROVE  Ordered(s)
  BY <1>6 DEF Ungroup, Ordered, Retrospective
<1>7. ASSUME NEW k \in Sections, CanOpenSection(r), s = OpenSection(r, k)
      PROVE  Ordered(s)
  BY <1>7, NoneAssumption DEF CanOpenSection, OpenSection, Ordered, Retrospective, PHASES
<1>8. Ordered(CloseSection(r))
  BY DEF CloseSection, Ordered, Retrospective
<1>9. CanStartVoting(r) => Ordered(StartVoting(r))
  BY DEF CanStartVoting, StartVoting, Ordered, Retrospective
<1>10. CanStartDiscussion(r) => Ordered(StartDiscussion(r))
  BY DEF CanStartDiscussion, StartDiscussion, Ordered, Retrospective
<1>11. Ordered(Finalize(r))
  BY DEF Finalize, Ordered, Retrospective
<1> QED BY <1>1, <1>2, <1>3, <1>4, <1>5, <1>6, <1>7, <1>8, <1>9,
          <1>10, <1>11 DEF BoardStep

LEMMA OneMore ==
    ASSUME NEW S, NEW x, IsFiniteSet(S)
    PROVE  /\ IsFiniteSet(S \cup {x})
           /\ Cardinality(S \cup {x}) \in Nat
           /\ Cardinality(S \cup {x}) <= Cardinality(S) + 1
<1>1. Cardinality(S) \in Nat
  BY FS_CardinalityType
<1>2. /\ IsFiniteSet(S \cup {x})
      /\ Cardinality(S \cup {x}) = IF x \in S THEN Cardinality(S) ELSE Cardinality(S) + 1
  BY FS_AddElement
<1> QED BY <1>1, <1>2

\* What a voter has out, as two sets.
OnCards(r, u)  == {c \in Loose(r) : u \in r.votes[c]}
OnGroups(r, u) == {g \in Present(r) : u \in r.group_votes[g]}

LEMMA Ballots ==
    ASSUME NEW r, NEW u
    PROVE  /\ IsFiniteSet(OnCards(r, u)) /\ IsFiniteSet(OnGroups(r, u))
           /\ VotesUsedBy(r, u) = Cardinality(OnCards(r, u)) + Cardinality(OnGroups(r, u))
           /\ Cardinality(OnCards(r, u)) \in Nat /\ Cardinality(OnGroups(r, u)) \in Nat
<1>1. OnCards(r, u) \subseteq Cards /\ OnGroups(r, u) \subseteq Groups
  BY DEF OnCards, OnGroups, Loose, Written, Present
<1>2. IsFiniteSet(OnCards(r, u)) /\ IsFiniteSet(OnGroups(r, u))
  BY <1>1, FS_Subset, LimitsAssumption
<1>3. VotesUsedBy(r, u) = Cardinality(OnCards(r, u)) + Cardinality(OnGroups(r, u))
  BY DEF VotesUsedBy, OnCards, OnGroups
<1> QED BY <1>2, <1>3, FS_CardinalityType

\* Fewer ballots are within the same budget.
LEMMA FewerBallots ==
    ASSUME NEW r \in Retrospective, NEW s, NEW u,
           OnCards(s, u) \subseteq OnCards(r, u), OnGroups(s, u) \subseteq OnGroups(r, u)
    PROVE  VotesUsedBy(s, u) <= VotesUsedBy(r, u)
<1>1. /\ Cardinality(OnCards(s, u)) <= Cardinality(OnCards(r, u))
      /\ Cardinality(OnGroups(s, u)) <= Cardinality(OnGroups(r, u))
  BY Ballots, FS_Subset
<1> QED BY <1>1, Ballots

LEMMA BoardThrifty ==
    ASSUME NEW r, Sound(r), NEW s, BoardStep(r, s)
    PROVE  Thrifty(s)
<1> USE DEF Sound
<1>1. s \in Retrospective /\ s.votes_per_person = r.votes_per_person
  <2>1. s.votes_per_person = r.votes_per_person
    BY DEF BoardStep, AddParticipant, AddCard, VoteCard, VoteGroup, CreateGroup, Ungroup,
           AddActionItem, RemoveActionItem, OpenSection, CloseSection, StartVoting,
           StartDiscussion, Finalize, SetAi, Retrospective
  <2> QED BY <2>1, BoardType
<1>2. r.votes_per_person \in Nat
  BY LimitsAssumption DEF Retrospective
<1> SUFFICES ASSUME NEW u \in Users
             PROVE  VotesUsedBy(s, u) <= r.votes_per_person
  BY <1>1 DEF Thrifty
<1>3. VotesUsedBy(r, u) <= r.votes_per_person /\ VotesUsedBy(r, u) \in Nat
  BY Ballots DEF Thrifty
<1>4. /\ IsFiniteSet(OnCards(r, u)) /\ IsFiniteSet(OnGroups(r, u))
       /\ VotesUsedBy(r, u) = Cardinality(OnCards(r, u)) + Cardinality(OnGroups(r, u))
       /\ Cardinality(OnCards(r, u)) \in Nat /\ Cardinality(OnGroups(r, u)) \in Nat
  BY Ballots
<1>5. /\ VotesUsedBy(s, u) = Cardinality(OnCards(s, u)) + Cardinality(OnGroups(s, u))
       /\ Cardinality(OnCards(s, u)) \in Nat /\ Cardinality(OnGroups(s, u)) \in Nat
  BY Ballots
<1>6. ASSUME OnCards(s, u) \subseteq OnCards(r, u), OnGroups(s, u) \subseteq OnGroups(r, u)
      PROVE  VotesUsedBy(s, u) <= r.votes_per_person
  <2>1. VotesUsedBy(s, u) <= VotesUsedBy(r, u) /\ VotesUsedBy(s, u) \in Nat
    BY <1>6, FewerBallots, Ballots
  <2> QED BY <2>1, <1>2, <1>3
<1>7. ASSUME \/ \E v \in Users : s = AddParticipant(r, v)
             \/ \E i \in Items : s = AddActionItem(r, i) \/ s = RemoveActionItem(r, i)
             \/ \E k \in Sections : s = OpenSection(r, k)
             \/ s = CloseSection(r) \/ s = StartVoting(r) \/ s = StartDiscussion(r)
             \/ s = Finalize(r) \/ s = SetAi(r)
      PROVE  VotesUsedBy(s, u) <= r.votes_per_person
  <2>1. /\ s.section_id = r.section_id /\ s.group_id = r.group_id
        /\ s.votes = r.votes /\ s.card_ids = r.card_ids
        /\ s.group_votes = r.group_votes
    BY <1>7 DEF AddParticipant, AddActionItem, RemoveActionItem, OpenSection,
                CloseSection, StartVoting, StartDiscussion, Finalize, SetAi, Retrospective
  <2> QED BY <2>1, <1>6 DEF OnCards, OnGroups, Loose, Written, Present
<1>8. ASSUME NEW c \in Cards, NEW k \in Sections, CanAddCard(r, c, k), s = AddCard(r, c, k)
      PROVE  VotesUsedBy(s, u) <= r.votes_per_person
  <2>1. /\ s.group_id = r.group_id /\ s.votes = r.votes /\ s.card_ids = r.card_ids
        /\ s.group_votes = r.group_votes
        /\ \A d \in Cards \ {c} : s.section_id[d] = r.section_id[d]
    BY <1>8 DEF AddCard, Retrospective
  <2>2. r.votes[c] = {}
    BY <1>8 DEF CanAddCard, Written, Agree
  <2> QED BY <2>1, <2>2, <1>6 DEF OnCards, OnGroups, Loose, Written, Present
<1>9. ASSUME NEW c \in Cards, NEW v \in Users, CanVoteCard(r, c, v), s = VoteCard(r, c, v)
      PROVE  VotesUsedBy(s, u) <= r.votes_per_person
  <2>1. /\ s.section_id = r.section_id /\ s.group_id = r.group_id
        /\ s.card_ids = r.card_ids /\ s.group_votes = r.group_votes
        /\ \A d \in Cards \ {c} : s.votes[d] = r.votes[d]
        /\ s.votes[c] = IF v \in r.votes[c] THEN r.votes[c] \ {v} ELSE r.votes[c] \cup {v}
    BY <1>9 DEF VoteCard, Retrospective
  <2>2. CASE u # v \/ v \in r.votes[c]
    BY <2>1, <2>2, <1>6 DEF OnCards, OnGroups, Loose, Written, Present
  <2>3. CASE u = v /\ v \notin r.votes[c]
    <3>1. VotesUsedBy(r, u) < r.votes_per_person
      BY <2>3, <1>9 DEF CanVoteCard, MayAddVote
    <3>2. OnCards(s, u) = OnCards(r, u) \cup {c} /\ OnGroups(s, u) = OnGroups(r, u)
      BY <2>1, <2>3, <1>9 DEF OnCards, OnGroups, Loose, Written, Present, CanVoteCard
    <3>3. Cardinality(OnCards(s, u)) <= Cardinality(OnCards(r, u)) + 1
      BY <3>2, <1>4, OneMore
    <3> QED BY <3>1, <3>2, <3>3, <1>2, <1>4, <1>5
  <2> QED BY <2>2, <2>3
<1>10. ASSUME NEW g \in Groups, NEW v \in Users, CanVoteGroup(r, g, v), s = VoteGroup(r, g, v)
       PROVE  VotesUsedBy(s, u) <= r.votes_per_person
  <2>1. /\ s.section_id = r.section_id /\ s.group_id = r.group_id
        /\ s.card_ids = r.card_ids /\ s.votes = r.votes
        /\ \A h \in Groups \ {g} : s.group_votes[h] = r.group_votes[h]
        /\ s.group_votes[g] = IF v \in r.group_votes[g] THEN r.group_votes[g] \ {v}
                              ELSE r.group_votes[g] \cup {v}
    BY <1>10 DEF VoteGroup, Retrospective
  <2>2. CASE u # v \/ v \in r.group_votes[g]
    BY <2>1, <2>2, <1>6 DEF OnCards, OnGroups, Loose, Written, Present
  <2>3. CASE u = v /\ v \notin r.group_votes[g]
    <3>1. VotesUsedBy(r, u) < r.votes_per_person
      BY <2>3, <1>10 DEF CanVoteGroup, MayAddVote
    <3>2. OnGroups(s, u) = OnGroups(r, u) \cup {g} /\ OnCards(s, u) = OnCards(r, u)
      BY <2>1, <2>3, <1>10 DEF OnCards, OnGroups, Loose, Written, Present, CanVoteGroup
    <3>3. Cardinality(OnGroups(s, u)) <= Cardinality(OnGroups(r, u)) + 1
      BY <3>2, <1>4, OneMore
    <3> QED BY <3>1, <3>2, <3>3, <1>2, <1>4, <1>5
  <2> QED BY <2>2, <2>3
<1>11. ASSUME NEW g \in Groups, NEW cards \in SUBSET Cards,
              CanCreateGroup(r, g, cards), s = CreateGroup(r, g, cards)
       PROVE  VotesUsedBy(s, u) <= r.votes_per_person
  <2> DEFINE pooled == UNION {r.votes[c] : c \in cards}
  <2>1. /\ s.section_id = r.section_id
        /\ s.card_ids = [r.card_ids EXCEPT ![g] = cards]
        /\ s.group_id = [c \in Cards |-> IF c \in cards THEN g ELSE r.group_id[c]]
        /\ s.votes = [c \in Cards |-> IF c \in cards THEN {} ELSE r.votes[c]]
        /\ s.group_votes = [r.group_votes EXCEPT ![g] = pooled]
    BY <1>11 DEF CreateGroup, Retrospective
  <2>2. /\ \A h \in Groups \ {g} : /\ s.group_votes[h] = r.group_votes[h]
                                  /\ s.card_ids[h] = r.card_ids[h]
        /\ s.group_votes[g] = pooled
    BY <2>1 DEF Retrospective
  <2>3. OnCards(s, u) \subseteq OnCards(r, u) \ cards
    BY <2>1, NoneAssumption DEF OnCards, Loose, Written
  <2>4. CASE u \notin pooled
    <3>1. OnGroups(s, u) \subseteq OnGroups(r, u)
      BY <2>2, <2>4 DEF OnGroups, Present
    <3> QED BY <3>1, <2>3, <1>6
  <2>5. CASE u \in pooled
    <3>1. PICK c \in cards : u \in r.votes[c]
      BY <2>5
    <3>2. c \in OnCards(r, u)
      BY <3>1, <1>11 DEF CanCreateGroup, OnCards
    <3>3. Cardinality(OnCards(r, u) \ {c}) = Cardinality(OnCards(r, u)) - 1
      BY <3>2, Ballots, FS_RemoveElement
    <3>4. OnCards(s, u) \subseteq OnCards(r, u) \ {c} /\ IsFiniteSet(OnCards(r, u) \ {c})
      BY <3>1, <2>3, Ballots, FS_RemoveElement
    <3>5. Cardinality(OnCards(s, u)) <= Cardinality(OnCards(r, u)) - 1
      BY <3>3, <3>4, FS_Subset
    <3>6. OnGroups(s, u) \subseteq OnGroups(r, u) \cup {g}
      BY <2>2 DEF OnGroups, Present
    <3>7. /\ IsFiniteSet(OnGroups(r, u) \cup {g})
          /\ Cardinality(OnGroups(r, u) \cup {g}) <= Cardinality(OnGroups(r, u)) + 1
          /\ Cardinality(OnGroups(r, u) \cup {g}) \in Nat
      BY <1>4, OneMore
    <3>8. Cardinality(OnGroups(s, u)) <= Cardinality(OnGroups(r, u) \cup {g})
      BY <3>6, <3>7, FS_Subset
    <3>9. Cardinality(OnGroups(s, u)) <= Cardinality(OnGroups(r, u)) + 1
      BY <3>7, <3>8, <1>4, <1>5
    <3> QED BY <3>5, <3>9, <1>2, <1>3, <1>4, <1>5
  <2> QED BY <2>4, <2>5
<1>12. ASSUME NEW g \in Groups, s = Ungroup(r, g)
       PROVE  VotesUsedBy(s, u) <= r.votes_per_person
  <2>1. /\ s.section_id = r.section_id /\ s.votes = r.votes
        /\ s.card_ids = [r.card_ids EXCEPT ![g] = {}]
        /\ s.group_votes = [r.group_votes EXCEPT ![g] = {}]
    BY <1>12 DEF Ungroup, Retrospective
  <2>2. \A c \in Cards : r.votes[c] # {} => c \in Loose(r)
    BY DEF Agree, Loose, Written
  <2>3. OnCards(s, u) \subseteq OnCards(r, u)
    BY <2>1, <2>2 DEF OnCards, Loose, Written
  <2>4. OnGroups(s, u) \subseteq OnGroups(r, u)
    BY <2>1 DEF OnGroups, Present, Retrospective
  <2> QED BY <2>3, <2>4, <1>6
<1> QED BY <1>7, <1>8, <1>9, <1>10, <1>11, <1>12 DEF BoardStep

LEMMA BoardSound ==
    ASSUME NEW r, Sound(r), NEW s, BoardStep(r, s)
    PROVE  Sound(s)
BY BoardType, BoardAgree, BoardOrdered, BoardThrifty DEF Sound

\* The phases only go on, and nothing of what the snapshot shows changes once
\* the retrospective is done, the summary excepted.
LEMMA BoardForward ==
    ASSUME NEW r \in Retrospective, NEW s, BoardStep(r, s)
    PROVE  /\ Rank[r.phase] <= Rank[s.phase]
           /\ r.phase = "done" => s.phase = "done" /\ Content(s) = Content(r)
           /\ r.ai_summary => s.ai_summary
<1> DEFINE Kept == s.phase = r.phase /\ s.ai_summary = r.ai_summary
           Forward == /\ Rank[r.phase] <= Rank[s.phase]
                      /\ r.phase = "done" => s.phase = "done" /\ Content(s) = Content(r)
                      /\ r.ai_summary => s.ai_summary
<1>1. /\ \A a \in PHASES : Rank[a] \in Nat /\ Rank[a] <= Rank["done"]
      /\ Rank["lobby"] = 0 /\ Rank["collecting"] = 1 /\ Rank["voting"] = 2
      /\ Rank["discussing"] = 3 /\ Rank["done"] = 4
  BY DEF Rank, PHASES
<1>2. r.phase \in PHASES
  BY DEF Retrospective
<1>3. Kept /\ (r.phase = "done" => Content(s) = Content(r)) => Forward
  BY <1>1, <1>2
<1>4. ASSUME \/ \E u \in Users : s = AddParticipant(r, u)
             \/ s = CloseSection(r)
      PROVE  Forward
  <2>1. Kept /\ Content(s) = Content(r)
    BY <1>4 DEF AddParticipant, CloseSection, Content, Retrospective
  <2> QED BY <2>1, <1>3
<1>5. ASSUME \/ \E c \in Cards, k \in Sections : CanAddCard(r, c, k) /\ s = AddCard(r, c, k)
             \/ \E c \in Cards, u \in Users : CanVoteCard(r, c, u) /\ s = VoteCard(r, c, u)
             \/ \E g \in Groups, u \in Users : CanVoteGroup(r, g, u) /\ s = VoteGroup(r, g, u)
             \/ \E g \in Groups, cards \in SUBSET Cards :
                   CanCreateGroup(r, g, cards) /\ s = CreateGroup(r, g, cards)
             \/ \E g \in Groups : CanUngroup(r, g) /\ s = Ungroup(r, g)
             \/ \E i \in Items : CanAddActionItem(r, i) /\ s = AddActionItem(r, i)
             \/ \E i \in Items : CanRemoveActionItem(r) /\ s = RemoveActionItem(r, i)
      PROVE  Forward
  <2>1. r.phase # "done"
    BY <1>5 DEF CanAddCard, CanVoteCard, CanVoteGroup, CanCreateGroup, CanUngroup,
                CanAddActionItem, CanRemoveActionItem
  <2>2. Kept
    BY <1>5 DEF AddCard, VoteCard, VoteGroup, CreateGroup, Ungroup, AddActionItem,
                RemoveActionItem, Retrospective
  <2> QED BY <2>1, <2>2, <1>3
<1>6. ASSUME NEW k \in Sections, CanOpenSection(r), s = OpenSection(r, k)
      PROVE  Forward
  <2>1. r.phase \in {"lobby", "collecting"} /\ s.phase = "collecting"
        /\ s.ai_summary = r.ai_summary
    BY <1>6, <1>2 DEF CanOpenSection, OpenSection, PHASES, Retrospective
  <2> QED BY <2>1, <1>1
<1>7. ASSUME \/ CanStartVoting(r) /\ s = StartVoting(r)
             \/ CanStartDiscussion(r) /\ s = StartDiscussion(r)
      PROVE  Forward
  <2>1. /\ \/ r.phase = "collecting" /\ s.phase = "voting"
           \/ r.phase = "voting" /\ s.phase = "discussing"
        /\ s.ai_summary = r.ai_summary
    BY <1>7 DEF CanStartVoting, StartVoting, CanStartDiscussion, StartDiscussion, Retrospective
  <2> QED BY <2>1, <1>1
<1>8. ASSUME s = Finalize(r)
      PROVE  Forward
  <2>1. s.phase = "done" /\ Content(s) = Content(r) /\ s.ai_summary = r.ai_summary
    BY <1>8 DEF Finalize, Content, Retrospective
  <2> QED BY <2>1, <1>1, <1>2
<1>9. ASSUME s = SetAi(r)
      PROVE  Forward
  <2>1. s.phase = r.phase /\ Content(s) = Content(r) /\ s.ai_summary
    BY <1>9 DEF SetAi, Content, Retrospective
  <2> QED BY <2>1, <1>1, <1>2
<1> QED BY <1>4, <1>5, <1>6, <1>7, <1>8, <1>9 DEF BoardStep

\* Grouping cards keeps their votes.
LEMMA BoardKeepsVotes ==
    ASSUME NEW r, Sound(r), NEW s, BoardStep(r, s),
           NEW u \in Users, NEW c \in Cards, Supports(r, u, c), ~Supports(s, u, c)
    PROVE  \/ r.group_id[c] # None /\ s.group_id[c] = None
           \/ /\ s.group_id = r.group_id
              /\ \A v \in Users \ {u}, d \in Cards : Supports(s, v, d) = Supports(r, v, d)
<1> USE DEF Sound
<1> DEFINE Kept == \/ r.group_id[c] # None /\ s.group_id[c] = None
                   \/ /\ s.group_id = r.group_id
                      /\ \A v \in Users \ {u}, d \in Cards : Supports(s, v, d) = Supports(r, v, d)
<1>1. r.group_id[c] \in Groups \cup {None}
  BY DEF Retrospective
<1>2. ASSUME \/ \E v \in Users : s = AddParticipant(r, v)
             \/ \E d \in Cards, k \in Sections : s = AddCard(r, d, k)
             \/ \E i \in Items : s = AddActionItem(r, i) \/ s = RemoveActionItem(r, i)
             \/ \E k \in Sections : s = OpenSection(r, k)
             \/ s = CloseSection(r) \/ s = StartVoting(r) \/ s = StartDiscussion(r)
             \/ s = Finalize(r) \/ s = SetAi(r)
      PROVE  Kept
  <2>1. s.group_id = r.group_id /\ s.votes = r.votes /\ s.group_votes = r.group_votes
    BY <1>2 DEF AddParticipant, AddCard, AddActionItem, RemoveActionItem, OpenSection,
                CloseSection, StartVoting, StartDiscussion, Finalize, SetAi, Retrospective
  <2> QED BY <2>1 DEF Supports
<1>3. ASSUME NEW d \in Cards, NEW v \in Users, s = VoteCard(r, d, v)
      PROVE  Kept
  <2>1. /\ s.group_id = r.group_id /\ s.group_votes = r.group_votes
        /\ \A e \in Cards, w \in Users \ {v} : w \in s.votes[e] <=> w \in r.votes[e]
    BY <1>3 DEF VoteCard, Retrospective
  <2>2. u = v
    BY <2>1 DEF Supports
  <2> QED BY <2>1, <2>2 DEF Supports
<1>4. ASSUME NEW g \in Groups, NEW v \in Users, s = VoteGroup(r, g, v)
      PROVE  Kept
  <2>1. /\ s.group_id = r.group_id /\ s.votes = r.votes
        /\ \A h \in Groups, w \in Users \ {v} : w \in s.group_votes[h] <=> w \in r.group_votes[h]
    BY <1>4 DEF VoteGroup, Retrospective
  <2>2. u = v
    BY <2>1, <1>1 DEF Supports
  <2>3. \A d \in Cards : r.group_id[d] \in Groups \cup {None}
    BY DEF Retrospective
  <2> QED BY <2>1, <2>2, <2>3 DEF Supports
<1>5. ASSUME NEW g \in Groups, NEW cards \in SUBSET Cards,
             CanCreateGroup(r, g, cards), s = CreateGroup(r, g, cards)
      PROVE  Kept
  <2>1. /\ s.group_id[c] = IF c \in cards THEN g ELSE r.group_id[c]
        /\ s.votes[c] = IF c \in cards THEN {} ELSE r.votes[c]
        /\ s.group_votes = [r.group_votes EXCEPT ![g] = UNION {r.votes[d] : d \in cards}]
    BY <1>5 DEF CreateGroup, Retrospective
  <2>2. s.group_votes[g] = UNION {r.votes[d] : d \in cards}
        /\ \A h \in Groups \ {g} : s.group_votes[h] = r.group_votes[h]
    BY <2>1 DEF Retrospective
  <2>3. CASE c \in cards
    <3>1. r.group_id[c] = None
      BY <2>3, <1>5 DEF CanCreateGroup, Loose
    <3>2. u \in s.group_votes[g]
      BY <3>1, <2>2, <2>3 DEF Supports
    <3> QED BY <3>2, <2>1, <2>3, NoneAssumption DEF Supports
  <2>4. CASE c \notin cards
    <3>1. r.group_id[c] # g
      BY <1>5 DEF CanCreateGroup, Present, Agree
    <3> QED BY <3>1, <2>1, <2>2, <2>4, <1>1 DEF Supports
  <2> QED BY <2>3, <2>4
<1>6. ASSUME NEW g \in Groups, s = Ungroup(r, g)
      PROVE  Kept
  <2>1. /\ s.group_id[c] = IF r.group_id[c] = g THEN None ELSE r.group_id[c]
        /\ s.votes = r.votes
        /\ \A h \in Groups \ {g} : s.group_votes[h] = r.group_votes[h]
    BY <1>6 DEF Ungroup, Retrospective
  <2> QED BY <2>1, <1>1, NoneAssumption DEF Supports
<1> QED BY <1>2, <1>3, <1>4, <1>5, <1>6 DEF BoardStep

\* x is what the live state r ended with, but for the summary.
Matches(x, r) ==
    /\ r.phase = "done"
    /\ [x EXCEPT !.ai_summary = r.ai_summary] = Snapshot(r)
    /\ x.ai_summary => r.ai_summary

LEMMA SnapshotType ==
    ASSUME NEW r \in Retrospective
    PROVE  Snapshot(r) \in Snapshots
<1>1. \A S \in SUBSET Users : Cardinality(S) \in Nat
  BY FS_Subset, FS_CardinalityType, LimitsAssumption
<1>2. /\ \A c \in Cards : Cardinality(r.votes[c]) \in Nat
      /\ \A g \in Groups : Cardinality(r.group_votes[g]) \in Nat
  BY <1>1 DEF Retrospective
<1> QED BY <1>2 DEF Snapshot, Snapshots, Retrospective

LEMMA FinalSnapshotMatches ==
    ASSUME NEW r \in Retrospective
    PROVE  Matches(Snapshot(Finalize(r)), Finalize(r))
<1> DEFINE s == Finalize(r)
<1>1. s.phase = "done"
  BY DEF Finalize, Retrospective
<1>2. Snapshot(s).ai_summary = s.ai_summary
  BY DEF Snapshot
<1>3. [Snapshot(s) EXCEPT !.ai_summary = s.ai_summary] = Snapshot(s)
  BY DEF Snapshot
<1> QED BY <1>1, <1>2, <1>3 DEF Matches

LEMMA MatchesKept ==
    ASSUME NEW r \in Retrospective, NEW s, BoardStep(r, s),
           NEW x \in Snapshots, Matches(x, r)
    PROVE  Matches(x, s)
<1>1. s.phase = "done" /\ Content(s) = Content(r) /\ (r.ai_summary => s.ai_summary)
  BY BoardForward DEF Matches
<1>2. /\ s.section_id = r.section_id /\ s.group_id = r.group_id /\ s.votes = r.votes
      /\ s.card_ids = r.card_ids /\ s.group_votes = r.group_votes
      /\ s.action_items = r.action_items /\ s.phase = r.phase
  BY <1>1 DEF Content, Matches
<1>3. Snapshot(s) = [Snapshot(r) EXCEPT !.ai_summary = s.ai_summary]
  <2> DEFINE counts == [c \in Cards |->
                          IF r.group_id[c] = None THEN Cardinality(r.votes[c]) ELSE 0]
             group_counts == [g \in Groups |-> Cardinality(r.group_votes[g])]
             With(ai) == [phase        |-> r.phase,
                          section_id   |-> r.section_id,
                          group_id     |-> r.group_id,
                          vote_count   |-> counts,
                          card_ids     |-> r.card_ids,
                          group_count  |-> group_counts,
                          action_items |-> r.action_items,
                          ai_summary   |-> ai]
  <2>1. /\ [c \in Cards |-> IF s.group_id[c] = None THEN Cardinality(s.votes[c]) ELSE 0]
              = counts
        /\ [g \in Groups |-> Cardinality(s.group_votes[g])] = group_counts
    BY <1>2, Zenon
  <2>2. Snapshot(s) = With(s.ai_summary)
    BY <2>1, <1>2, Zenon DEF Snapshot
  <2>3. Snapshot(r) = With(r.ai_summary)
    BY Zenon DEF Snapshot
  <2> HIDE DEF counts, group_counts
  <2>4. [With(r.ai_summary) EXCEPT !.ai_summary = s.ai_summary] = With(s.ai_summary)
    OBVIOUS
  <2> QED BY <2>2, <2>3, <2>4, Zenon
<1>4. ASSUME NEW a, NEW b
      PROVE  [[x EXCEPT !.ai_summary = a] EXCEPT !.ai_summary = b]
                = [x EXCEPT !.ai_summary = b]
  BY DEF Snapshots
<1>5. [x EXCEPT !.ai_summary = s.ai_summary] = Snapshot(s)
  BY <1>3, <1>4 DEF Matches
<1> QED BY <1>1, <1>5 DEF Matches

-----------------------------------------------------------------------------
(* The specification.                                                      *)

\* What a request has read fits what it does next.
HeldFits ==
    \A p \in Managers :
        /\ pc[p] \in {"inviting", "minting"} => held[p] \in Rows
        /\ pc[p] = "saving" => held[p] \in Snapshots

Boards == live # NoRetro => Sound(live)

\* The live state is dropped after the row, and a row never comes back.
RowGoesFirst == \A p \in Managers : pc[p] = "dropping" => row = NoRow

\* Snapshots that are stored, or on their way, are of the finished live state.
\* When that is lost one is stored, and nobody is invited.
SnapshotsMatch ==
    row # NoRow =>
        /\ row.status = "done" => row.snapshot # None
        /\ live # NoRetro =>
              /\ row.snapshot # None => Matches(row.snapshot, live)
              /\ \A p \in Managers : pc[p] = "saving" => Matches(held[p], live)
        /\ live = NoRetro => \A p \in Managers :
              /\ pc[p] = "saving" => row.snapshot # None
              /\ pc[p] = "inviting" => row.snapshot = None

SummaryStored ==
    row # NoRow =>
        /\ live # NoRetro /\ live.ai_summary => row.ai
        /\ \A p \in Managers : pc[p] = "showing" => row.ai

IInv == TypeOK /\ HeldFits /\ Boards /\ RowGoesFirst /\ SnapshotsMatch /\ SummaryStored

LEMMA InitInv == Init => IInv
<1> SUFFICES ASSUME Init PROVE IInv
  OBVIOUS
<1>1. live = NoRetro /\ invited = FALSE /\ pc = [p \in Managers |-> "idle"]
      /\ held = [p \in Managers |-> None]
  BY DEF Init
<1>2. row \in Rows /\ row.status = "draft" /\ row.snapshot = None
  BY DEF Init, Rows
<1>3. TypeOK
  BY <1>1, <1>2 DEF TypeOK, Labels
<1>4. HeldFits /\ Boards /\ RowGoesFirst /\ SnapshotsMatch /\ SummaryStored
  BY <1>1, <1>2 DEF HeldFits, Boards, RowGoesFirst, SnapshotsMatch, SummaryStored
<1> QED BY <1>3, <1>4 DEF IInv

LEMMA LoadedBoard ==
    ASSUME IInv, live # NoRetro
    PROVE  Loaded(live) = live /\ Sound(live)
BY NothingToRepair DEF IInv, Boards, Sound

\* What the meeting does is a mutation of the board.
LEMMA MeetingSteps ==
    ASSUME IInv, Meeting
    PROVE  /\ live # NoRetro /\ BoardStep(live, live')
           /\ UNCHANGED <<row, invited, pc, held>>
<1>1. live # NoRetro
  BY DEF Meeting, Join, WriteCard, ToggleVote, GroupCards, EditActions, Collect,
         ChangePhase, Managed
<1>2. Loaded(live) = live /\ live \in Retrospective
  BY <1>1, LoadedBoard DEF Sound
<1>3. UNCHANGED <<row, invited, pc, held>>
  BY DEF Meeting, Join, WriteCard, ToggleVote, GroupCards, EditActions, Collect, ChangePhase
<1>4. CASE Join
  BY <1>2, <1>4 DEF Join, BoardStep
<1>5. CASE WriteCard
  BY <1>2, <1>5 DEF WriteCard, BoardStep
<1>6. CASE ToggleVote
  <2>1. live.participants \subseteq Users
    BY <1>2 DEF Retrospective
  <2> QED BY <2>1, <1>2, <1>6 DEF ToggleVote, BoardStep
<1>7. CASE GroupCards
  BY <1>2, <1>7 DEF GroupCards, Managed, BoardStep
<1>8. CASE EditActions
  BY <1>2, <1>8 DEF EditActions, Managed, BoardStep
<1>9. CASE Collect
  BY <1>2, <1>9 DEF Collect, Managed, BoardStep
<1>10. CASE ChangePhase
  BY <1>2, <1>10 DEF ChangePhase, Managed, BoardStep
<1>11. BoardStep(live, live')
  BY <1>4, <1>5, <1>6, <1>7, <1>8, <1>9, <1>10 DEF Meeting
<1> QED BY <1>1, <1>3, <1>11

\* Nothing is done to the live state but that it begins, goes, or is mutated.
LiveStep ==
    \/ live' = live
    \/ live' = NoRetro
    \/ live = NoRetro /\ \E budget \in Budgets : live' = FromConfig(budget)
    \/ live # NoRetro /\ BoardStep(live, live')

LEMMA OnlyBoardSteps ==
    ASSUME IInv, [Next]_vars
    PROVE  LiveStep
<1>1. CASE UNCHANGED vars
  BY <1>1 DEF vars, LiveStep
<1>2. CASE Meeting
  BY <1>2, MeetingSteps DEF LiveStep
<1>3. ASSUME NEW p \in Managers, Ensure(p)
      PROVE  LiveStep
  <2>1. held[p].config \in Budgets
    BY <1>3 DEF Ensure, IInv, HeldFits, Rows
  <2> QED BY <2>1, <1>3 DEF Ensure, LiveStep
<1>4. ASSUME NEW p \in Managers, FinalizeLive(p)
      PROVE  LiveStep
  BY <1>4, LoadedBoard DEF FinalizeLive, Managed, LiveStep, BoardStep
<1>5. ASSUME NEW p \in Managers, ShowSummary(p)
      PROVE  LiveStep
  BY <1>5, LoadedBoard DEF ShowSummary, LiveStep, BoardStep
<1>6. ASSUME NEW p \in Managers,
             \/ ReadRow(p) \/ Mint(p) \/ CheckDraft(p) \/ SaveConfig(p) \/ SaveSnapshot(p)
             \/ Analyze(p) \/ Recall(p) \/ StoreSummary(p) \/ DeleteRow(p) \/ Abandon(p)
      PROVE  LiveStep
  BY <1>6 DEF ReadRow, Mint, CheckDraft, SaveConfig, SaveSnapshot, Analyze, Recall,
              StoreSummary, DeleteRow, Abandon, LiveStep
<1>7. ASSUME NEW p \in Managers, DropLive(p)
      PROVE  LiveStep
  BY <1>7 DEF DropLive, LiveStep
<1>8. CASE Lose
  BY <1>8 DEF Lose, LiveStep
<1> QED BY <1>1, <1>2, <1>3, <1>4, <1>5, <1>6, <1>7, <1>8 DEF Next, Request

LEMMA BoardsKept ==
    ASSUME IInv, [Next]_vars
    PROVE  Boards' /\ live' \in Retrospective \cup {NoRetro}
<1>1. LiveStep
  BY OnlyBoardSteps
<1>2. live # NoRetro => Sound(live)
  BY DEF IInv, Boards
<1>3. live' # NoRetro => Sound(live')
  BY <1>1, <1>2, BoardSound, FromConfigSound DEF LiveStep
<1> QED BY <1>3 DEF Boards, Sound

\* While the row is there the live state is not dropped, unless Redis loses it,
\* and its matching snapshots go on matching.
LEMMA LiveWithRow ==
    ASSUME IInv, [Next]_vars, row # NoRow, live # NoRetro
    PROVE  \/ Lose
           \/ /\ live' # NoRetro
              /\ \A x \in Snapshots : Matches(x, live) => Matches(x, live')
<1>1. Sound(live) /\ live \in Retrospective
  BY DEF IInv, Boards, Sound
<1>2. ASSUME BoardStep(live, live')
      PROVE  /\ live' # NoRetro
             /\ \A x \in Snapshots : Matches(x, live) => Matches(x, live')
  BY <1>1, <1>2, BoardType, MatchesKept, SentinelsAssumption
<1>3. \A p \in Managers : ~DropLive(p)
  BY DEF DropLive, IInv, RowGoesFirst
<1>4. Lose \/ live' = live \/ BoardStep(live, live')
  <2>1. CASE UNCHANGED vars
    BY <2>1 DEF vars
  <2>2. CASE Meeting
    BY <2>2, MeetingSteps
  <2>3. ASSUME NEW p \in Managers, Ensure(p)
        PROVE  live' = live
    BY <2>3 DEF Ensure
  <2>4. ASSUME NEW p \in Managers, FinalizeLive(p)
        PROVE  BoardStep(live, live')
    BY <2>4, LoadedBoard DEF FinalizeLive, BoardStep
  <2>5. ASSUME NEW p \in Managers, ShowSummary(p)
        PROVE  BoardStep(live, live')
    BY <2>5, LoadedBoard DEF ShowSummary, BoardStep
  <2>6. ASSUME NEW p \in Managers,
               \/ ReadRow(p) \/ Mint(p) \/ CheckDraft(p) \/ SaveConfig(p) \/ SaveSnapshot(p)
               \/ Analyze(p) \/ Recall(p) \/ StoreSummary(p) \/ DeleteRow(p) \/ Abandon(p)
        PROVE  live' = live
    BY <2>6 DEF ReadRow, Mint, CheckDraft, SaveConfig, SaveSnapshot, Analyze, Recall,
                StoreSummary, DeleteRow, Abandon
  <2> QED BY <2>1, <2>2, <2>3, <2>4, <2>5, <2>6, <1>3 DEF Next, Request
<1> QED BY <1>2, <1>4

\* A live state begins with an invitation.
LEMMA EnsureBegins ==
    ASSUME IInv, [Next]_vars, live = NoRetro, live' # NoRetro
    PROVE  \E p \in Managers : Ensure(p)
<1>1. CASE UNCHANGED vars
  BY <1>1 DEF vars
<1>2. CASE Meeting
  BY <1>2, MeetingSteps
<1>3. CASE Lose
  BY <1>3 DEF Lose
<1>4. ASSUME NEW p \in Managers, Request(p)
      PROVE  Ensure(p)
  BY <1>4 DEF Request, ReadRow, Mint, CheckDraft, SaveConfig, FinalizeLive, SaveSnapshot,
              Analyze, Recall, StoreSummary, ShowSummary, DeleteRow, DropLive, Abandon
<1> QED BY <1>1, <1>2, <1>3, <1>4 DEF Next

LEMMA TypeKept ==
    ASSUME IInv, [Next]_vars
    PROVE  TypeOK'
<1> DEFINE Rest == /\ row' \in Rows \cup {NoRow}
                   /\ invited' \in BOOLEAN
                   /\ pc' \in [Managers -> Labels]
                   /\ held' \in [Managers -> Rows \cup Snapshots \cup {None}]
<1>1. /\ row \in Rows \cup {NoRow} /\ invited \in BOOLEAN
      /\ pc \in [Managers -> Labels]
      /\ held \in [Managers -> Rows \cup Snapshots \cup {None}]
      /\ HeldFits
  BY DEF IInv, TypeOK
<1>2. ASSUME NEW p \in Managers, NEW label \in Labels,
             NEW what \in Rows \cup Snapshots \cup {None}, Goto(p, label, what)
      PROVE  /\ pc' \in [Managers -> Labels]
             /\ held' \in [Managers -> Rows \cup Snapshots \cup {None}]
  BY <1>1, <1>2 DEF Goto
<1>3. {"idle", "inviting", "minting", "updating", "saving", "recalling", "asking", "showing",
        "dropping"} \subseteq Labels
  BY DEF Labels
<1>4. ASSUME UNCHANGED vars
      PROVE  Rest
  BY <1>1, <1>4 DEF vars
<1>5. ASSUME Meeting
      PROVE  Rest
  <2>1. UNCHANGED <<row, invited, pc, held>>
    BY <1>5, MeetingSteps
  <2> QED BY <2>1, <1>1
<1>6. ASSUME NEW p \in Managers, ReadRow(p)
      PROVE  Rest
  BY <1>6, <1>1, <1>2, <1>3 DEF ReadRow
<1>7. ASSUME NEW p \in Managers, Ensure(p)
      PROVE  Rest
  <2>1. held[p] \in Rows
    BY <1>7, <1>1 DEF Ensure, HeldFits
  <2> QED BY <2>1, <1>7, <1>1, <1>2, <1>3 DEF Ensure
<1>8. ASSUME NEW p \in Managers, Mint(p)
      PROVE  Rest
  <2>1. row' \in Rows \cup {NoRow}
    BY <1>8, <1>1 DEF Mint, UpdateRow, Rows
  <2> QED BY <2>1, <1>8, <1>2, <1>3 DEF Mint
<1>9. ASSUME NEW p \in Managers, SaveConfig(p)
      PROVE  Rest
  <2>1. row' \in Rows \cup {NoRow}
    BY <1>9, <1>1 DEF SaveConfig, UpdateRow, Rows
  <2> QED BY <2>1, <1>9, <1>1, <1>2, <1>3 DEF SaveConfig
<1>10. ASSUME NEW p \in Managers, FinalizeLive(p)
       PROVE  Rest
  <2>1. Snapshot(live') \in Snapshots
    BY <1>10, LoadedBoard, BoardType, SnapshotType
       DEF FinalizeLive, Managed, BoardStep, Sound
  <2> QED BY <2>1, <1>10, <1>1, <1>2, <1>3 DEF FinalizeLive
<1>11. ASSUME NEW p \in Managers, SaveSnapshot(p)
       PROVE  Rest
  <2>1. held[p] \in Snapshots
    BY <1>11, <1>1 DEF SaveSnapshot, HeldFits
  <2>2. row' \in Rows \cup {NoRow}
    BY <2>1, <1>11, <1>1 DEF SaveSnapshot, UpdateRow, Rows
  <2> QED BY <2>2, <1>11, <1>1, <1>2, <1>3 DEF SaveSnapshot
<1>12. ASSUME NEW p \in Managers, StoreSummary(p)
       PROVE  Rest
  <2>1. row' \in Rows \cup {NoRow}
    BY <1>12, <1>1 DEF StoreSummary, UpdateRow, Rows
  <2> QED BY <2>1, <1>12, <1>1, <1>2, <1>3 DEF StoreSummary
<1>13. ASSUME NEW p \in Managers, DeleteRow(p)
       PROVE  Rest
  BY <1>13, <1>1, <1>2, <1>3 DEF DeleteRow
<1>14. ASSUME NEW p \in Managers, CheckDraft(p) \/ Analyze(p) \/ Recall(p)
       PROVE  Rest
  BY <1>14, <1>1, <1>2, <1>3 DEF CheckDraft, Analyze, Recall
<1>15. ASSUME NEW p \in Managers, ShowSummary(p) \/ DropLive(p) \/ Abandon(p)
       PROVE  Rest
  BY <1>15, <1>1, <1>2, <1>3 DEF ShowSummary, DropLive, Abandon
<1>16. ASSUME Lose
       PROVE  Rest
  BY <1>1, <1>16 DEF Lose
<1>17. Rest
  BY <1>16, <1>4, <1>5, <1>6, <1>7, <1>8, <1>9, <1>10, <1>11, <1>12, <1>13, <1>14, <1>15
     DEF Next, Request
<1> QED BY <1>17, BoardsKept DEF TypeOK

\* Who does what next, of whom what has been read still fits.
LEMMA RequestsKept ==
    ASSUME IInv, [Next]_vars
    PROVE  HeldFits' /\ RowGoesFirst'
<1>1. /\ pc \in [Managers -> Labels]
      /\ held \in [Managers -> Rows \cup Snapshots \cup {None}]
      /\ row \in Rows \cup {NoRow}
      /\ HeldFits /\ RowGoesFirst
  BY DEF IInv, TypeOK
<1>2. row = NoRow => row' = NoRow
  <2>1. CASE UNCHANGED vars
    BY <2>1 DEF vars
  <2>2. CASE Meeting
    BY <2>2, MeetingSteps
  <2>3. ASSUME NEW p \in Managers, Request(p), row = NoRow
        PROVE  row' = NoRow
    BY <2>3 DEF Request, ReadRow, Ensure, Mint, CheckDraft, SaveConfig, FinalizeLive,
                SaveSnapshot, Analyze, Recall, StoreSummary, ShowSummary, DeleteRow, DropLive,
                Abandon, UpdateRow
  <2>4. CASE Lose
    BY <2>4 DEF Lose
  <2> QED BY <2>1, <2>2, <2>3, <2>4 DEF Next
<1>3. CASE UNCHANGED vars
  BY <1>1, <1>3 DEF vars, HeldFits, RowGoesFirst
<1>4. CASE Meeting
  BY <1>1, <1>4, MeetingSteps DEF HeldFits, RowGoesFirst
<1>5. ASSUME NEW p \in Managers, NEW label, NEW what, Goto(p, label, what),
             label \in {"inviting", "minting"} => what \in Rows,
             label = "saving" => what \in Snapshots,
             label = "dropping" => row' = NoRow
      PROVE  HeldFits' /\ RowGoesFirst'
  BY <1>1, <1>2, <1>5 DEF Goto, HeldFits, RowGoesFirst
<1>6. ASSUME NEW p \in Managers, ReadRow(p)
      PROVE  HeldFits' /\ RowGoesFirst'
  BY <1>6, <1>1, <1>5 DEF ReadRow
<1>7. ASSUME NEW p \in Managers, Ensure(p)
      PROVE  HeldFits' /\ RowGoesFirst'
  <2>1. held[p] \in Rows
    BY <1>7, <1>1 DEF Ensure, HeldFits
  <2> QED BY <2>1, <1>7, <1>5 DEF Ensure
<1>8. ASSUME NEW p \in Managers, FinalizeLive(p)
      PROVE  HeldFits' /\ RowGoesFirst'
  <2>1. Snapshot(live') \in Snapshots
    BY <1>8, LoadedBoard, BoardType, SnapshotType
       DEF FinalizeLive, Managed, BoardStep, Sound
  <2> QED BY <2>1, <1>8, <1>5 DEF FinalizeLive
<1>9. ASSUME NEW p \in Managers, DeleteRow(p)
      PROVE  HeldFits' /\ RowGoesFirst'
  BY <1>9, <1>5 DEF DeleteRow
<1>10. ASSUME NEW p \in Managers,
              \/ Mint(p) \/ CheckDraft(p) \/ SaveConfig(p) \/ SaveSnapshot(p) \/ Analyze(p)
              \/ Recall(p) \/ StoreSummary(p) \/ ShowSummary(p) \/ DropLive(p) \/ Abandon(p)
       PROVE  HeldFits' /\ RowGoesFirst'
  <2>1. PICK label \in {"idle", "updating", "recalling", "asking", "showing"} :
          Goto(p, label, None)
    BY <1>10 DEF Mint, CheckDraft, SaveConfig, SaveSnapshot, Analyze, Recall, StoreSummary,
                 ShowSummary, DropLive, Abandon
  <2> QED BY <2>1, <1>5
<1>11. CASE Lose
  BY <1>1, <1>11 DEF Lose, HeldFits, RowGoesFirst
<1> QED BY <1>3, <1>4, <1>6, <1>7, <1>8, <1>9, <1>10, <1>11 DEF Next, Request

LEMMA SnapshotsKept ==
    ASSUME IInv, [Next]_vars
    PROVE  SnapshotsMatch'
<1> SUFFICES ASSUME row' # NoRow
             PROVE  /\ row'.status = "done" => row'.snapshot # None
                    /\ live' # NoRetro =>
                          /\ row'.snapshot # None => Matches(row'.snapshot, live')
                          /\ \A p \in Managers : pc'[p] = "saving" => Matches(held'[p], live')
                    /\ live' = NoRetro => \A p \in Managers :
                          /\ pc'[p] = "saving" => row'.snapshot # None
                          /\ pc'[p] = "inviting" => row'.snapshot = None
  BY DEF SnapshotsMatch
<1> DEFINE Good(x) == live' # NoRetro => Matches(x, live')
           RowGood  == /\ row'.status = "done" => row'.snapshot # None
                       /\ row'.snapshot # None => Good(row'.snapshot)
           HeldGood == \A p \in Managers : pc'[p] = "saving" => Good(held'[p])
           LostGood == live' = NoRetro => \A p \in Managers :
                          /\ pc'[p] = "saving" => row'.snapshot # None
                          /\ pc'[p] = "inviting" => row'.snapshot = None
<1>1. /\ pc \in [Managers -> Labels]
      /\ held \in [Managers -> Rows \cup Snapshots \cup {None}]
      /\ HeldFits /\ SnapshotsMatch
  BY DEF IInv, TypeOK
<1>2. row # NoRow /\ row \in Rows
  <2>1. row \in Rows \cup {NoRow}
    BY DEF IInv, TypeOK
  <2>2. CASE UNCHANGED vars
    BY <2>1, <2>2 DEF vars
  <2>3. CASE Meeting
    BY <2>1, <2>3, MeetingSteps
  <2>4. ASSUME NEW p \in Managers, Request(p), row = NoRow
        PROVE  row' = NoRow
    BY <2>4 DEF Request, ReadRow, Ensure, Mint, CheckDraft, SaveConfig, FinalizeLive,
                SaveSnapshot, Analyze, Recall, StoreSummary, ShowSummary, DeleteRow, DropLive,
                Abandon, UpdateRow
  <2>5. CASE Lose
    BY <2>1, <2>5 DEF Lose
  <2> QED BY <2>1, <2>2, <2>3, <2>4, <2>5 DEF Next
<1>3. ASSUME NEW x \in Snapshots, live # NoRetro, Matches(x, live)
      PROVE  Good(x)
  <2>1. Lose => live' = NoRetro
    BY DEF Lose
  <2> QED BY <2>1, <1>2, <1>3, LiveWithRow
<1>4. row.snapshot \in Snapshots \cup {None}
  BY <1>2 DEF Rows
<1>5. live = NoRetro /\ live' # NoRetro =>
          row.snapshot = None /\ \A p \in Managers : pc[p] # "saving"
  <2> SUFFICES ASSUME live = NoRetro, live' # NoRetro
               PROVE  row.snapshot = None /\ \A p \in Managers : pc[p] # "saving"
    OBVIOUS
  <2>1. PICK p \in Managers : pc[p] = "inviting"
    BY EnsureBegins DEF Ensure
  <2> QED BY <2>1, <1>1, <1>2 DEF SnapshotsMatch
<1>6. /\ row.status = "done" => row.snapshot # None
      /\ row.snapshot # None => Good(row.snapshot)
  BY <1>1, <1>2, <1>3, <1>4, <1>5 DEF SnapshotsMatch
<1>7. \A p \in Managers : pc[p] = "saving" => Good(held[p])
  BY <1>1, <1>2, <1>3, <1>5 DEF SnapshotsMatch, HeldFits
<1>8. live = NoRetro => \A p \in Managers : /\ pc[p] = "saving" => row.snapshot # None
                                            /\ pc[p] = "inviting" => row.snapshot = None
  BY <1>1, <1>2 DEF SnapshotsMatch
<1> HIDE DEF Good
<1>9. ASSUME row'.snapshot = row.snapshot, row'.status # "done" \/ row.status = "done"
      PROVE  RowGood
  BY <1>6, <1>9
<1>10. ASSUME NEW p \in Managers, NEW label, NEW what, Goto(p, label, what),
             label = "saving" => Good(what)
      PROVE  HeldGood
  BY <1>1, <1>7, <1>10 DEF Goto
<1>11. ASSUME UNCHANGED vars
      PROVE  RowGood /\ HeldGood
  BY <1>6, <1>7, <1>11 DEF vars
<1>12. ASSUME Meeting
       PROVE  RowGood /\ HeldGood
  BY <1>6, <1>7, <1>12, MeetingSteps
<1>13. ASSUME NEW p \in Managers, Mint(p)
       PROVE  RowGood /\ HeldGood
  <2>1. held[p].status = "draft" \/ held[p].status # "draft"
    OBVIOUS
  <2>2. row'.snapshot = row.snapshot /\ (row'.status # "done" \/ row.status = "done")
    BY <1>2, <1>13 DEF Mint, UpdateRow, Rows
  <2> QED BY <2>2, <1>9, <1>10, <1>13 DEF Mint
<1>14. ASSUME NEW p \in Managers, SaveConfig(p)
       PROVE  RowGood /\ HeldGood
  <2>1. row'.snapshot = row.snapshot /\ row'.status = row.status
    BY <1>2, <1>14 DEF SaveConfig, UpdateRow, Rows
  <2> QED BY <2>1, <1>9, <1>10, <1>14 DEF SaveConfig
<1>15. ASSUME NEW p \in Managers, StoreSummary(p)
       PROVE  RowGood /\ HeldGood
  <2>1. row'.snapshot = row.snapshot /\ row'.status = row.status
    BY <1>2, <1>15 DEF StoreSummary, UpdateRow, Rows
  <2> QED BY <2>1, <1>9, <1>10, <1>15 DEF StoreSummary
<1>16. ASSUME NEW p \in Managers, FinalizeLive(p)
       PROVE  RowGood /\ HeldGood
  <2>1. live # NoRetro /\ live' = Finalize(live) /\ live \in Retrospective
    BY <1>16, LoadedBoard DEF FinalizeLive, Managed, Sound
  <2>2. live' # NoRetro
    BY <2>1, BoardType, SentinelsAssumption DEF BoardStep
  <2>3. Good(Snapshot(live'))
    BY <2>1, <2>2, FinalSnapshotMatches DEF Good
  <2> QED BY <2>3, <1>6, <1>10, <1>16 DEF FinalizeLive
<1>17. ASSUME NEW p \in Managers, SaveSnapshot(p)
       PROVE  RowGood /\ HeldGood
  <2>1. held[p] \in Snapshots /\ Good(held[p])
    BY <1>1, <1>7, <1>17 DEF SaveSnapshot, HeldFits
  <2>2. held[p] # None
    BY <2>1, SentinelsAssumption
  <2>3. row'.snapshot = held[p]
    BY <1>2, <1>17 DEF SaveSnapshot, UpdateRow, Rows
  <2> QED BY <2>1, <2>2, <2>3, <1>10, <1>17 DEF SaveSnapshot
<1>18. ASSUME NEW p \in Managers, DeleteRow(p)
       PROVE  RowGood /\ HeldGood
  BY <1>18 DEF DeleteRow
<1>19. ASSUME NEW p \in Managers,
              \/ ReadRow(p) \/ Ensure(p) \/ CheckDraft(p) \/ Analyze(p) \/ Recall(p)
              \/ ShowSummary(p) \/ DropLive(p) \/ Abandon(p)
       PROVE  RowGood /\ HeldGood
  <2>1. row' = row
    BY <1>19 DEF ReadRow, Ensure, CheckDraft, Analyze, Recall, ShowSummary, DropLive, Abandon
  <2>2. PICK label \in Labels \ {"saving"}, what \in Rows \cup Snapshots \cup {None} :
          Goto(p, label, what)
    BY <1>1, <1>2, <1>19 DEF ReadRow, Ensure, CheckDraft, Analyze, Recall, ShowSummary,
                             DropLive, Abandon, Labels
  <2> QED BY <2>1, <2>2, <1>6, <1>10
<1>20. ASSUME Lose
       PROVE  RowGood /\ HeldGood
  <2>1. UNCHANGED <<row, pc, held>>
    BY <1>20 DEF Lose
  <2> QED BY <2>1, <1>6, <1>7
<1>21. RowGood /\ HeldGood
  BY <1>11, <1>12, <1>13, <1>14, <1>15, <1>16, <1>17, <1>18, <1>19, <1>20 DEF Next, Request
<1>22. LostGood
  <2> SUFFICES ASSUME live' = NoRetro
               PROVE  \A p \in Managers : /\ pc'[p] = "saving" => row'.snapshot # None
                                          /\ pc'[p] = "inviting" => row'.snapshot = None
    OBVIOUS
  <2>1. CASE Lose
    BY <1>2, <2>1 DEF Lose
  <2>2. CASE ~ Lose
    <3>1. live = NoRetro
      BY <1>2, <2>2, LiveWithRow
    <3>2. ASSUME UNCHANGED <<row, pc>>
          PROVE  LostGood
      BY <1>8, <3>1, <3>2
    <3>3. ASSUME NEW p \in Managers, NEW label, NEW what, Goto(p, label, what),
                 row'.snapshot = row.snapshot, label # "saving",
                 label = "inviting" => row.snapshot = None
          PROVE  LostGood
      BY <1>1, <1>8, <3>1, <3>3 DEF Goto
    <3>4. ASSUME UNCHANGED vars
          PROVE  LostGood
      BY <3>2, <3>4 DEF vars
    <3>5. ~ Meeting
      BY <3>1, MeetingSteps
    <3>6. ASSUME NEW p \in Managers, ReadRow(p)
          PROVE  LostGood
      BY <1>2, <3>1, <3>3, <3>6 DEF ReadRow
    <3>7. ASSUME NEW p \in Managers, Mint(p) \/ SaveConfig(p) \/ StoreSummary(p)
          PROVE  LostGood
      <4>1. row'.snapshot = row.snapshot
        BY <1>2, <3>7 DEF Mint, SaveConfig, StoreSummary, UpdateRow, Rows
      <4>2. Goto(p, "idle", None) \/ Goto(p, "showing", None)
        BY <3>7 DEF Mint, SaveConfig, StoreSummary
      <4> QED BY <4>1, <4>2, <3>3
    <3>8. ASSUME NEW p \in Managers, SaveSnapshot(p)
          PROVE  LostGood
      <4>1. pc[p] = "saving" /\ Goto(p, "idle", None)
        BY <3>8 DEF SaveSnapshot
      <4>2. row'.snapshot = held[p] /\ held[p] # None
        BY <1>1, <1>2, <3>8, SentinelsAssumption DEF SaveSnapshot, UpdateRow, Rows, HeldFits
      <4>3. \A o \in Managers : pc[o] # "inviting"
        BY <1>8, <3>1, <4>1
      <4> QED BY <1>1, <4>1, <4>2, <4>3 DEF Goto
    <3>9. ASSUME NEW p \in Managers, FinalizeLive(p)
          PROVE  LostGood
      BY <3>1, <3>9 DEF FinalizeLive
    <3>10. ASSUME NEW p \in Managers,
                  \/ Ensure(p) \/ CheckDraft(p) \/ Analyze(p) \/ Recall(p) \/ ShowSummary(p)
                  \/ DropLive(p) \/ Abandon(p)
           PROVE  LostGood
      <4>1. row' = row
        BY <3>10 DEF Ensure, CheckDraft, Analyze, Recall, ShowSummary, DropLive, Abandon
      <4>2. PICK label \in Labels \ {"saving", "inviting"},
                 what \in Rows \cup Snapshots \cup {None} : Goto(p, label, what)
        BY <1>1, <1>2, <3>10 DEF Ensure, CheckDraft, Analyze, Recall, ShowSummary, DropLive,
                                 Abandon, Labels
      <4> QED BY <4>1, <4>2, <3>3
    <3>11. ASSUME NEW p \in Managers, DeleteRow(p)
           PROVE  LostGood
      BY <3>11 DEF DeleteRow
    <3> HIDE DEF LostGood
    <3>12. LostGood
      BY <2>2, <3>4, <3>5, <3>6, <3>7, <3>8, <3>9, <3>10, <3>11 DEF Next, Request
    <3> QED BY <3>12 DEF LostGood
  <2> QED BY <2>1, <2>2
<1> QED BY <1>21, <1>22 DEF Good

LEMMA SummaryKept ==
    ASSUME IInv, [Next]_vars
    PROVE  SummaryStored'
<1> SUFFICES ASSUME row' # NoRow
             PROVE  /\ live' # NoRetro /\ live'.ai_summary => row'.ai
                    /\ \A p \in Managers : pc'[p] = "showing" => row'.ai
  BY DEF SummaryStored
<1> DEFINE Stored == /\ live' # NoRetro /\ live'.ai_summary => row'.ai
                     /\ \A p \in Managers : pc'[p] = "showing" => row'.ai
<1>1. /\ pc \in [Managers -> Labels] /\ row \in Rows \cup {NoRow}
      /\ live # NoRetro => live \in Retrospective
      /\ row # NoRow => /\ live # NoRetro /\ live.ai_summary => row.ai
                        /\ \A p \in Managers : pc[p] = "showing" => row.ai
  BY DEF IInv, TypeOK, SummaryStored
<1>2. ASSUME UNCHANGED vars
      PROVE  Stored
  BY <1>1, <1>2 DEF vars
<1>3. ASSUME Meeting
      PROVE  Stored
  <2>1. live # NoRetro /\ BoardStep(live, live') /\ UNCHANGED <<row, pc>>
    BY <1>3, MeetingSteps
  <2>2. live'.ai_summary = live.ai_summary
    <3>1. Loaded(live) = live /\ live \in Retrospective
      BY <2>1, LoadedBoard DEF Sound
    <3>2. CASE Join
      BY <3>1, <3>2 DEF Join, AddParticipant, Retrospective
    <3>3. CASE WriteCard
      BY <3>1, <3>3 DEF WriteCard, AddCard, Retrospective
    <3>4. CASE ToggleVote
      BY <3>1, <3>4 DEF ToggleVote, VoteCard, VoteGroup, Retrospective
    <3>5. CASE GroupCards
      <4>1. ASSUME NEW g \in Groups, NEW cards \in SUBSET Cards
            PROVE  CreateGroup(live, g, cards).ai_summary = live.ai_summary
        BY <3>1 DEF CreateGroup, Retrospective
      <4>2. ASSUME NEW g \in Groups
            PROVE  Ungroup(live, g).ai_summary = live.ai_summary
        BY <3>1 DEF Ungroup, Retrospective
      <4>3. \/ \E g \in Groups, cards \in SUBSET Cards : live' = CreateGroup(live, g, cards)
            \/ \E g \in Groups : live' = Ungroup(live, g)
        BY <3>1, <3>5 DEF GroupCards
      <4> QED BY <4>1, <4>2, <4>3
    <3>6. CASE EditActions
      BY <3>1, <3>6 DEF EditActions, AddActionItem, RemoveActionItem, Retrospective
    <3>7. CASE Collect
      BY <3>1, <3>7 DEF Collect, OpenSection, CloseSection, Retrospective
    <3>8. CASE ChangePhase
      BY <3>1, <3>8 DEF ChangePhase, StartVoting, StartDiscussion, Retrospective
    <3> QED BY <1>3, <3>2, <3>3, <3>4, <3>5, <3>6, <3>7, <3>8 DEF Meeting
  <2> QED BY <2>1, <2>2, <1>1
<1>4. ASSUME NEW p \in Managers, Ensure(p)
      PROVE  Stored
  <2>1. row' = row /\ \A q \in Managers : pc'[q] = "showing" => pc[q] = "showing"
    BY <1>1, <1>4 DEF Ensure, Goto
  <2>2. live' = live \/ ~live'.ai_summary
    BY <1>4 DEF Ensure, FromConfig
  <2> QED BY <2>1, <2>2, <1>1
<1>5. ASSUME NEW p \in Managers, FinalizeLive(p)
      PROVE  Stored
  <2>1. /\ live # NoRetro /\ live'.ai_summary = live.ai_summary /\ row' = row
        /\ \A q \in Managers : pc'[q] = "showing" => pc[q] = "showing"
    BY <1>1, <1>5, LoadedBoard DEF FinalizeLive, Managed, Goto, Finalize, Retrospective
  <2> QED BY <2>1, <1>1
<1>6. ASSUME NEW p \in Managers, StoreSummary(p)
      PROVE  Stored
  <2>1. row'.ai
    BY <1>1, <1>6 DEF StoreSummary, UpdateRow, Rows
  <2> QED BY <2>1
<1>7. ASSUME NEW p \in Managers, ShowSummary(p)
      PROVE  Stored
  <2>1. row' = row /\ pc[p] = "showing"
        /\ \A q \in Managers : pc'[q] = "showing" => pc[q] = "showing"
    BY <1>1, <1>7 DEF ShowSummary, Goto
  <2> QED BY <2>1, <1>1
<1>8. ASSUME NEW p \in Managers, Mint(p) \/ SaveConfig(p) \/ SaveSnapshot(p)
      PROVE  Stored
  <2>1. row # NoRow /\ row \in Rows
    BY <1>1, <1>8 DEF Mint, SaveConfig, SaveSnapshot, UpdateRow
  <2>2. row'.ai = row.ai
    BY <2>1, <1>8 DEF Mint, SaveConfig, SaveSnapshot, UpdateRow, Rows
  <2>3. live' = live /\ \A q \in Managers : pc'[q] = "showing" => pc[q] = "showing"
    BY <1>1, <1>8 DEF Mint, SaveConfig, SaveSnapshot, Goto
  <2> QED BY <2>1, <2>2, <2>3, <1>1
<1>9. ASSUME NEW p \in Managers,
             ReadRow(p) \/ CheckDraft(p) \/ Analyze(p) \/ Recall(p) \/ Abandon(p)
      PROVE  Stored
  <2>1. row' = row /\ live' = live
        /\ \A q \in Managers : pc'[q] = "showing" => pc[q] = "showing"
    BY <1>1, <1>9 DEF ReadRow, CheckDraft, Analyze, Recall, Abandon, Goto
  <2> QED BY <2>1, <1>1
<1>10. ASSUME NEW p \in Managers, DeleteRow(p) \/ DropLive(p)
       PROVE  Stored
  <2>1. row' = NoRow
    BY <1>10 DEF DeleteRow, DropLive, IInv, RowGoesFirst
  <2> QED BY <2>1
<1>11. CASE Lose
  BY <1>1, <1>11 DEF Lose
<1> QED BY <1>2, <1>3, <1>4, <1>5, <1>6, <1>7, <1>8, <1>9, <1>10, <1>11 DEF Next, Request

\* IInv is inductive.
THEOREM RetroInductive == Spec => []IInv
<1>1. IInv /\ [Next]_vars => IInv'
  BY TypeKept, BoardsKept, RequestsKept, SnapshotsKept, SummaryKept DEF IInv
<1> QED BY <1>1, InitInv, PTL DEF Spec

\* The live state, the row and what the requests hold are always well-formed
\* (retro_api.py, the handlers; domain/retro.py, the mutators).
THEOREM RetroTypeCorrect == Spec => []TypeOK
<1>1. IInv => TypeOK
  BY DEF IInv
<1> QED BY <1>1, RetroInductive, PTL

\* Cards and groups agree on who is in which group (create_group, ungroup,
\* add_card), so what from_dict repairs is never broken.
THEOREM GroupsAlwaysAgree == Spec => []GroupsAgree
<1>1. IInv => GroupsAgree
  <2> SUFFICES ASSUME IInv, live # NoRetro, Agree(live)
               PROVE  GroupsAgree
    BY DEF IInv, Boards, Sound, GroupsAgree
  <2> QED BY DEF GroupsAgree, Agree, Present, Written
<1> QED BY <1>1, RetroInductive, PTL

\* The budget of toggle_vote holds across cards and groups, and through
\* grouping and ungrouping, for any number of voters, cards and groups.
THEOREM BudgetHolds == Spec => []WithinBudget
<1>1. IInv => WithinBudget
  BY DEF IInv, Boards, Sound, Thrifty, WithinBudget
<1> QED BY <1>1, RetroInductive, PTL

\* Cards and votes match the phase (add_card, start_voting, toggle_vote).
THEOREM InputFollowsPhase == Spec => []InputMatchesPhase
<1>1. IInv => InputMatchesPhase
  <2> SUFFICES ASSUME live # NoRetro, Ordered(live)
               PROVE  InputMatchesPhase
    BY DEF IInv, Boards, Sound, InputMatchesPhase
  <2> QED BY DEF InputMatchesPhase, Ordered, Written
<1> QED BY <1>1, RetroInductive, PTL

\* The stored snapshot is the one of the finished live state, whatever the
\* order in which cms_retro_finalize requests store theirs.
THEOREM SnapshotsAreFinal == Spec => []SnapshotIsFinal
<1>1. IInv => SnapshotIsFinal
  BY DEF IInv, SnapshotsMatch, Matches, SnapshotIsFinal
<1> QED BY <1>1, RetroInductive, PTL

\* run_retro_ai_job shows no summary it has not stored.
THEOREM SummariesAreStored == Spec => []ShownIsStored
<1>1. IInv => ShownIsStored
  BY DEF IInv, SummaryStored, ShownIsStored
<1> QED BY <1>1, RetroInductive, PTL

\* No request, however late, changes a finished retrospective or takes one
\* back to an earlier phase.
THEOREM FinishedStaysFrozen == Spec => FinishedIsFrozen
<1>1. ASSUME IInv, [Next]_vars, live # NoRetro, live' # NoRetro
      PROVE  /\ Rank[live.phase] <= Rank[live'.phase]
             /\ live.phase = "done" => Content(live') = Content(live)
  <2>1. live \in Retrospective
    BY <1>1 DEF IInv, TypeOK
  <2>2. live' = live \/ BoardStep(live, live')
    BY <1>1, OnlyBoardSteps DEF LiveStep
  <2>3. \A a \in PHASES : Rank[a] \in Nat
    BY DEF Rank, PHASES
  <2>4. live.phase \in PHASES
    BY <2>1 DEF Retrospective
  <2>5. CASE live' = live
    BY <2>3, <2>4, <2>5
  <2>6. CASE BoardStep(live, live')
    BY <2>1, <2>6, BoardForward
  <2> QED BY <2>2, <2>5, <2>6
<1>2. IInv /\ [Next]_vars => [live # NoRetro /\ live' # NoRetro =>
          /\ Rank[live.phase] <= Rank[live'.phase]
          /\ live.phase = "done" => Content(live') = Content(live)]_vars
  BY <1>1
<1> QED BY <1>2, RetroInductive, PTL DEF Spec, FinishedIsFrozen

\* A vote is only lost when its owner takes it back or its group is taken
\* apart (toggle_vote, ungroup); create_group keeps every vote.
THEOREM VotesAreKept == Spec => VotesKept
<1> DEFINE Kept(r, s, u, c) ==
              \/ r.group_id[c] # None /\ s.group_id[c] = None
              \/ /\ s.group_id = r.group_id
                 /\ \A v \in Users \ {u}, d \in Cards :
                       Supports(s, v, d) = Supports(r, v, d)
<1>1. ASSUME IInv, [Next]_vars, live # NoRetro, live' # NoRetro,
             NEW u \in Users, NEW c \in Cards,
             Supports(live, u, c), ~Supports(live', u, c)
      PROVE  Kept(live, live', u, c)
  <2>1. Sound(live)
    BY <1>1 DEF IInv, Boards
  <2>2. BoardStep(live, live')
    BY <1>1, OnlyBoardSteps DEF LiveStep
  <2> QED BY <2>1, <2>2, <1>1, BoardKeepsVotes
<1>2. IInv /\ [Next]_vars => [live # NoRetro /\ live' # NoRetro =>
          \A u \in Users, c \in Cards :
             Supports(live, u, c) /\ ~Supports(live', u, c) => Kept(live, live', u, c)]_vars
  BY <1>1
<1> QED BY <1>2, RetroInductive, PTL DEF Spec, VotesKept
=============================================================================
