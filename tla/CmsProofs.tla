----------------------------- MODULE CmsProofs -----------------------------
(***************************************************************************)
(* Proofs about the parts of the CMS that stand beside the live sessions:  *)
(* the product radar (Radar), the copy of a session in the read model      *)
(* (CmsSync) and the deletion of a session with its tokens (SessionRoom),  *)
(* for any number of issues, people, writes, tokens and failures.          *)
(***************************************************************************)
EXTENDS Radar, CmsSync, SessionRoom, FiniteSetTheorems, SequenceTheorems,
        WellFoundedInduction, TLAPS

-----------------------------------------------------------------------------
(* The radar: what its snapshots hold, whoever has written them.           *)

\* The ages there are: those of the first day, and that of an issue just changed.
Ages == {j[k].age : j \in Initial, k \in Keys} \cup {0}

Issue == [resolved : 0..Now \cup {None}, ended : BOOLEAN, updated : 0..Now, age : Ages]

\* What an issue may be in a snapshot: Jira's record of some moment.
Sent(i) ==
    /\ i.key \in Keys /\ IsFiniteSet(i.links)
    /\ i.resolved \in 0..Now \cup {None} /\ i.ended \in BOOLEAN
    /\ i.updated \in 0..Now /\ i.age \in Ages

\* Issues as they were sent, each once.
Sound(issues) ==
    /\ \A i \in issues : Sent(i)
    /\ \A i, m \in issues : i.key = m.key => i = m

\* A snapshot whose progress is that of its issues.
Progressed(s) ==
    /\ Sound(s.issues)
    /\ s.keys \in Seq(Keys) /\ s.next \in 0..Len(s.keys)
    /\ KeysOf(s.issues) = Range(s.keys)
    /\ s.complete <=> s.next = Len(s.keys)
    /\ \A n \in 1..s.next : \A i \in s.issues : i.key = s.keys[n] => i.rich \/ i.key \in s.missed

\* What the request of a person holds.
Carries(r) ==
    /\ r.pc \in {"main", "done"} => r.jql \in Queries
    /\ r.pc = "done" => Sound(r.found)
    /\ r.pc \in {"batch", "save"} => Progressed(r.snap)

RadarInv ==
    /\ jira \in [Keys -> Issue]
    /\ radar # None => /\ radar = [jql |-> radar.jql, snap |-> radar.snap]
                       /\ radar.jql \in Queries
                       /\ radar.snap # None => Progressed(radar.snap)
    /\ client = [c \in Clients |-> client[c]]
    /\ \A c \in Clients : Carries(client[c])

\* What a function makes of finitely many things is finite.
LEMMA FiniteRange ==
    ASSUME NEW f, IsFiniteSet(DOMAIN f)
    PROVE  IsFiniteSet({f[x] : x \in DOMAIN f})
<1> DEFINE T == {f[x] : x \in DOMAIN f}
           g == [x \in DOMAIN f |-> f[x]]
<1>1. g \in Surjection(DOMAIN f, T)
      BY DEF Surjection
<1> HIDE DEF g
<1>2. IsFiniteSet(T)
      <2> HIDE DEF T
      <2>1. QED
            BY <1>1, FS_Surjection
<1>3. QED
      BY <1>2

\* The elements of a finite set, each once.
LEMMA InOrder ==
    ASSUME NEW S, IsFiniteSet(S)
    PROVE  SetToSeq(S) \in Seq(S) /\ Range(SetToSeq(S)) = S /\ Len(SetToSeq(S)) = Cardinality(S)
<1>1. IsFiniteSet(S)
      OBVIOUS
<1>2. Cardinality(S) \in Nat /\ ExistsBijection(1..Cardinality(S), S)
      BY <1>1, FS_CardinalityType
<1>3. PICK f \in [1..Cardinality(S) -> S] : IsInjective(f) /\ \A x \in S : \E n \in 1..Cardinality(S) : f[n] = x
      BY <1>2 DEF ExistsBijection, Bijection, Injection, Surjection, IsInjective
<1>4. SetToSeq(S) \in [1..Cardinality(S) -> S] /\ IsInjective(SetToSeq(S))
      BY <1>3 DEF SetToSeq
<1>5. SetToSeq(S) \in Injection(1..Cardinality(S), S)
      BY <1>4 DEF Injection
<1>6. Cardinality(1..Cardinality(S)) = Cardinality(S)
      BY <1>2, FS_Interval
<1>7. SetToSeq(S) \in Surjection(1..Cardinality(S), S)
      BY <1>1, <1>5, <1>6, FS_Injection
<1>8. Range(SetToSeq(S)) = S
      BY <1>4, <1>7 DEF Surjection, Range
<1>9. SetToSeq(S) \in Seq(S) /\ Len(SetToSeq(S)) = Cardinality(S)
      BY <1>2, <1>4
<1>10. QED
      BY <1>8, <1>9

LEMMA KeysInOrder ==
    ASSUME NEW S \in SUBSET Keys
    PROVE  SetToSeq(S) \in Seq(Keys) /\ Range(SetToSeq(S)) = S /\ Len(SetToSeq(S)) = Cardinality(S)
<1>1. IsFiniteSet(S)
      BY FS_Subset, RadarAssumption
<1>2. SetToSeq(S) \in Seq(S) /\ Range(SetToSeq(S)) = S /\ Len(SetToSeq(S)) = Cardinality(S)
      BY <1>1, InOrder
<1>3. QED
      BY <1>2

LEMMA KeysMerged == \A a, b : KeysOf(Merged(a, b)) = KeysOf(a) \cup KeysOf(b)
BY DEF KeysOf, Merged

\* The issues that are fetched are such as Jira may have.
LEMMA FetchedSound ==
    ASSUME jira \in [Keys -> Issue], NEW S \in SUBSET Keys, NEW rich
    PROVE  LET found == {Fetched(k, rich) : k \in S}
           IN  /\ Sound(found) /\ KeysOf(found) = S
               /\ \A i \in found : i.rich = rich
<1> DEFINE found == {Fetched(k, rich) : k \in S}
<1>1. ASSUME NEW k \in Keys
      PROVE  /\ Fetched(k, rich).key = k /\ Fetched(k, rich).rich = rich
             /\ Sent(Fetched(k, rich))
      <2>1. /\ Fetched(k, rich).key = k /\ Fetched(k, rich).rich = rich
            /\ Fetched(k, rich).resolved = jira[k].resolved /\ Fetched(k, rich).ended = jira[k].ended
            /\ Fetched(k, rich).updated = jira[k].updated /\ Fetched(k, rich).age = jira[k].age
            /\ Fetched(k, rich).links = {[key |-> l.key, relation |-> l.relation, team |-> l.team,
                                          done |-> jira[l.key].ended] : l \in LinksOf[k]}
            BY DEF Fetched
      <2>2. IsFiniteSet(LinksOf[k])
            BY RadarAssumption
      <2>3. IsFiniteSet({[key |-> l.key, relation |-> l.relation, team |-> l.team,
                          done |-> jira[l.key].ended] : l \in LinksOf[k]})
            <3> DEFINE f == [l \in LinksOf[k] |-> [key |-> l.key, relation |-> l.relation, team |-> l.team,
                                                   done |-> jira[l.key].ended]]
            <3>1. IsFiniteSet({f[x] : x \in DOMAIN f})
                  BY <2>2, FiniteRange
            <3>2. {f[x] : x \in DOMAIN f} = {[key |-> l.key, relation |-> l.relation, team |-> l.team,
                                              done |-> jira[l.key].ended] : l \in LinksOf[k]}
                  OBVIOUS
            <3>3. QED
                  BY <3>1, <3>2
      <2>4. jira[k] \in Issue
            OBVIOUS
      <2>5. QED
            BY <2>1, <2>3, <2>4 DEF Sent, Issue
<1>2. Sound(found)
      BY <1>1 DEF Sound
<1>3. KeysOf(found) = S
      BY <1>1 DEF KeysOf
<1>4. QED
      BY <1>1, <1>2, <1>3

LEMMA MergedSound ==
    ASSUME NEW a, NEW b, Sound(a), Sound(b)
    PROVE  Sound(Merged(a, b))
BY DEF Sound, Merged, KeysOf

LEMMA SoundKeys ==
    ASSUME NEW issues, Sound(issues)
    PROVE  KeysOf(issues) \in SUBSET Keys
BY DEF Sound, Sent, KeysOf

\* A refresh begins: nothing is enriched yet.
LEMMA StartProgressed ==
    ASSUME NEW jql, NEW found, NEW issues, Sound(issues),
           KeysOf(found) \subseteq KeysOf(issues)
    PROVE  Progressed(StartOf(jql, found, issues))
<1> DEFINE s == StartOf(jql, found, issues)
           a == SetToSeq(KeysOf(found))
           b == SetToSeq(KeysOf(issues) \ KeysOf(found))
<1>1. KeysOf(issues) \in SUBSET Keys
      BY SoundKeys
<1>2. KeysOf(found) \in SUBSET Keys /\ KeysOf(issues) \ KeysOf(found) \in SUBSET Keys
      BY <1>1
<1>3. /\ a \in Seq(Keys) /\ Range(a) = KeysOf(found)
      /\ b \in Seq(Keys) /\ Range(b) = KeysOf(issues) \ KeysOf(found)
      BY <1>2, KeysInOrder
<1> HIDE DEF a, b
<1>4. /\ s.issues = issues /\ s.keys = a \o b /\ s.next = 0 /\ s.complete = (issues = {})
      BY DEF StartOf, KeyOrder, a, b
<1>5. s.keys \in Seq(Keys) /\ Range(s.keys) = KeysOf(issues)
      <2>1. a \o b \in Seq(Keys)
            BY <1>3
      <2>2. Range(a \o b) = Range(a) \cup Range(b)
            BY <1>3, RangeConcatenation
      <2>3. QED
            BY <1>3, <1>4, <2>1, <2>2
<1> HIDE DEF s
<1>6. Len(s.keys) \in Nat /\ DOMAIN s.keys = 1..Len(s.keys)
      BY <1>5
<1>7. issues = {} <=> Len(s.keys) = 0
      <2>1. ASSUME issues = {}, 1 \in DOMAIN s.keys
            PROVE  FALSE
            BY <1>5, <2>1 DEF Range, KeysOf
      <2>2. ASSUME NEW i \in issues, Len(s.keys) = 0
            PROVE  FALSE
            <3>1. i.key \in Range(s.keys)
                  BY <1>5, <2>2 DEF KeysOf
            <3>2. QED
                  BY <1>6, <2>2, <3>1 DEF Range
      <2>3. QED
            BY <1>6, <2>1, <2>2
<1>8. s.complete <=> s.next = Len(s.keys)
      BY <1>4, <1>7
<1>9. s.next \in 0..Len(s.keys) /\ 1..s.next = {}
      BY <1>4, <1>6
<1>10. \A n \in 1..s.next : \A i \in s.issues : i.key = s.keys[n] => i.rich \/ i.key \in s.missed
       BY <1>9
<1>11. Progressed(s)
       BY <1>4, <1>5, <1>8, <1>9, <1>10, Zenon DEF Progressed
<1>12. QED
       BY <1>11 DEF s

\* ... and goes on with the histories of the next issues, those that Jira sends.
LEMMA EnrichedProgressed ==
    ASSUME jira \in [Keys -> Issue], NEW jql, NEW s, Progressed(s), NEW size \in Sizes,
           NEW sent \in SUBSET Batch(s, size)
    PROVE  Progressed(Enriched(jql, s, size, sent))
<1> DEFINE e == Enriched(jql, s, size, sent)
           next == Advanced(s.next, size, Len(s.keys))
           in == {Fetched(k, TRUE) : k \in sent}
<1>1. /\ Sound(s.issues) /\ s.keys \in Seq(Keys) /\ s.next \in 0..Len(s.keys)
      /\ KeysOf(s.issues) = Range(s.keys)
      /\ \A n \in 1..s.next : \A i \in s.issues : i.key = s.keys[n] => i.rich \/ i.key \in s.missed
      BY DEF Progressed
<1>2. /\ Len(s.keys) \in Nat /\ DOMAIN s.keys = 1..Len(s.keys) /\ s.next \in Nat /\ size \in Nat
      /\ s.next <= Len(s.keys)
      BY <1>1, RadarAssumption
<1>3. /\ next \in 0..Len(s.keys) /\ next = Least(s.next + size, Len(s.keys))
      BY <1>2 DEF Advanced, Least
<1>4. Batch(s, size) = {s.keys[n] : n \in (s.next + 1)..next}
      BY <1>3 DEF Batch
<1> HIDE DEF next
<1>5. \A n \in (s.next + 1)..next : n \in DOMAIN s.keys
      BY <1>2, <1>3
<1>6. /\ Batch(s, size) \subseteq Range(s.keys) /\ sent \subseteq Range(s.keys)
      /\ sent \in SUBSET Keys
      BY <1>1, <1>4, <1>5, RangeOfSeq DEF Range
<1>7. /\ Sound(in) /\ KeysOf(in) = sent /\ \A i \in in : i.rich = TRUE
      BY <1>6, FetchedSound
<1> HIDE DEF in
<1>8. /\ e.issues = Merged(s.issues, in) /\ e.keys = s.keys /\ e.next = next
      /\ e.complete = (next >= Len(s.keys))
      /\ e.missed = s.missed \cup (Batch(s, size) \ sent)
      BY DEF Enriched, in, next
<1> HIDE DEF e
<1>9. Sound(e.issues)
      BY <1>1, <1>7, <1>8, MergedSound
<1>10. KeysOf(e.issues) = Range(e.keys)
       <2>1. KeysOf(e.issues) = KeysOf(s.issues) \cup KeysOf(in)
             BY <1>8, KeysMerged
       <2>2. QED
             BY <1>1, <1>6, <1>7, <1>8, <2>1
<1>11. ASSUME NEW n \in 1..e.next, NEW i \in e.issues, i.key = e.keys[n]
       PROVE  i.rich \/ i.key \in e.missed
       <2>1. CASE i \in in
             BY <1>7, <2>1
       <2>2. CASE i \notin in
             <3>1. i \in s.issues /\ i.key \notin sent
                   BY <1>7, <1>8, <2>2 DEF Merged
             <3>2. CASE n \in (s.next + 1)..next
                   BY <1>4, <1>8, <1>11, <3>1, <3>2
             <3>3. CASE n \notin (s.next + 1)..next
                   <4>1. n \in 1..s.next
                         BY <1>2, <1>3, <1>8, <3>3
                   <4>2. i.rich \/ i.key \in s.missed
                         BY <1>1, <1>8, <1>11, <3>1, <4>1
                   <4>3. QED
                         BY <1>8, <4>2
             <3>4. QED
                   BY <3>2, <3>3
       <2>3. QED
             BY <2>1, <2>2
<1>12. e.complete <=> e.next = Len(e.keys)
       <2>1. next >= Len(s.keys) <=> next = Len(s.keys)
             BY <1>2, <1>3
       <2>2. QED
             BY <1>8, <2>1
<1>13. Progressed(e)
       BY <1>1, <1>3, <1>8, <1>9, <1>10, <1>11, <1>12, Zenon DEF Progressed
<1>14. QED
       BY <1>13 DEF e

LEMMA ClientGoes ==
    ASSUME RadarInv, NEW c \in Clients, NEW r, Goes(c, r), Carries(r),
           jira' = jira, radar' = radar
    PROVE  RadarInv'
<1>1. client' = [client EXCEPT ![c] = r] /\ client = [d \in Clients |-> client[d]]
      BY DEF Goes, RadarInv
<1>2. client' = [d \in Clients |-> client'[d]]
      BY <1>1
<1>3. \A d \in Clients : client'[d] = IF d = c THEN r ELSE client[d]
      BY <1>1
<1>4. \A d \in Clients : Carries(client'[d])
      BY <1>3 DEF RadarInv
<1>5. QED
      BY <1>2, <1>4 DEF RadarInv

LEMMA NothingCarried == Carries(Idle) /\ \A phase : Carries([pc |-> "ask", phase |-> phase])
BY DEF Carries, Idle

LEMMA InitRadar == Init => RadarInv
<1> SUFFICES ASSUME Init
             PROVE  RadarInv
    OBVIOUS
<1>1. jira \in [Keys -> Issue]
      <2>1. jira \in Initial
            BY DEF Init
      <2>2. jira \in [Keys -> [resolved : 0..Now \cup {None}, ended : BOOLEAN, updated : 0..Now, age : Nat]]
            BY <2>1, RadarAssumption
      <2>3. ASSUME NEW k \in Keys
            PROVE  jira[k] \in Issue
            <3>1. jira[k].age \in Ages
                  BY <2>1 DEF Ages
            <3>2. jira[k] \in [resolved : 0..Now \cup {None}, ended : BOOLEAN, updated : 0..Now, age : Nat]
                  BY <2>2
            <3>3. QED
                  BY <3>1, <3>2 DEF Issue
      <2>4. QED
            BY <2>2, <2>3
<1>2. radar = [jql |-> radar.jql, snap |-> radar.snap] /\ radar.jql \in Queries /\ radar.snap = None
      BY RadarAssumption DEF Init
<1>3. client = [c \in Clients |-> Idle]
      BY DEF Init
<1>4. client = [c \in Clients |-> client[c]] /\ \A c \in Clients : Carries(client[c])
      BY <1>3, NothingCarried
<1>5. QED
      BY <1>1, <1>2, <1>4 DEF RadarInv

LEMMA StepsKeepRadar ==
    ASSUME RadarInv, NEW c \in Clients, Step(c)
    PROVE  RadarInv'
<1> DEFINE r == client[c]
<1>1. Carries(r)
      BY DEF RadarInv
<1>2. CASE Read(c)
      <2>1. /\ radar # None /\ jira' = jira /\ radar' = radar
            /\ Goes(c, IF Fresh(c, radar.snap) THEN [pc |-> "main", jql |-> radar.jql]
                       ELSE [pc |-> "batch", jql |-> radar.jql, snap |-> radar.snap])
            BY <1>2 DEF Read
      <2>2. radar.jql \in Queries /\ (radar.snap # None => Progressed(radar.snap))
            BY <2>1 DEF RadarInv
      <2>3. CASE Fresh(c, radar.snap)
            <3>1. Carries([pc |-> "main", jql |-> radar.jql])
                  BY <2>2 DEF Carries
            <3>2. Goes(c, [pc |-> "main", jql |-> radar.jql])
                  BY <2>1, <2>3
            <3>3. QED
                  BY <2>1, <3>1, <3>2, ClientGoes
      <2>4. CASE ~ Fresh(c, radar.snap)
            <3>1. radar.snap # None
                  BY <2>4 DEF Fresh
            <3>2. Carries([pc |-> "batch", jql |-> radar.jql, snap |-> radar.snap])
                  BY <2>2, <3>1 DEF Carries
            <3>3. Goes(c, [pc |-> "batch", jql |-> radar.jql, snap |-> radar.snap])
                  BY <2>1, <2>4
            <3>4. QED
                  BY <2>1, <3>2, <3>3, ClientGoes
      <2>5. QED
            BY <2>3, <2>4
<1>3. CASE FetchMain(c)
      <2> DEFINE S == {x \in Scope[r.jql] : ~jira[x].ended \/ Recent(x)}
                 n == [pc |-> "done", jql |-> r.jql, found |-> Answer(r.jql)]
      <2>1. /\ r.pc = "main" /\ jira' = jira /\ radar' = radar /\ Goes(c, n)
            BY <1>3 DEF FetchMain
      <2>2. r.jql \in Queries
            BY <1>1, <2>1 DEF Carries
      <2>3. S \in SUBSET Keys
            BY <2>2, RadarAssumption
      <2>4. Answer(r.jql) = {Fetched(k, FALSE) : k \in S}
            BY DEF Answer
      <2> HIDE DEF S
      <2>5. Sound(Answer(r.jql))
            <3>1. jira \in [Keys -> Issue]
                  BY DEF RadarInv
            <3>2. Sound({Fetched(k, FALSE) : k \in S})
                  BY <2>3, <3>1, FetchedSound
            <3>3. QED
                  BY <2>4, <3>2
      <2>6. Carries(n)
            BY <2>2, <2>5 DEF Carries
      <2>7. QED
            BY <2>1, <2>6, ClientGoes
<1>4. CASE FetchDone(c)
      <2>1. r.pc = "done" /\ jira' = jira /\ radar' = radar
            BY <1>4 DEF FetchDone
      <2>2. PICK closed \in {Supplement, {}} :
               Goes(c, [pc |-> "save", snap |-> StartOf(r.jql, r.found, Merged(r.found, closed))])
            BY <1>4 DEF FetchDone
      <2>3. Sound(r.found)
            BY <1>1, <2>1 DEF Carries
      <2> DEFINE S == {x \in Keys : Recent(x)}
      <2>4. S \in SUBSET Keys /\ Supplement = {Fetched(k, FALSE) : k \in S}
            BY DEF Supplement
      <2> HIDE DEF S
      <2>5. Sound(Supplement)
            BY <2>4, FetchedSound DEF RadarInv
      <2>6. Sound({})
            BY DEF Sound
      <2>7. Sound(Merged(r.found, closed))
            BY <2>3, <2>5, <2>6, MergedSound
      <2>8. KeysOf(r.found) \subseteq KeysOf(Merged(r.found, closed))
            BY KeysMerged
      <2> DEFINE s == StartOf(r.jql, r.found, Merged(r.found, closed))
      <2>9. Progressed(s)
            BY <2>7, <2>8, StartProgressed
      <2> HIDE DEF s
      <2>10. Carries([pc |-> "save", snap |-> s])
             BY <2>9 DEF Carries
      <2>11. Goes(c, [pc |-> "save", snap |-> s])
             BY <2>2 DEF s
      <2>12. QED
             BY <2>1, <2>10, <2>11, ClientGoes
<1>5. CASE FetchBatch(c)
      <2>1. r.pc = "batch" /\ jira' = jira /\ radar' = radar
            BY <1>5 DEF FetchBatch
      <2>2. PICK size \in Sizes : \E sent \in SUBSET Batch(r.snap, size) :
               Goes(c, [pc |-> "save", snap |-> Enriched(r.jql, r.snap, size, sent)])
            BY <1>5 DEF FetchBatch
      <2>8. PICK sent \in SUBSET Batch(r.snap, size) :
               Goes(c, [pc |-> "save", snap |-> Enriched(r.jql, r.snap, size, sent)])
            BY <2>2
      <2> DEFINE s == Enriched(r.jql, r.snap, size, sent)
      <2>3. Progressed(r.snap)
            BY <1>1, <2>1 DEF Carries
      <2>4. Progressed(s)
            BY <2>3, EnrichedProgressed DEF RadarInv
      <2> HIDE DEF s
      <2>5. Carries([pc |-> "save", snap |-> s])
            BY <2>4 DEF Carries
      <2>6. Goes(c, [pc |-> "save", snap |-> s])
            BY <2>8 DEF s
      <2>7. QED
            BY <2>1, <2>5, <2>6, ClientGoes
<1>6. CASE Fail(c) \/ Gone(c)
      BY <1>6, NothingCarried, ClientGoes DEF Fail, Gone, Ends
<1>7. CASE Save(c)
      <2>1. /\ r.pc = "save" /\ radar # None /\ jira' = jira /\ radar' = [radar EXCEPT !.snap = r.snap]
            /\ Goes(c, Idle) \/ Goes(c, [pc |-> "ask", phase |-> "partition"])
            BY <1>7 DEF Save
      <2>2. PICK n : Goes(c, n) /\ Carries(n)
            BY <2>1, NothingCarried
      <2>3. client' = [client EXCEPT ![c] = n] /\ client = [d \in Clients |-> client[d]]
            BY <2>2 DEF Goes, RadarInv
      <2>4. /\ client' = [d \in Clients |-> client'[d]]
            /\ \A d \in Clients : client'[d] = IF d = c THEN n ELSE client[d]
            BY <2>3
      <2>5. \A d \in Clients : Carries(client'[d])
            BY <2>2, <2>4 DEF RadarInv
      <2>6. radar = [jql |-> radar.jql, snap |-> radar.snap] /\ radar.jql \in Queries
            BY <2>1 DEF RadarInv
      <2>7. radar' = [jql |-> radar.jql, snap |-> r.snap]
            BY <2>1, <2>6
      <2>8. /\ radar' = [jql |-> radar'.jql, snap |-> radar'.snap] /\ radar'.jql \in Queries
            /\ radar'.snap = r.snap
            BY <2>6, <2>7
      <2>9. Progressed(r.snap)
            BY <1>1, <2>1 DEF Carries
      <2>10. QED
             BY <2>1, <2>4, <2>5, <2>8, <2>9 DEF RadarInv
<1>8. QED
      BY <1>2, <1>3, <1>4, <1>5, <1>6, <1>7 DEF Step

LEMMA NextKeepsRadar == RadarInv /\ [Next]_vars => RadarInv'
<1> SUFFICES ASSUME RadarInv, [Next]_vars
             PROVE  RadarInv'
    OBVIOUS
<1>1. ASSUME NEW c \in Clients, Click(c)
      PROVE  RadarInv'
      <2>1. PICK phase : Goes(c, [pc |-> "ask", phase |-> phase])
            BY <1>1 DEF Click
      <2>2. jira' = jira /\ radar' = radar
            BY <1>1 DEF Click
      <2>3. QED
            BY <2>1, <2>2, NothingCarried, ClientGoes
<1>2. ASSUME NEW c \in Clients, Step(c)
      PROVE  RadarInv'
      BY <1>2, StepsKeepRadar
<1>3. CASE SetJql
      <2>1. PICK q \in Queries : radar' = [radar EXCEPT !.jql = q]
            BY <1>3 DEF SetJql
      <2>2. radar # None /\ jira' = jira /\ client' = client
            BY <1>3 DEF SetJql
      <2>3. radar = [jql |-> radar.jql, snap |-> radar.snap]
            BY <2>2 DEF RadarInv
      <2>4. radar' = [jql |-> q, snap |-> radar.snap]
            BY <2>1, <2>3
      <2>5. /\ radar' = [jql |-> radar'.jql, snap |-> radar'.snap] /\ radar'.jql \in Queries
            /\ radar'.snap = radar.snap
            BY <2>4
      <2>6. QED
            BY <2>2, <2>5 DEF RadarInv
<1>4. CASE Delete
      BY <1>4 DEF Delete, RadarInv
<1>5. ASSUME NEW k \in Moving, Change(k)
      PROVE  RadarInv'
      <2>1. jira \in [Keys -> Issue] /\ k \in Keys /\ Now \in 0..Now
            BY RadarAssumption, RadarAnalyticsAssumption DEF RadarInv
      <2>2. PICK ended \in BOOLEAN, resolved \in {None, IF jira[k].resolved = None THEN Now ELSE jira[k].resolved} :
               jira' = [jira EXCEPT ![k] = [resolved |-> resolved, ended |-> ended, updated |-> Now, age |-> 0]]
            BY <1>5 DEF Change
      <2>3. radar' = radar /\ client' = client
            BY <1>5 DEF Change
      <2>4. resolved \in 0..Now \cup {None}
            <3>1. jira[k].resolved \in 0..Now \cup {None}
                  BY <2>1 DEF Issue
            <3>2. QED
                  BY <2>1, <3>1
      <2>5. [resolved |-> resolved, ended |-> ended, updated |-> Now, age |-> 0] \in Issue
            BY <2>1, <2>4 DEF Issue, Ages
      <2>6. jira' \in [Keys -> Issue]
            BY <2>1, <2>2, <2>5
      <2>7. QED
            BY <2>3, <2>6 DEF RadarInv
<1>6. CASE UNCHANGED vars
      BY <1>6 DEF vars, RadarInv
<1>7. QED
      BY <1>1, <1>2, <1>3, <1>4, <1>5, <1>6 DEF Next

\* The inductive invariant: each snapshot that is stored or about to be is as far as it
\* says, and has each issue once, as Jira had it at some moment.
THEOREM RadarInductive == Spec => []RadarInv
<1>1. QED
      BY InitRadar, NextKeepsRadar, PTL DEF Spec

\* Whoever refreshes a radar at the same time and whichever snapshot comes last,
\* one that says it is complete has asked for the history of every issue, and the
\* issues without one are those Jira has not sent (refresh_product_radar_partition).
THEOREM EnrichedAreAskedFor == Spec => []EnrichedAreAsked
<1>1. ASSUME RadarInv, NEW s \in Snapshots
      PROVE  /\ KeysOf(s.issues) = Range(s.keys)
             /\ s.complete <=> s.next = Len(s.keys)
             /\ \A n \in 1..s.next : Keyed(s.issues, s.keys[n]).rich \/ s.keys[n] \in s.missed
      <2>1. Progressed(s)
            BY <1>1 DEF Snapshots, RadarInv
      <2>2. ASSUME NEW n \in 1..s.next
            PROVE  Keyed(s.issues, s.keys[n]).rich \/ s.keys[n] \in s.missed
            <3>1. /\ s.keys \in Seq(Keys) /\ s.next \in 0..Len(s.keys)
                  /\ KeysOf(s.issues) = Range(s.keys)
                  /\ \A m \in 1..s.next : \A i \in s.issues :
                       i.key = s.keys[m] => i.rich \/ i.key \in s.missed
                  BY <2>1, Zenon DEF Progressed
            <3>2. n \in DOMAIN s.keys
                  BY <3>1
            <3>3. s.keys[n] \in KeysOf(s.issues)
                  BY <3>1, <3>2, Zenon DEF Range
            <3>4. Keyed(s.issues, s.keys[n]) \in s.issues
                  /\ Keyed(s.issues, s.keys[n]).key = s.keys[n]
                  BY <3>3 DEF KeysOf, Keyed
            <3>5. QED
                  BY <3>1, <3>4
      <2>3. QED
            BY <2>1, <2>2, Zenon DEF Progressed
<1>2. RadarInv => EnrichedAreAsked
      BY <1>1, Zenon DEF EnrichedAreAsked
<1>3. QED
      BY <1>2, RadarInductive, PTL

\* The issue of a key, as a snapshot says it.
LEMMA KeyedFits ==
    ASSUME NEW issues, Sound(issues), NEW S \in SUBSET issues, NEW i \in S
    PROVE  Keyed(S, i.key) = i
<1>1. Keyed(S, i.key) \in S /\ Keyed(S, i.key).key = i.key
      BY DEF Keyed
<1>2. QED
      BY <1>1 DEF Sound

\* In no period does a figure go by the copy of an issue in a link where the snapshot
\* itself has the issue, whenever either was fetched and whatever happened to it since:
\* one that is shown as done keeps nobody waiting, and each parent and epic counts an
\* issue of the period as what it is (build_epic_progress, build_parent_progress,
\* build_team_blocking).
THEOREM CopiesAlwaysYield == Spec => []CopiesYield
<1>1. ASSUME NEW issues, Sound(issues), NEW p \in Periods
      PROVE  FigureIsRecord(issues, p)
      <2> DEFINE scoped == Scoped(issues, p)
      <2>1. scoped \subseteq issues
            BY DEF Scoped
      <2>2. ASSUME NEW b \in BlocksIn(issues, p), NEW m \in issues, m.key = b.by.key
            PROVE  ~ Done(m)
            <3>1. b \in BlockSignals(issues)
                  BY <2>2 DEF BlocksIn
            <3>2. PICK i \in Open(issues) : \E l \in Waits(issues, i) : b = [blocked |-> i.key, by |-> l]
                  BY <3>1 DEF BlockSignals
            <3>3. PICK l \in Waits(issues, i) : b.by = l
                  BY <3>2
            <3>4. ~ LinkDone(issues, l)
                  BY <3>3 DEF Waits
            <3>5. Holds(issues, l.key) /\ Keyed(issues, l.key) = m
                  BY <1>1, <2>2, <3>3, KeyedFits DEF Holds
            <3>6. QED
                  BY <3>4, <3>5 DEF LinkDone
      <2>3. ASSUME NEW i \in scoped, NEW r \in ParentRows(scoped, i), NEW m \in scoped, m.key = r.key
            PROVE  r.done = Done(m)
            <3>1. PICK l \in i.subtasks \cup i.links : r = [key |-> l.key, done |-> LinkDone(scoped, l)]
                  BY <2>3 DEF ParentRows
            <3>2. Holds(scoped, l.key) /\ Keyed(scoped, l.key) = m
                  BY <1>1, <2>1, <2>3, <3>1, KeyedFits DEF Holds
            <3>3. QED
                  BY <3>1, <3>2 DEF LinkDone
      <2>4. ASSUME NEW e, NEW r \in EpicRows(scoped, e), NEW m \in scoped, m.key = r.key
            PROVE  r.done = Done(m)
            <3>1. PICK i \in InEpic(scoped, e) : r = [key |-> i.key, done |-> Done(i)]
                  BY <2>4 DEF EpicRows
            <3>2. i \in issues /\ m \in issues /\ i.key = m.key
                  BY <2>1, <2>4, <3>1 DEF InEpic
            <3>3. i = m
                  BY <1>1, <3>2 DEF Sound
            <3>4. QED
                  BY <3>1, <3>3
      <2>5. QED
            BY <2>2, <2>3, <2>4, Zenon DEF FigureIsRecord
<1>2. ASSUME RadarInv, NEW s \in Snapshots
      PROVE  Sound(s.issues)
      BY <1>2 DEF Snapshots, RadarInv, Progressed
<1>3. RadarInv => CopiesYield
      BY <1>1, <1>2, Zenon DEF CopiesYield
<1>4. QED
      BY <1>3, RadarInductive, PTL

-----------------------------------------------------------------------------
(* The figures: what is counted adds up.                                    *)

\* Things that are put into finitely many places are as many as the places count
\* together.  Total is recursive: where it first goes wrong, with a least set of
\* places, it was right for that set less one.
LEMMA CountsAddUp ==
    ASSUME NEW D, IsFiniteSet(D), NEW X, IsFiniteSet(X), NEW c \in [X -> D],
           NEW f, f = [d \in D |-> Cardinality({i \in X : c[i] = d})]
    PROVE  Total(f) = Cardinality(X)
<1> DEFINE Into(s) == {i \in X : c[i] \in s}
           First(s) == CHOOSE x \in s : TRUE
           Adds(g)  == [s \in SUBSET D |-> IF s = {} THEN 0 ELSE f[First(s)] + g[s \ {First(s)}]]
           count    == [s \in SUBSET D |-> Cardinality(Into(s))]
           total    == CHOOSE g : g = Adds(g)
<1>1. ASSUME NEW s \in SUBSET D, s # {}
      PROVE  /\ First(s) \in s /\ s \ {First(s)} \in SUBSET D
             /\ Cardinality(Into(s)) = f[First(s)] + Cardinality(Into(s \ {First(s)}))
      <2> DEFINE x == First(s)
      <2>1. x \in s
            BY <1>1
      <2> HIDE DEF x
      <2>2. f[x] = Cardinality(Into({x}))
            <3>1. Into({x}) = {i \in X : c[i] = x}
                  OBVIOUS
            <3>2. QED
                  BY <2>1, <3>1
      <2>3. Into(s) = Into({x}) \cup Into(s \ {x}) /\ Into({x}) \cap Into(s \ {x}) = {}
            BY <2>1
      <2>4. /\ IsFiniteSet(Into({x})) /\ IsFiniteSet(Into(s \ {x}))
            /\ Cardinality(Into({x})) \in Nat /\ Cardinality(Into(s \ {x})) \in Nat
            <3>1. Into({x}) \in SUBSET X /\ Into(s \ {x}) \in SUBSET X
                  OBVIOUS
            <3>2. QED
                  BY <3>1, FS_Subset, FS_CardinalityType
      <2>5. Cardinality(Into(s)) = Cardinality(Into({x})) + Cardinality(Into(s \ {x})) - Cardinality({})
            <3> DEFINE A == Into({x})
                       B == Into(s \ {x})
            <3> HIDE DEF A, B
            <3>1. Cardinality(A \cup B) = Cardinality(A) + Cardinality(B) - Cardinality(A \cap B)
                  BY <2>4, FS_Union DEF A, B
            <3>2. QED
                  BY <2>3, <3>1 DEF A, B
      <2>6. QED
            BY <2>1, <2>2, <2>4, <2>5, FS_EmptySet DEF x
<1> HIDE DEF Into, First
<1>2. Cardinality(Into({})) = 0 /\ Into(D) = X
      BY FS_EmptySet DEF Into
<1>3. count = Adds(count)
      <2>1. ASSUME NEW s \in SUBSET D
            PROVE  Cardinality(Into(s)) = IF s = {} THEN 0 ELSE f[First(s)] + count[s \ {First(s)}]
            BY <1>1, <1>2
      <2>2. QED
            BY <2>1
<1>4. total = Adds(total)
      BY <1>3
<1> HIDE DEF total
<1>5. ASSUME NEW s \in SUBSET D, total[s] # Cardinality(Into(s))
      PROVE  FALSE
      <2> DEFINE T == {t \in SUBSET D : total[t] # Cardinality(Into(t))}
      <2>1. IsWellFoundedOn(StrictSubsetOrdering(D), SUBSET D)
            BY FS_StrictSubsetOrderingWellFounded, FS_FiniteSubsetsOfFinite
      <2>2. PICK t \in T : \A u \in T : ~ (<<u, t>> \in StrictSubsetOrdering(D))
            <3>1. T \subseteq SUBSET D /\ T # {}
                  BY <1>5
            <3> HIDE DEF T
            <3>2. QED
                  BY <2>1, <3>1, WFMin
      <2>3. t \in SUBSET D /\ total[t] # Cardinality(Into(t))
            OBVIOUS
      <2>4. total[t] = IF t = {} THEN 0 ELSE f[First(t)] + total[t \ {First(t)}]
            BY <1>4, <2>3
      <2>5. t # {}
            BY <1>2, <2>3, <2>4
      <2> DEFINE u == t \ {First(t)}
      <2>6. u \in SUBSET D /\ First(t) \in t /\ Cardinality(Into(t)) = f[First(t)] + Cardinality(Into(u))
            BY <1>1, <2>3, <2>5
      <2>7. <<u, t>> \in StrictSubsetOrdering(D)
            BY <2>3, <2>6 DEF StrictSubsetOrdering
      <2>8. total[u] = Cardinality(Into(u))
            BY <2>2, <2>6, <2>7
      <2>9. QED
            BY <2>3, <2>4, <2>5, <2>6, <2>8
<1>6. Total(f) = total[D]
      <2>1. DOMAIN f = D
            OBVIOUS
      <2>2. QED
            BY <2>1 DEF Total, FoldSet, MapThenFoldSet, total, First
<1>7. QED
      BY <1>2, <1>5, <1>6

\* The least element of a set of numbers, and the greatest.
LEMMA LeastIs ==
    ASSUME NEW S \in SUBSET Nat, S # {}
    PROVE  Min(S) \in S /\ \A x \in S : Min(S) <= x
<1> DEFINE R == {p \in Nat \X Nat : p[1] < p[2]}
<1>1. IsWellFoundedOn(R, Nat)
      BY NatLessThanWellFounded DEF OpToRel
<1>2. PICK x \in S : \A y \in S : ~ (<<y, x>> \in R)
      <2> HIDE DEF R
      <2>1. QED
            BY <1>1, WFMin
<1>3. ASSUME NEW y \in S
      PROVE  x <= y
      <2>1. x \in Nat /\ y \in Nat
            OBVIOUS
      <2>2. y < x => <<y, x>> \in R
            BY <2>1
      <2>3. QED
            BY <1>2, <2>1, <2>2
<1>4. QED
      BY <1>3 DEF Min

LEMMA GreatestIs ==
    ASSUME NEW S \in SUBSET Nat, S # {}, NEW n \in Nat, \A x \in S : x <= n
    PROVE  Max(S) \in S /\ \A x \in S : x <= Max(S)
<1> DEFINE T == {n - x : x \in S}
<1>1. T \in SUBSET Nat /\ T # {}
      <2>1. ASSUME NEW x \in S
            PROVE  n - x \in Nat
            <3>1. x \in Nat /\ x <= n
                  OBVIOUS
            <3>2. QED
                  BY <3>1
      <2>2. QED
            BY <2>1, Zenon
<1> HIDE DEF T
<1>2. Min(T) \in T /\ \A y \in T : Min(T) <= y
      BY <1>1, LeastIs
<1>3. PICK x \in S : Min(T) = n - x
      BY <1>2 DEF T
<1>4. \A y \in S : n - y \in T
      BY DEF T
<1>5. \A y \in S : y <= x
      BY <1>2, <1>3, <1>4
<1>6. QED
      BY <1>5 DEF Max

\* What a quotient is, by the multiples it lies between.
LEMMA Quotients ==
    ASSUME NEW a \in Nat, NEW c \in Nat \ {0}
    PROVE  /\ a \div c \in Nat /\ (a \div c) * c <= a /\ a < (a \div c + 1) * c
           /\ \A q \in Nat : q * c <= a => q <= a \div c
           /\ \A q \in Nat : a < (q + 1) * c => a \div c <= q
<1>1. a \div c \in Nat /\ a = (a \div c) * c + (a % c) /\ a % c \in 0..(c - 1)
      OBVIOUS
<1> DEFINE m == a \div c
           r == a % c
<1>2. m \in Nat /\ r \in Nat /\ r < c /\ a = m * c + r
      BY <1>1
<1> HIDE DEF m, r
<1>3. (m + 1) * c = m * c + c /\ m * c \in Nat
      BY <1>2
<1>4. ASSUME NEW q \in Nat, q * c <= a
      PROVE  q <= m
      <2>1. CASE q >= m + 1
            <3>1. q * c >= (m + 1) * c
                  BY <1>2, <2>1
            <3>2. QED
                  BY <1>2, <1>3, <1>4, <3>1
      <2>2. QED
            BY <1>2, <2>1
<1>5. ASSUME NEW q \in Nat, a < (q + 1) * c
      PROVE  m <= q
      <2>1. CASE m >= q + 1
            <3>1. m * c >= (q + 1) * c
                  BY <1>2, <2>1
            <3>2. QED
                  BY <1>2, <1>3, <1>5, <3>1
      <2>2. QED
            BY <1>2, <2>1
<1>6. QED
      BY <1>2, <1>3, <1>4, <1>5 DEF m

\* Multiples are in the order of what is multiplied.
LEMMA Scaled ==
    ASSUME NEW a \in Int, NEW b \in Int, NEW c \in Nat \ {0}
    PROVE  /\ a * c \in Int
           /\ a <= b => a * c <= b * c
           /\ a < b => a * c < b * c
           /\ a * c <= b * c => a <= b
           /\ a * c < b * c => a < b
<1>1. a <= b => a * c <= b * c
      OBVIOUS
<1>2. a < b => a * c < b * c
      OBVIOUS
<1>3. b <= a => b * c <= a * c
      OBVIOUS
<1>4. b < a => b * c < a * c
      OBVIOUS
<1>5. QED
      BY <1>1, <1>2, <1>3, <1>4

\* An age of whole days is a multiple of the parts of a day: between two of them
\* there is none.
LEMMA WholeDays ==
    ASSUME NEW age \in Nat, age % Part = 0
    PROVE  \E w \in Nat : /\ age = w * Part /\ w = age \div Part
                          /\ \A n \in Int : n * Part < age => (n + 1) * Part <= age
<1> DEFINE w == age \div Part
<1>1. Part \in Nat \ {0}
      BY RadarAnalyticsAssumption
<1>2. w \in Nat /\ age = w * Part + (age % Part)
      BY <1>1
<1> HIDE DEF w
<1>3. w \in Nat /\ age = w * Part
      <2>1. w * Part \in Nat
            BY <1>1, <1>2
      <2>2. QED
            BY <1>2, <2>1
<1>4. ASSUME NEW n \in Int, n * Part < age
      PROVE  (n + 1) * Part <= age
      <2>1. n < w
            BY <1>1, <1>3, <1>4, Scaled
      <2>2. n + 1 <= w /\ n + 1 \in Int
            BY <1>3, <2>1
      <2>3. QED
            BY <1>1, <1>3, <2>2, Scaled
<1>5. QED
      BY <1>3, <1>4 DEF w

\* The long buckets, from the lowest age to the highest: each age is in one of them at
\* most, and each age of whole days is in one.
LEMMA LongFits ==
    ASSUME NEW least \in Nat, NEW greatest \in Nat, LongAge < least, least <= greatest, greatest <= NoEnd
    PROVE  /\ \A age \in least..greatest : age % Part = 0 =>
                 \E b \in LongBuckets(least, greatest) : Within(age, b)
           /\ \A age \in Nat : \A b, c \in LongBuckets(least, greatest) :
                 Within(age, b) /\ Within(age, c) => b = c
           /\ \A b \in LongBuckets(least, greatest) : b[1] \in Nat /\ b[1] > LongAge
           /\ IsFiniteSet(LongBuckets(least, greatest))
<1> DEFINE low   == Most(31, least \div Part)
           high  == CeilDiv(greatest, Part)
           count == LongBucketCount(low, high, greatest - least)
           step  == NiceStep(high - low + 1, count)
           last  == IF high <= low THEN 0 ELSE Least(count - 1, (high - low) \div step)
           B(n)  == <<LongStart(low, step, n) * Part,
                      IF n = last THEN NoEnd ELSE (low + (n + 1) * step - 1) * Part>>
<1>1. LongBuckets(least, greatest) = {B(n) : n \in 0..last}
      BY DEF LongBuckets
<1>2. /\ LongAge = 30 * Part /\ NoEnd = 10000 * Part /\ Part \in Nat \ {0}
      /\ LongAge \in Nat /\ NoEnd \in Nat
      BY RadarAnalyticsAssumption DEF LongAge, NoEnd
<1>3. low \in Nat /\ low >= 31 /\ least \div Part \in Nat /\ least \div Part <= low
      /\ least < (low + 1) * Part
      <2>1. /\ least \div Part \in Nat
            /\ least < (least \div Part + 1) * Part
            BY <1>2, Quotients
      <2> DEFINE q == least \div Part
      <2> HIDE DEF q
      <2>2. low = Most(31, q) /\ q \in Nat /\ least < (q + 1) * Part
            BY <2>1 DEF q
      <2>3. low \in Nat /\ low >= 31 /\ q <= low
            BY <2>2 DEF Most
      <2>4. (q + 1) * Part <= (low + 1) * Part /\ (q + 1) * Part \in Int /\ (low + 1) * Part \in Int
            <3>1. q + 1 \in Int /\ low + 1 \in Int /\ q + 1 <= low + 1
                  BY <2>2, <2>3
            <3>2. QED
                  BY <1>2, <3>1, Scaled
      <2>5. QED
            BY <2>2, <2>3, <2>4 DEF q
<1>4. high \in Nat /\ greatest <= high * Part /\ (high - 1) * Part < greatest
      <2> DEFINE a == greatest + Part - 1
      <2>1. a \in Nat
            BY <1>2
      <2>2. high = a \div Part
            BY DEF CeilDiv
      <2> HIDE DEF high
      <2>3. high \in Nat /\ high * Part <= a /\ a < (high + 1) * Part
            <3> HIDE DEF a
            <3>1. QED
                  BY <1>2, <2>1, <2>2, Quotients
      <2>4. (high + 1) * Part = high * Part + Part /\ (high - 1) * Part = high * Part - Part
            /\ high * Part \in Int
            BY <1>2, <2>3
      <2>5. QED
            BY <1>2, <2>3, <2>4
<1> HIDE DEF low, high
<1>5. low <= high /\ high <= 10000
      <2>1. high - 1 < 10000
            <3>1. (high - 1) * Part < 10000 * Part
                  <4>1. high - 1 \in Int /\ (high - 1) * Part \in Int
                        BY <1>2, <1>4, Scaled
                  <4>2. QED
                        BY <1>2, <1>4, <4>1
            <3>2. QED
                  BY <1>2, <1>4, <3>1, Scaled
      <2>2. 30 < high
            <3>1. 30 * Part < high * Part
                  <4>1. high * Part \in Int
                        BY <1>2, <1>4
                  <4>2. QED
                        BY <1>2, <1>4, <4>1
            <3>2. QED
                  BY <1>2, <1>4, <3>1, Scaled
      <2>3. least \div Part <= high
            <3>1. /\ (least \div Part) * Part <= least
                  BY <1>2, Quotients
            <3>2. (least \div Part) * Part <= high * Part
                  <4>1. (least \div Part) * Part \in Int /\ high * Part \in Int
                        BY <1>2, <1>3, <1>4
                  <4>2. QED
                        BY <1>4, <3>1, <4>1
            <3>3. QED
                  BY <1>2, <1>3, <1>4, <3>2, Scaled
      <2>4. low = 31 \/ low = least \div Part
            BY DEF low, Most
      <2>5. QED
            BY <1>3, <1>4, <2>1, <2>2, <2>3, <2>4
<1>6. count \in 3..7 /\ (high - low + 1 > 6000 => count = 7)
      <2> DEFINE spread == greatest - least
                 size   == high - low + 1
      <2>1. spread \in Nat /\ size \in Nat
            BY <1>3, <1>4, <1>5
      <2>2. size > 6000 => spread > 120 * Part
            <3>1. SUFFICES ASSUME size > 6000
                           PROVE  spread > 120 * Part
                  OBVIOUS
            <3>2. low + 121 <= high - 1
                  BY <1>3, <1>4, <3>1
            <3>3. (low + 121) * Part <= (high - 1) * Part
                  <4>1. low + 121 \in Int /\ high - 1 \in Int
                        BY <1>3, <1>4
                  <4>2. QED
                        BY <1>2, <3>2, <4>1, Scaled
            <3>4. (low + 121) * Part = (low + 1) * Part + 120 * Part /\ (low + 1) * Part \in Int
                  /\ (high - 1) * Part \in Int
                  BY <1>2, <1>3, <1>4
            <3>5. QED
                  BY <1>2, <1>3, <1>4, <3>3, <3>4
      <2>3. count = Least(MaxLongBuckets(spread), Most(3, (size + 20 - 1) \div 20))
            BY DEF LongBucketCount, CeilDiv
      <2> HIDE DEF spread
      <2>4. MaxLongBuckets(spread) \in {4, 5, 7} /\ (size > 6000 => MaxLongBuckets(spread) = 7)
            BY <2>2 DEF MaxLongBuckets
      <2> DEFINE many == (size + 20 - 1) \div 20
      <2> HIDE DEF size
      <2>5. many \in Nat /\ (size > 6000 => many >= 7)
            BY <2>1
      <2> HIDE DEF many, count
      <2>6. count = Least(MaxLongBuckets(spread), Most(3, many))
            BY <2>3 DEF many
      <2>7. QED
            BY <2>4, <2>5, <2>6 DEF Least, Most, size
<1> HIDE DEF count
<1>7. step \in Nat \ {0}
      <2> DEFINE steps == {1, 2, 5, 10, 20, 50, 100, 200, 500, 1000, 2000}
                 N == {n \in steps : high - low + 1 <= n * count}
      <2>1. high - low + 1 <= 2000 * count
            BY <1>3, <1>4, <1>5, <1>6
      <2>2. 2000 \in N /\ N \in SUBSET Nat
            BY <2>1
      <2>3. 0 \notin N
            OBVIOUS
      <2>4. step = Min(N)
            BY DEF NiceStep
      <2> HIDE DEF N
      <2>5. QED
            <3>1. Min(N) \in N
                  BY <2>2, LeastIs
            <3>2. \A n \in N : n \in Nat \ {0}
                  BY <2>2, <2>3
            <3>3. QED
                  BY <2>4, <3>1, <3>2, Zenon
<1> HIDE DEF step
<1>8. last \in Nat
      <2>1. (high - low) \div step \in Nat
            <3>1. high - low \in Nat
                  BY <1>3, <1>4, <1>5
            <3>2. QED
                  BY <1>7, <3>1, Quotients
      <2>2. QED
            BY <1>6, <2>1 DEF Least
<1>9. \A w \in low..high : \E n \in 0..last :
         low + n * step <= w /\ (n # last => w <= low + (n + 1) * step - 1)
      <2> SUFFICES ASSUME NEW w \in low..high
                   PROVE  \E n \in 0..last :
                             low + n * step <= w /\ (n # last => w <= low + (n + 1) * step - 1)
          OBVIOUS
      <2> DEFINE d == w - low
                 m == d \div step
                 k == Least(m, last)
      <2>1. d \in Nat /\ w = low + d /\ low \in Nat
            BY <1>3, <1>4
      <2>2. m \in Nat /\ m * step <= d /\ d < (m + 1) * step
            <3> HIDE DEF d
            <3>1. QED
                  BY <1>7, <2>1, Quotients
      <2> HIDE DEF m, d, last
      <2>3. k \in Nat /\ k \in 0..last /\ k <= m /\ (k # last => k = m)
            BY <1>8, <2>2 DEF Least
      <2> HIDE DEF k
      <2>4. k * step <= m * step /\ k * step \in Int /\ m * step \in Int
            BY <1>7, <2>2, <2>3, Scaled
      <2>5. low + k * step <= w
            BY <2>1, <2>2, <2>4
      <2>6. k # last => w <= low + (k + 1) * step - 1
            <3>1. (m + 1) * step \in Int
                  BY <1>7, <2>2
            <3>2. QED
                  BY <2>1, <2>2, <2>3, <3>1
      <2>7. QED
            BY <2>3, <2>5, <2>6
<1> HIDE DEF last
<1>10. ASSUME NEW n \in 0..last
       PROVE  /\ n \in Nat /\ low + n * step \in Nat /\ low + n * step >= 31
              /\ low + (n + 1) * step - 1 \in Int
              /\ B(n)[1] = (low + n * step) * Part
              /\ B(n)[2] = IF n = last THEN NoEnd ELSE (low + (n + 1) * step - 1) * Part
       <2>1. n \in Nat /\ n * step \in Nat /\ (n + 1) * step \in Nat
             BY <1>7, <1>8
       <2>2. QED
             BY <1>3, <2>1 DEF LongStart
<1> HIDE DEF B
<1>11. ASSUME NEW age \in least..greatest, age % Part = 0
       PROVE  \E b \in LongBuckets(least, greatest) : Within(age, b)
       <2>1. age \in Nat /\ age <= NoEnd /\ age > 30 * Part
             BY <1>2
       <2>2. PICK w \in Nat : /\ age = w * Part /\ w = age \div Part
                              /\ \A n \in Int : n * Part < age => (n + 1) * Part <= age
             BY <1>11, <2>1, WholeDays
       <2>3. w >= 31
             <3>1. 30 < w
                   BY <1>2, <2>1, <2>2, Scaled
             <3>2. QED
                   BY <3>1
       <2>4. least \div Part <= w
             <3>1. (least \div Part) * Part <= least
                   BY <1>2, Quotients
             <3>2. (least \div Part) * Part <= w * Part
                   <4>1. (least \div Part) * Part \in Int
                         BY <1>2, <1>3
                   <4>2. QED
                         BY <2>1, <2>2, <3>1, <4>1
             <3>3. QED
                   BY <1>2, <1>3, <2>2, <3>2, Scaled
       <2>5. w <= high
             <3>1. w * Part <= high * Part
                   <4>1. high * Part \in Int
                         BY <1>2, <1>4
                   <4>2. QED
                         BY <1>4, <2>1, <2>2, <4>1
             <3>2. QED
                   BY <1>2, <1>4, <2>2, <3>1, Scaled
       <2>6. w \in low..high
             <3>1. low = 31 \/ low = least \div Part
                   BY DEF low, Most
             <3>2. QED
                   BY <1>3, <1>4, <2>2, <2>3, <2>4, <2>5, <3>1
       <2>7. PICK n \in 0..last :
                low + n * step <= w /\ (n # last => w <= low + (n + 1) * step - 1)
             BY <1>9, <2>6
       <2>8. B(n)[1] <= age
             BY <1>2, <1>10, <2>2, <2>7, Scaled
       <2>9. age <= B(n)[2]
             <3>1. CASE n = last
                   BY <1>10, <2>1, <3>1
             <3>2. CASE n # last
                   <4>1. w * Part <= (low + (n + 1) * step - 1) * Part
                         BY <1>2, <1>10, <2>2, <2>7, <3>2, Scaled
                   <4>2. QED
                         BY <1>10, <2>2, <3>2, <4>1
             <3>3. QED
                   BY <3>1, <3>2
       <2>10. QED
              BY <1>1, <2>8, <2>9 DEF Within
<1>12. ASSUME NEW age \in Nat, NEW m \in 0..last, NEW n \in 0..last, m < n,
              Within(age, B(m)), Within(age, B(n))
       PROVE  FALSE
       <2>1. m # last /\ m \in Nat /\ n \in Nat /\ m + 1 <= n
             BY <1>8, <1>12
       <2>2. age <= (low + (m + 1) * step - 1) * Part
             BY <1>10, <1>12, <2>1 DEF Within
       <2>3. (low + n * step) * Part <= age
             BY <1>10, <1>12 DEF Within
       <2>4. (m + 1) * step <= n * step /\ (m + 1) * step \in Int /\ n * step \in Int
             BY <1>7, <2>1, Scaled
       <2>5. low + (m + 1) * step - 1 < low + n * step
             BY <1>3, <2>4
       <2>6. (low + (m + 1) * step - 1) * Part < (low + n * step) * Part
             BY <1>2, <1>10, <2>5, Scaled
       <2>7. (low + (m + 1) * step - 1) * Part \in Int /\ (low + n * step) * Part \in Int
             BY <1>2, <1>10, Scaled
       <2>8. QED
             BY <2>2, <2>3, <2>6, <2>7
<1>13. ASSUME NEW age \in Nat, NEW b \in LongBuckets(least, greatest), NEW c \in LongBuckets(least, greatest),
              Within(age, b), Within(age, c)
       PROVE  b = c
       <2>1. PICK m \in 0..last : b = B(m)
             BY <1>1
       <2>2. PICK n \in 0..last : c = B(n)
             BY <1>1
       <2>3. ~ (m < n) /\ ~ (n < m)
             BY <1>12, <1>13, <2>1, <2>2
       <2>4. QED
             BY <1>8, <2>1, <2>2, <2>3
<1>14. ASSUME NEW b \in LongBuckets(least, greatest)
       PROVE  b[1] \in Nat /\ b[1] > LongAge
       <2>1. PICK n \in 0..last : b = B(n)
             BY <1>1
       <2> DEFINE d == low + n * step
       <2>2. b[1] = d * Part /\ d \in Nat /\ 30 < d
             BY <1>10, <2>1
       <2> HIDE DEF d
       <2>3. 30 * Part < d * Part
             BY <1>2, <2>2, Scaled
       <2>4. d * Part \in Nat
             BY <1>2, <2>2
       <2>5. QED
             BY <1>2, <2>2, <2>3, <2>4
<1>15. IsFiniteSet(LongBuckets(least, greatest))
       <2>1. IsFiniteSet(0..last)
             BY <1>8, FS_Interval
       <2> DEFINE f == [n \in 0..last |-> B(n)]
       <2>2. DOMAIN f = 0..last /\ LongBuckets(least, greatest) = {f[n] : n \in DOMAIN f}
             BY <1>1
       <2> HIDE DEF f
       <2>3. QED
             BY <2>1, <2>2, FiniteRange
<1>16. QED
       BY <1>11, <1>13, <1>14, <1>15

\* The short buckets: an age is in one of them at most, and in one if it is of whole days
\* and not above a month.
LEMMA ShortFits ==
    ASSUME NEW age \in Nat
    PROVE  /\ age % Part = 0 /\ age <= LongAge => \E b \in ShortBuckets : Within(age, b)
           /\ \A b, c \in ShortBuckets : Within(age, b) /\ Within(age, c) => b = c
           /\ age > LongAge => \A c \in ShortBuckets : ~ Within(age, c)
<1> DEFINE b1 == <<0, 3 * Part>>
           b2 == <<4 * Part, 7 * Part>>
           b3 == <<8 * Part, 14 * Part>>
           b4 == <<15 * Part, 30 * Part>>
<1>1. /\ b1[1] = 0 /\ b1[2] = 3 * Part /\ b2[1] = 4 * Part /\ b2[2] = 7 * Part
      /\ b3[1] = 8 * Part /\ b3[2] = 14 * Part /\ b4[1] = 15 * Part /\ b4[2] = 30 * Part
      OBVIOUS
<1>2. ShortBuckets = {b1, b2, b3, b4} /\ LongAge = 30 * Part /\ Part \in Nat \ {0}
      BY RadarAnalyticsAssumption DEF ShortBuckets, LongAge
<1> HIDE DEF b1, b2, b3, b4
<1>3. /\ Within(age, b1) <=> age <= 3 * Part
      /\ Within(age, b2) <=> 4 * Part <= age /\ age <= 7 * Part
      /\ Within(age, b3) <=> 8 * Part <= age /\ age <= 14 * Part
      /\ Within(age, b4) <=> 15 * Part <= age /\ age <= 30 * Part
      BY <1>1 DEF Within
<1>4. ASSUME age % Part = 0, age <= LongAge
      PROVE  \E b \in ShortBuckets : Within(age, b)
      <2>1. \A n \in Int : n * Part < age => (n + 1) * Part <= age
            BY <1>4, WholeDays
      <2>2. /\ 3 * Part < age => (3 + 1) * Part <= age
            /\ 7 * Part < age => (7 + 1) * Part <= age
            /\ 14 * Part < age => (14 + 1) * Part <= age
            BY <2>1
      <2>3. /\ 3 * Part < age => 4 * Part <= age
            /\ 7 * Part < age => 8 * Part <= age
            /\ 14 * Part < age => 15 * Part <= age
            BY <1>2, <2>2
      <2>4. Within(age, b1) \/ Within(age, b2) \/ Within(age, b3) \/ Within(age, b4)
            BY <1>2, <1>3, <1>4, <2>3
      <2>5. QED
            BY <1>2, <2>4
<1>5. ASSUME NEW b \in ShortBuckets, NEW c \in ShortBuckets, Within(age, b), Within(age, c)
      PROVE  b = c
      BY <1>2, <1>3, <1>5
<1>6. ASSUME age > LongAge, NEW c \in ShortBuckets
      PROVE  ~ Within(age, c)
      BY <1>2, <1>3, <1>6
<1>7. QED
      BY <1>4, <1>5, <1>6

\* The buckets of a month and more.
LongOnes(long) ==
    IF long = {} THEN {}
    ELSE IF Cardinality(long) = 1 THEN {<<Min(long), NoEnd>>}
    ELSE LongBuckets(Min(long), Max(long))

LEMMA LongOnesFit ==
    ASSUME NEW long \in SUBSET Nat, \A a \in long : a > LongAge /\ a <= NoEnd
    PROVE  /\ IsFiniteSet(LongOnes(long))
           /\ \A b \in LongOnes(long) : b[1] \in Nat /\ b[1] > LongAge
           /\ \A age \in Nat : \A b, c \in LongOnes(long) : Within(age, b) /\ Within(age, c) => b = c
           /\ \A age \in long : age % Part = 0 => \E b \in LongOnes(long) : Within(age, b)
<1>1. /\ LongAge = 30 * Part /\ NoEnd = 10000 * Part /\ Part \in Nat \ {0}
      /\ LongAge \in Nat /\ NoEnd \in Nat
      BY RadarAnalyticsAssumption DEF LongAge, NoEnd
<1>2. \A a \in long : a \in Nat /\ a > LongAge /\ a <= NoEnd
      OBVIOUS
<1>3. IsFiniteSet(long)
      <2>1. \A a \in long : a <= NoEnd
            BY <1>2
      <2>2. QED
            BY <1>1, <2>1, FS_BoundedSetOfNaturals
<1>4. CASE long = {}
      BY <1>4, FS_EmptySet DEF LongOnes
<1>5. CASE long # {} /\ Cardinality(long) = 1
      <2> DEFINE b == <<Min(long), NoEnd>>
      <2>1. LongOnes(long) = {b}
            BY <1>5 DEF LongOnes
      <2>2. PICK x : long = {x}
            BY <1>3, <1>5, FS_Singleton
      <2>3. Min(long) = x
            BY <1>2, <1>5, <2>2, LeastIs
      <2>4. b[1] = x /\ b[2] = NoEnd
            BY <2>3
      <2> HIDE DEF b
      <2>5. Within(x, b) /\ b[1] \in Nat /\ b[1] > LongAge
            BY <1>1, <1>2, <2>2, <2>4 DEF Within
      <2>6. IsFiniteSet(LongOnes(long))
            BY <2>1, FS_Singleton
      <2>7. QED
            BY <2>1, <2>2, <2>5, <2>6
<1>6. CASE long # {} /\ Cardinality(long) # 1
      <2> DEFINE least == Min(long)
                 greatest == Max(long)
      <2>1. LongOnes(long) = LongBuckets(least, greatest)
            BY <1>6 DEF LongOnes
      <2>2. least \in long /\ \A a \in long : least <= a
            BY <1>2, <1>6, LeastIs
      <2>3. greatest \in long /\ \A a \in long : a <= greatest
            <3>1. \A a \in long : a <= NoEnd
                  BY <1>2
            <3>2. NoEnd \in Nat /\ long \in SUBSET Nat /\ long # {}
                  BY <1>1, <1>6
            <3>3. QED
                  BY <3>1, <3>2, GreatestIs
      <2> HIDE DEF least, greatest
      <2>4. least \in Nat /\ greatest \in Nat /\ LongAge < least /\ least <= greatest /\ greatest <= NoEnd
            BY <1>1, <1>2, <2>2, <2>3
      <2>5. \A age \in long : age \in least..greatest
            BY <1>2, <2>2, <2>3, <2>4
      <2>6. QED
            BY <2>1, <2>4, <2>5, LongFits
<1>7. QED
      BY <1>4, <1>5, <1>6

\* Each age is in one bucket at most, and in one if it is of whole days.
LEMMA BucketsFit ==
    ASSUME NEW ages \in SUBSET Nat, \A a \in ages : a <= NoEnd
    PROVE  /\ IsFiniteSet(AgeBuckets(ages))
           /\ \A b \in AgeBuckets(ages) : b[1] \in Nat
           /\ \A age \in ages : \A b, c \in AgeBuckets(ages) : Within(age, b) /\ Within(age, c) => b = c
           /\ \A age \in ages : age % Part = 0 => \E b \in AgeBuckets(ages) : Within(age, b)
<1> DEFINE long == {a \in ages : a > LongAge}
           short == {b \in ShortBuckets : \E a \in ages : Within(a, b)}
           later == LongOnes(long)
           fitting == short \cup later
<1>1. AgeBuckets(ages) = IF fitting # {} \/ ages = {} THEN fitting ELSE {<<Min(ages), Min(ages)>>}
      BY DEF AgeBuckets, LongOnes
<1>2. LongAge = 30 * Part /\ Part \in Nat \ {0} /\ LongAge \in Nat
      BY RadarAnalyticsAssumption DEF LongAge
<1>3. long \in SUBSET Nat /\ \A a \in long : a > LongAge /\ a <= NoEnd
      OBVIOUS
<1>4. /\ IsFiniteSet(later)
      /\ \A b \in later : b[1] \in Nat /\ b[1] > LongAge
      /\ \A age \in Nat : \A b, c \in later : Within(age, b) /\ Within(age, c) => b = c
      /\ \A age \in long : age % Part = 0 => \E b \in later : Within(age, b)
      <2> HIDE DEF long
      <2>1. QED
            BY <1>3, LongOnesFit
<1> HIDE DEF later
<1>5. IsFiniteSet(short) /\ \A b \in short : b[1] \in Nat
      <2>1. IsFiniteSet(ShortBuckets)
            <3>1. ShortBuckets = ({<<0, 3 * Part>>} \cup {<<4 * Part, 7 * Part>>})
                                 \cup ({<<8 * Part, 14 * Part>>} \cup {<<15 * Part, 30 * Part>>})
                  BY DEF ShortBuckets
            <3>2. QED
                  BY <3>1, FS_Singleton, FS_Union
      <2>2. short \in SUBSET ShortBuckets
            OBVIOUS
      <2>3. \A b \in ShortBuckets : b[1] \in Nat
            BY <1>2 DEF ShortBuckets
      <2>4. QED
            BY <2>1, <2>2, <2>3, FS_Subset
<1>6. ASSUME NEW age \in ages, NEW b \in fitting, NEW c \in fitting, Within(age, b), Within(age, c)
      PROVE  b = c
      <2>1. age \in Nat
            OBVIOUS
      <2>2. CASE age <= LongAge
            <3>1. ASSUME NEW d \in later
                  PROVE  ~ Within(age, d)
                  <4>1. d[1] \in Nat /\ d[1] > LongAge
                        BY <1>4
                  <4>2. QED
                        BY <1>2, <2>1, <2>2, <4>1 DEF Within
            <3>2. QED
                  BY <1>6, <2>1, <3>1, ShortFits
      <2>3. CASE age > LongAge
            <3>1. b \in later /\ c \in later
                  BY <1>6, <2>1, <2>3, ShortFits
            <3>2. QED
                  BY <1>4, <1>6, <2>1, <3>1
      <2>4. QED
            BY <1>2, <2>1, <2>2, <2>3
<1>7. ASSUME NEW age \in ages, age % Part = 0
      PROVE  \E b \in fitting : Within(age, b)
      <2>1. age \in Nat
            OBVIOUS
      <2>2. CASE age <= LongAge
            <3>1. PICK b \in ShortBuckets : Within(age, b)
                  BY <1>7, <2>1, <2>2, ShortFits
            <3>2. QED
                  BY <3>1
      <2>3. CASE age > LongAge
            BY <1>4, <1>7, <2>3
      <2>4. QED
            BY <1>2, <2>1, <2>2, <2>3
<1>8. IsFiniteSet(fitting) /\ \A b \in fitting : b[1] \in Nat
      <2> HIDE DEF short
      <2>1. QED
            BY <1>4, <1>5, FS_Union
<1> HIDE DEF fitting
<1>9. CASE fitting # {} \/ ages = {}
      BY <1>1, <1>6, <1>7, <1>8, <1>9
<1>10. CASE fitting = {} /\ ages # {}
       <2> DEFINE b == <<Min(ages), Min(ages)>>
       <2>1. AgeBuckets(ages) = {b}
             BY <1>1, <1>10
       <2>2. b[1] \in Nat
             BY <1>10, LeastIs
       <2> HIDE DEF b
       <2>3. QED
             BY <1>7, <1>10, <2>1, <2>2, FS_Singleton
<1>11. QED
       BY <1>9, <1>10

\* The histogram counts the issues that some bucket fits, each once.
LEMMA HistogramCounts ==
    ASSUME NEW issues, IsFiniteSet(issues),
           \A i \in issues : ~ Done(i) => i.age \in Nat /\ i.age <= NoEnd
    PROVE  LET counted == Total(Histogram(issues))
               whole   == {i \in Open(issues) : i.age % Part = 0}
           IN  Cardinality(whole) <= counted /\ counted <= Cardinality(Open(issues))
<1> DEFINE open == Open(issues)
           buckets == AgeBuckets({i.age : i \in open})
           First(i) == {b \in buckets : Within(i.age, b)
                          /\ \A c \in buckets : Within(i.age, c) => b[1] <= c[1]}
           fits == {i \in open : \E b \in buckets : Within(i.age, b)}
           whole == {i \in open : i.age % Part = 0}
           bucketOf == [i \in fits |-> CHOOSE b \in buckets : Within(i.age, b)]
<1>1. Histogram(issues) = [b \in buckets |-> Cardinality({i \in open : b \in First(i)})]
      BY DEF Histogram
<1>2. {i.age : i \in open} \in SUBSET Nat /\ \A a \in {i.age : i \in open} : a <= NoEnd
      BY DEF Open
<1>3. /\ IsFiniteSet(buckets)
      /\ \A b \in buckets : b[1] \in Nat
      /\ \A i \in open : \A b, c \in buckets : Within(i.age, b) /\ Within(i.age, c) => b = c
      /\ \A i \in open : i.age % Part = 0 => \E b \in buckets : Within(i.age, b)
      <2> DEFINE ages == {i.age : i \in open}
      <2>1. \A i \in open : i.age \in ages
            OBVIOUS
      <2> HIDE DEF ages
      <2>2. QED
            BY <1>2, <2>1, BucketsFit DEF ages
<1> HIDE DEF buckets
<1>4. bucketOf \in [fits -> buckets] /\ \A i \in fits : Within(i.age, bucketOf[i])
      OBVIOUS
<1>5. ASSUME NEW i \in open, NEW b \in buckets
      PROVE  b \in First(i) <=> i \in fits /\ bucketOf[i] = b
      <2>1. CASE i \in fits
            <3>1. bucketOf[i] \in buckets /\ Within(i.age, bucketOf[i])
                  BY <1>4, <2>1
            <3>2. \A c \in buckets : Within(i.age, c) => c = bucketOf[i]
                  BY <1>3, <3>1
            <3>3. bucketOf[i][1] <= bucketOf[i][1]
                  BY <1>3, <3>1
            <3> HIDE DEF bucketOf
            <3>4. QED
                  BY <2>1, <3>1, <3>2, <3>3
      <2>2. CASE i \notin fits
            BY <2>2
      <2>3. QED
            BY <2>1, <2>2
<1>6. ASSUME NEW b \in buckets
      PROVE  {i \in open : b \in First(i)} = {i \in fits : bucketOf[i] = b}
      BY <1>5
<1>7. IsFiniteSet(open) /\ fits \in SUBSET open /\ whole \in SUBSET fits
      BY <1>3, FS_Subset DEF Open
<1>8. IsFiniteSet(fits)
      BY <1>7, FS_Subset
<1>9. Cardinality(whole) <= Cardinality(fits) /\ Cardinality(fits) <= Cardinality(open)
      BY <1>7, <1>8, FS_Subset
<1> HIDE DEF open, First, bucketOf, fits, whole
<1>10. Histogram(issues) = [b \in buckets |-> Cardinality({i \in fits : bucketOf[i] = b})]
       BY <1>1, <1>6
<1>11. Total(Histogram(issues)) = Cardinality(fits)
       BY <1>3, <1>4, <1>8, <1>10, CountsAddUp
<1>12. QED
       BY <1>9, <1>11 DEF open, whole

\* The days of a period.
LEMMA DaysFit ==
    /\ MonthStart(Now) \in Int /\ MonthEnd(Now) \in Int
    /\ MonthStart(Now) >= 2 * MonthDays /\ MonthStart(Now) <= Now /\ Now <= MonthEnd(Now)
    /\ \A p \in Periods : RangeStart(p) \in Nat /\ RangeStart(p) <= Now
                          /\ RangeEnd(p) \in Nat /\ Now <= RangeEnd(p)
<1> DEFINE m == Now \div MonthDays
<1>1. /\ MonthDays \in Nat \ {0} /\ Now \in Nat /\ Now >= 3 * MonthDays
      BY RadarAnalyticsAssumption
<1>2. m \in Nat /\ m * MonthDays <= Now /\ Now < (m + 1) * MonthDays
      /\ (3 * MonthDays <= Now => 3 <= m)
      BY <1>1, Quotients
<1> HIDE DEF m
<1>3. m * MonthDays \in Nat /\ (m + 1) * MonthDays = m * MonthDays + MonthDays
      BY <1>1, <1>2
<1>4. m * MonthDays >= 2 * MonthDays
      BY <1>1, <1>2
<1>5. MonthStart(Now) = m * MonthDays /\ MonthEnd(Now) = m * MonthDays + MonthDays - 1
      BY DEF MonthStart, MonthEnd, Month, m
<1>6. ASSUME NEW p \in Periods
      PROVE  /\ RangeStart(p) \in Nat /\ RangeStart(p) <= Now
             /\ RangeEnd(p) \in Nat /\ Now <= RangeEnd(p)
      <2>1. CASE p = "month"
            BY <1>1, <1>2, <1>3, <1>4, <1>5, <2>1 DEF RangeStart, RangeEnd
      <2>2. CASE p = "quarter"
            BY <1>1, <1>2, <1>3, <1>4, <1>5, <2>2 DEF RangeStart, RangeEnd
      <2>3. CASE p = "all"
            BY <1>1, <2>3 DEF RangeStart, RangeEnd
      <2>4. QED
            BY <2>1, <2>2, <2>3 DEF Periods
<1>7. QED
      BY <1>1, <1>2, <1>3, <1>4, <1>5, <1>6

\* The bars count each issue of the list once.
LEMMA TrendCounts ==
    ASSUME NEW issues, IsFiniteSet(issues), \A i \in issues : ClosedOn(i) \in 0..Now,
           NEW p \in Periods
    PROVE  Total(Trend(issues, p)) = Cardinality(ClosureList(issues, p))
<1> DEFINE list == ClosureList(issues, p)
<1>1. RangeStart(p) \in Nat /\ RangeEnd(p) \in Nat /\ Now <= RangeEnd(p) /\ Now \in Nat
      BY DaysFit, RadarAnalyticsAssumption
<1>2. \A i \in list : i \in issues /\ ClosedOn(i) \in RangeStart(p)..Now
      BY <1>1 DEF ClosureList
<1>3. list = ClosedIn(issues, RangeStart(p))
      BY <1>1 DEF ClosureList, ClosedIn
<1>4. IsFiniteSet(list)
      BY FS_Subset DEF ClosureList
<1> HIDE DEF list
<1>5. CASE p = "all"
      <2> DEFINE month == [i \in list |-> Month(ClosedOn(i))]
                 bars == MonthBars(list)
      <2>1. RangeStart(p) = 0
            BY <1>5 DEF RangeStart
      <2>2. Trend(issues, p) = [m \in bars |-> Cardinality({i \in list : Month(ClosedOn(i)) = m})]
            BY <1>3, <1>5, <2>1 DEF Trend
      <2>3. ASSUME NEW day \in 0..Now
            PROVE  Month(day) \in Nat /\ Month(day) <= Month(Now)
            <3> DEFINE m == day \div MonthDays
                       n == Now \div MonthDays
            <3>1. /\ MonthDays \in Nat \ {0} /\ day \in Nat /\ day <= Now
                  BY <1>1, RadarAnalyticsAssumption
            <3>2. m \in Nat /\ m * MonthDays <= day
                  BY <3>1, Quotients
            <3> HIDE DEF m
            <3>3. m * MonthDays \in Nat
                  BY <3>1, <3>2
            <3>4. m * MonthDays <= Now
                  BY <1>1, <3>1, <3>2, <3>3
            <3>5. m <= n
                  BY <1>1, <3>1, <3>2, <3>4, Quotients
            <3>6. QED
                  BY <3>2, <3>5 DEF m, Month
      <2>4. Month(Now) \in Nat
            BY <1>1, <2>3
      <2>5. /\ IsFiniteSet(bars) /\ \A i \in list : Month(ClosedOn(i)) \in bars
            <3>1. CASE list = {}
                  BY <3>1, FS_Singleton DEF MonthBars
            <3>2. CASE list # {}
                  <4> DEFINE ms == {Month(ClosedOn(i)) : i \in list}
                  <4>1. ms \in SUBSET Nat /\ ms # {}
                        BY <1>2, <2>1, <2>3, <3>2
                  <4>2. bars = Min(ms)..Month(Now)
                        BY <3>2 DEF MonthBars
                  <4>3. \A i \in list : Month(ClosedOn(i)) \in ms /\ Month(ClosedOn(i)) <= Month(Now)
                        BY <1>2, <2>1, <2>3
                  <4> HIDE DEF ms, bars
                  <4>4. Min(ms) \in ms /\ \A m \in ms : Min(ms) <= m
                        BY <4>1, LeastIs
                  <4> DEFINE first == Min(ms)
                  <4>5. first \in Nat
                        BY <4>1, <4>4
                  <4>6. ASSUME NEW i \in list
                        PROVE  Month(ClosedOn(i)) \in first..Month(Now)
                        <5> DEFINE m == Month(ClosedOn(i))
                        <5>1. m \in Nat /\ first <= m /\ m <= Month(Now)
                              BY <4>1, <4>3, <4>4
                        <5>2. QED
                              BY <2>4, <4>5, <5>1
                  <4> HIDE DEF first
                  <4>7. IsFiniteSet(first..Month(Now))
                        <5>1. first \in Int /\ Month(Now) \in Int
                              BY <2>4, <4>5
                        <5>2. QED
                              BY <5>1, FS_Interval, Zenon
                  <4>8. QED
                        BY <4>2, <4>6, <4>7 DEF first
            <3>3. QED
                  BY <3>1, <3>2
      <2> HIDE DEF bars
      <2>6. month \in [list -> bars] /\ \A i \in list : month[i] = Month(ClosedOn(i))
            BY <2>5
      <2> HIDE DEF month
      <2>7. \A m \in bars : {i \in list : Month(ClosedOn(i)) = m} = {i \in list : month[i] = m}
            BY <2>6
      <2>8. Trend(issues, p) = [m \in bars |-> Cardinality({i \in list : month[i] = m})]
            BY <2>2, <2>7
      <2>9. QED
            BY <1>4, <2>5, <2>6, <2>8, CountsAddUp DEF list
<1>6. CASE p # "all"
      <2> DEFINE day == [i \in list |-> ClosedOn(i)]
                 bars == DayBars(p)
      <2>1. Trend(issues, p) = [d \in bars |-> Cardinality({i \in list : ClosedOn(i) = d})]
            BY <1>3, <1>6 DEF Trend
      <2>2. bars = RangeStart(p)..RangeEnd(p)
            BY DEF DayBars
      <2>3. IsFiniteSet(bars) /\ \A i \in list : ClosedOn(i) \in bars
            <3>1. IsFiniteSet(bars)
                  BY <1>1, <2>2, FS_Interval
            <3>2. ASSUME NEW i \in list
                  PROVE  ClosedOn(i) \in bars
                  <4> DEFINE d == ClosedOn(i)
                  <4>1. d \in RangeStart(p)..Now
                        BY <1>2
                  <4>2. d \in RangeStart(p)..RangeEnd(p)
                        BY <1>1, <4>1
                  <4>3. QED
                        BY <2>2, <4>2
            <3>3. QED
                  BY <3>1, <3>2
      <2> HIDE DEF bars
      <2>4. day \in [list -> bars] /\ \A i \in list : day[i] = ClosedOn(i)
            BY <2>3
      <2> HIDE DEF day
      <2>5. \A d \in bars : {i \in list : ClosedOn(i) = d} = {i \in list : day[i] = d}
            BY <2>4
      <2>6. Trend(issues, p) = [d \in bars |-> Cardinality({i \in list : day[i] = d})]
            BY <2>1, <2>5
      <2>7. QED
            BY <1>4, <2>3, <2>4, <2>6, CountsAddUp DEF list
<1>7. QED
      BY <1>5, <1>6

\* A snapshot holds finitely many issues, with ages and days there are.
LEMMA SoundIssues ==
    ASSUME NEW issues, Sound(issues)
    PROVE  /\ IsFiniteSet(issues)
           /\ \A i \in issues : /\ i.key \in Keys /\ IsFiniteSet(i.links) /\ i.age \in Ages
                                /\ i.ended \in BOOLEAN /\ ClosedOn(i) \in 0..Now
<1> DEFINE f == [i \in issues |-> i.key]
<1>1. f \in Injection(issues, Keys)
      BY DEF Sound, Sent, Injection, IsInjective
<1>2. IsFiniteSet(Keys)
      BY RadarAssumption
<1> HIDE DEF f
<1>3. IsFiniteSet(issues)
      BY <1>1, <1>2, FS_Injection
<1>4. ASSUME NEW i \in issues
      PROVE  /\ i.key \in Keys /\ IsFiniteSet(i.links) /\ i.age \in Ages
             /\ i.ended \in BOOLEAN /\ ClosedOn(i) \in 0..Now
      BY DEF Sound, Sent, ClosedOn
<1>5. QED
      BY <1>3, <1>4

LEMMA ShownSound == RadarInv => \A s \in Snapshots : Sound(s.issues)
BY DEF Snapshots, RadarInv, Progressed

\* The histogram of ages counts no open issue that is shown twice and each whose age is
\* a whole number of days, wherever the long buckets are cut, for issues no older than
\* the last bucket reaches: that is 27 years (build_status_age_histogram).
THEOREM AgesAreCounted ==
    ASSUME \A j \in Initial, k \in Keys : j[k].age <= NoEnd
    PROVE  Spec => []AgesCounted
<1>1. \A age \in Ages : age \in Nat /\ age <= NoEnd
      <2>1. ASSUME NEW j \in Initial, NEW k \in Keys
            PROVE  j[k].age \in Nat
            BY RadarAssumption
      <2>2. 0 <= NoEnd
            BY RadarAnalyticsAssumption DEF NoEnd
      <2>3. QED
            BY <2>1, <2>2 DEF Ages
<1>2. ASSUME NEW issues, Sound(issues)
      PROVE  LET counted == Total(Histogram(issues))
                 whole   == {i \in Open(issues) : i.age % Part = 0}
             IN  Cardinality(whole) <= counted /\ counted <= Cardinality(Open(issues))
      <2>1. /\ IsFiniteSet(issues)
            /\ \A i \in issues : ~ Done(i) => i.age \in Nat /\ i.age <= NoEnd
            BY <1>1, <1>2, SoundIssues
      <2>2. QED
            BY <2>1, HistogramCounts
<1>3. RadarInv => AgesCounted
      BY <1>2, ShownSound, Zenon DEF AgesCounted
<1>4. QED
      BY <1>3, RadarInductive, PTL

\* In each period the bars of the closures are as high together as the list beside
\* them is long, although each is selected on its own (build_closure_trend,
\* build_chart_details).
THEOREM TrendsShowDetails == Spec => []TrendShowsDetails
<1>1. ASSUME NEW issues, Sound(issues), NEW p \in Periods
      PROVE  Total(Trend(issues, p)) = Cardinality(ClosureList(issues, p))
      BY <1>1, SoundIssues, TrendCounts
<1>2. RadarInv => TrendShowsDetails
      BY <1>1, ShownSound DEF TrendShowsDetails
<1>3. QED
      BY <1>2, RadarInductive, PTL

-----------------------------------------------------------------------------
(* The alerts: which of them are kept, and which of those comes first.      *)

\* A strict total order.
Orders(R, K) ==
    /\ R \in SUBSET (K \X K)
    /\ \A m \in K : <<m, m>> \notin R
    /\ \A l, m, n \in K : <<l, m>> \in R /\ <<m, n>> \in R => <<l, n>> \in R
    /\ \A m, n \in K : m # n => <<m, n>> \in R \/ <<n, m>> \in R

Ahead(R, K, n) == {m \in K : <<m, n>> \in R}

\* Who is ahead of others has fewer ahead.
LEMMA FewerAhead ==
    ASSUME NEW K, IsFiniteSet(K), NEW R, Orders(R, K), NEW m \in K, NEW n \in K
    PROVE  /\ Cardinality(Ahead(R, K, n)) \in Nat
           /\ <<m, n>> \in R => Cardinality(Ahead(R, K, m)) < Cardinality(Ahead(R, K, n))
<1> DEFINE A == Ahead(R, K, m)
           B == Ahead(R, K, n)
<1>1. A \in SUBSET K /\ B \in SUBSET K
      BY DEF Ahead
<1>2. IsFiniteSet(A) /\ IsFiniteSet(B)
      BY <1>1, FS_Subset
<1>3. ASSUME <<m, n>> \in R
      PROVE  A \in SUBSET B /\ A # B
      <2>1. \A l \in A : l \in B
            BY <1>3 DEF Ahead, Orders
      <2>2. m \in B /\ m \notin A
            BY <1>3 DEF Ahead, Orders
      <2>3. QED
            BY <2>1, <2>2
<1>4. Cardinality(A) \in Nat /\ Cardinality(B) \in Nat
      BY <1>2, FS_CardinalityType
<1> HIDE DEF A, B
<1>5. ASSUME <<m, n>> \in R
      PROVE  Cardinality(A) < Cardinality(B)
      <2>1. A \in SUBSET B /\ A # B
            BY <1>3, <1>5
      <2>2. Cardinality(A) <= Cardinality(B) /\ Cardinality(A) # Cardinality(B)
            BY <1>2, <2>1, FS_Subset
      <2>3. QED
            BY <1>4, <2>2
<1>6. QED
      BY <1>4, <1>5 DEF A, B

\* The first of a finite set in an order.
LEMMA FirstIs ==
    ASSUME NEW K, IsFiniteSet(K), NEW R, Orders(R, K), NEW L \in SUBSET K, L # {}
    PROVE  \E n \in L : \A m \in L : m # n => <<n, m>> \in R
<1> DEFINE C(n) == Cardinality(Ahead(R, K, n))
           S == {C(n) : n \in L}
<1>1. \A n \in L : C(n) \in Nat
      BY FewerAhead
<1> HIDE DEF C
<1>2. S \in SUBSET Nat /\ S # {}
      BY <1>1
<1>3. Min(S) \in S /\ \A x \in S : Min(S) <= x
      <2> HIDE DEF S
      <2>1. QED
            BY <1>2, LeastIs
<1>4. PICK n \in L : C(n) = Min(S)
      BY <1>3
<1>5. \A m \in L : C(m) \in Nat /\ C(n) <= C(m)
      BY <1>1, <1>3, <1>4
<1> HIDE DEF S
<1>6. ASSUME NEW m \in L, m # n
      PROVE  <<n, m>> \in R
      <2>1. CASE <<m, n>> \in R
            <3>1. C(m) < C(n)
                  BY <2>1, FewerAhead DEF C
            <3>2. C(m) \in Nat /\ C(n) \in Nat /\ C(n) <= C(m)
                  BY <1>5
            <3>3. QED
                  BY <3>1, <3>2
      <2>2. CASE <<m, n>> \notin R
            BY <1>6, <2>2 DEF Orders
      <2>3. QED
            BY <2>1, <2>2
<1>7. QED
      BY <1>6

\* Who is in the first place, and in the second.
LEMMA FirstPlace ==
    ASSUME NEW K, IsFiniteSet(K), NEW R, Orders(R, K), K # {},
           NEW p, p = CHOOSE n \in K : 1 + Cardinality(Ahead(R, K, n)) = 1
    PROVE  p \in K /\ \A m \in K : m # p => <<p, m>> \in R
<1>1. PICK n \in K : \A m \in K : m # n => <<n, m>> \in R
      BY FirstIs
<1>2. Ahead(R, K, n) = {}
      BY <1>1 DEF Ahead, Orders
<1>3. 1 + Cardinality(Ahead(R, K, n)) = 1
      BY <1>2, FS_EmptySet
<1>4. p \in K /\ 1 + Cardinality(Ahead(R, K, p)) = 1
      BY <1>3
<1>5. p = n
      <2>1. /\ Cardinality(Ahead(R, K, p)) \in Nat
            /\ <<n, p>> \in R => Cardinality(Ahead(R, K, n)) < Cardinality(Ahead(R, K, p))
            BY <1>4, FewerAhead
      <2>2. ~ (<<n, p>> \in R)
            BY <1>2, <1>4, <2>1, FS_EmptySet
      <2>3. QED
            BY <1>1, <1>4, <2>2
<1>6. QED
      BY <1>1, <1>5

LEMMA SecondPlace ==
    ASSUME NEW K, IsFiniteSet(K), NEW R, Orders(R, K), Cardinality(K) >= 2,
           NEW p \in K, \A m \in K : m # p => <<p, m>> \in R,
           NEW q, q = CHOOSE n \in K : 1 + Cardinality(Ahead(R, K, n)) = 2
    PROVE  q \in K /\ q # p /\ \A m \in K : m # p /\ m # q => <<q, m>> \in R
<1> DEFINE L == K \ {p}
<1>1. L # {}
      <2>1. ASSUME K = {p}
            PROVE  FALSE
            BY <2>1, FS_Singleton
      <2>2. QED
            BY <2>1
<1>2. PICK n \in L : \A m \in L : m # n => <<n, m>> \in R
      <2>1. L \in SUBSET K
            OBVIOUS
      <2> HIDE DEF L
      <2>2. QED
            BY <1>1, <2>1, FirstIs
<1>3. Ahead(R, K, n) = {p}
      BY <1>2 DEF Ahead, Orders
<1>4. Cardinality(Ahead(R, K, n)) = 1
      BY <1>3, FS_Singleton
<1>5. q \in K /\ 1 + Cardinality(Ahead(R, K, q)) = 2
      BY <1>4
<1>6. /\ Cardinality(Ahead(R, K, q)) \in Nat
      /\ <<n, q>> \in R => Cardinality(Ahead(R, K, n)) < Cardinality(Ahead(R, K, q))
      /\ <<q, n>> \in R => Cardinality(Ahead(R, K, q)) < Cardinality(Ahead(R, K, n))
      BY <1>2, <1>5, FewerAhead
<1>7. q = n
      <2>1. Cardinality(Ahead(R, K, q)) = 1
            BY <1>5, <1>6
      <2>2. <<n, q>> \notin R /\ <<q, n>> \notin R
            BY <1>4, <1>6, <2>1
      <2>3. QED
            BY <1>2, <1>5, <2>2 DEF Orders
<1>8. QED
      BY <1>2, <1>7

Severities == {"high", "medium", "low"}

\* How bad an alert is.
Badness(a) == SeverityRank[a.severity]

\* Lists of alerts with a severity and a number of days.
Listed(A) == \A a \in A : a.severity \in Severities /\ a.days \in Int

LEMMA Ranked ==
    /\ \A s \in Severities : SeverityRank[s] \in 0..2
    /\ \A s, t \in Severities : SeverityRank[s] = SeverityRank[t] => s = t
    /\ SeverityRank["high"] = 0
BY DEF Severities, SeverityRank

\* The order of the alerts that are kept.
Order(alerts) == {p \in Kept(alerts) \X Kept(alerts) : Precedes(alerts, p[1], p[2])}

LEMMA AlertsOrdered ==
    ASSUME NEW A, Listed(A), NEW alerts \in Seq(A)
    PROVE  /\ IsFiniteSet(Kept(alerts)) /\ Kept(alerts) \in SUBSET DOMAIN alerts
           /\ Orders(Order(alerts), Kept(alerts))
           /\ \A n \in Kept(alerts) : Place(alerts, n) = 1 + Cardinality(Ahead(Order(alerts), Kept(alerts), n))
           /\ \A m, n \in Kept(alerts) : <<m, n>> \in Order(alerts) => Badness(alerts[m]) <= Badness(alerts[n])
<1> DEFINE K == Kept(alerts)
           R == Order(alerts)
           B(n) == SeverityRank[alerts[n].severity]
           D(n) == alerts[n].days
<1>1. Len(alerts) \in Nat /\ DOMAIN alerts = 1..Len(alerts)
      OBVIOUS
<1>2. K \in SUBSET DOMAIN alerts
      BY DEF Kept
<1>3. IsFiniteSet(K)
      <2>1. IsFiniteSet(1..Len(alerts))
            BY <1>1, FS_Interval
      <2>2. QED
            BY <1>1, <1>2, <2>1, FS_Subset
<1>4. \A n \in K : n \in Nat /\ B(n) \in 0..2 /\ D(n) \in Int
      <2>1. ASSUME NEW n \in K
            PROVE  n \in Nat /\ B(n) \in 0..2 /\ D(n) \in Int
            <3>1. n \in 1..Len(alerts) /\ alerts[n] \in A
                  BY <1>1, <1>2
            <3>2. QED
                  BY <3>1, Ranked DEF Listed
      <2>2. QED
            BY <2>1
<1>5. \A m, n \in K : <<m, n>> \in R <=> \/ B(m) < B(n)
                                         \/ B(m) = B(n) /\ D(m) > D(n)
                                         \/ B(m) = B(n) /\ D(m) = D(n) /\ m < n
      <2>1. ASSUME NEW m \in K, NEW n \in K
            PROVE  <<m, n>> \in R <=> \/ B(m) < B(n)
                                      \/ B(m) = B(n) /\ D(m) > D(n)
                                      \/ B(m) = B(n) /\ D(m) = D(n) /\ m < n
            <3>1. <<m, n>> \in R <=> Precedes(alerts, m, n)
                  BY DEF Order
            <3>2. alerts[m].severity = alerts[n].severity <=> B(m) = B(n)
                  <4>1. alerts[m] \in A /\ alerts[n] \in A
                        BY <1>2
                  <4>2. QED
                        BY <4>1, Ranked DEF Listed
            <3>3. /\ WorseThan(alerts[m], alerts[n]) <=> B(m) < B(n) \/ (B(m) = B(n) /\ D(m) > D(n))
                  /\ WorseThan(alerts[n], alerts[m]) <=> B(n) < B(m) \/ (B(m) = B(n) /\ D(n) > D(m))
                  BY <3>2 DEF WorseThan
            <3> HIDE DEF B, D
            <3>4. /\ B(m) \in Int /\ B(n) \in Int /\ D(m) \in Int /\ D(n) \in Int
                  BY <1>4
            <3>5. QED
                  BY <3>1, <3>3, <3>4 DEF Precedes
      <2>2. QED
            BY <2>1
<1>6. R \in SUBSET (K \X K)
      BY DEF Order
<1>7. \A n \in K : Place(alerts, n) = 1 + Cardinality(Ahead(R, K, n))
      <2>1. ASSUME NEW n \in K
            PROVE  {m \in K : Precedes(alerts, m, n)} = Ahead(R, K, n)
            BY DEF Ahead, Order
      <2>2. QED
            BY <2>1 DEF Place
<1> HIDE DEF K, R, B, D
<1>8. Orders(R, K)
      <2>1. \A m \in K : <<m, m>> \notin R
            BY <1>4, <1>5
      <2>2. ASSUME NEW l \in K, NEW m \in K, NEW n \in K, <<l, m>> \in R, <<m, n>> \in R
            PROVE  <<l, n>> \in R
            BY <1>4, <1>5, <2>2
      <2>3. ASSUME NEW m \in K, NEW n \in K, m # n
            PROVE  <<m, n>> \in R \/ <<n, m>> \in R
            BY <1>4, <1>5, <2>3
      <2>4. QED
            BY <1>6, <2>1, <2>2, <2>3 DEF Orders
<1>9. \A m, n \in K : <<m, n>> \in R => B(m) <= B(n)
      BY <1>4, <1>5
<1>10. QED
       BY <1>2, <1>3, <1>7, <1>8, <1>9 DEF K, R, B, Badness

\* What is left of a list: the two worst that are kept.
LEMMA DedupeIs ==
    ASSUME NEW A, Listed(A), NEW alerts \in Seq(A)
    PROVE  /\ Dedupe(alerts) \in Seq(A)
           /\ \A n \in Kept(alerts) :
                 \/ \E r \in DOMAIN Dedupe(alerts) : Dedupe(alerts)[r] = alerts[n]
                 \/ \E p, q \in Kept(alerts) :
                       /\ p # q /\ DOMAIN Dedupe(alerts) = {1, 2}
                       /\ Dedupe(alerts)[1] = alerts[p] /\ Dedupe(alerts)[2] = alerts[q]
                       /\ Badness(alerts[p]) <= Badness(alerts[n])
                       /\ Badness(alerts[q]) <= Badness(alerts[n])
           /\ \A n \in Kept(alerts) :
                 1 \in DOMAIN Dedupe(alerts) /\ Badness(Dedupe(alerts)[1]) <= Badness(alerts[n])
<1> DEFINE K == Kept(alerts)
           R == Order(alerts)
           size == Least(2, Cardinality(K))
           Top(r) == CHOOSE n \in K : 1 + Cardinality(Ahead(R, K, n)) = r
<1>1. /\ IsFiniteSet(K) /\ K \in SUBSET DOMAIN alerts /\ Orders(R, K)
      /\ \A n \in K : Place(alerts, n) = 1 + Cardinality(Ahead(R, K, n))
      /\ \A m, n \in K : <<m, n>> \in R => Badness(alerts[m]) <= Badness(alerts[n])
      BY AlertsOrdered
<1>2. Dedupe(alerts) = [r \in 1..size |-> alerts[Top(r)]]
      <2> DEFINE Pick(r) == CHOOSE n \in K : Place(alerts, n) = r
      <2>1. Dedupe(alerts) = [r \in 1..size |-> alerts[Pick(r)]]
            BY DEF Dedupe
      <2>2. ASSUME NEW r
            PROVE  Pick(r) = Top(r)
            BY <1>1
      <2> HIDE DEF Pick, Top, size
      <2>3. QED
            BY <2>1, <2>2
<1> HIDE DEF K, R
<1>3. Cardinality(K) \in Nat
      BY <1>1, FS_CardinalityType
<1>4. size \in 0..2 /\ (Cardinality(K) >= 2 => size = 2) /\ (Cardinality(K) = 1 => size = 1) /\ (size = 2 => Cardinality(K) >= 2)
      BY <1>3 DEF Least
<1>5. K # {} => Cardinality(K) # 0
      BY <1>1, FS_EmptySet
<1>6. size >= 1 => K # {}
      <2>1. ASSUME K = {}
            PROVE  size = 0
            <3>1. Cardinality(K) = 0
                  BY <2>1, FS_EmptySet
            <3>2. QED
                  BY <3>1 DEF Least
      <2>2. QED
            BY <2>1
<1> HIDE DEF size
<1>7. ASSUME K # {}
      PROVE  Top(1) \in K /\ \A m \in K : m # Top(1) => <<Top(1), m>> \in R
      <2> DEFINE p == Top(1)
      <2>1. p = CHOOSE n \in K : 1 + Cardinality(Ahead(R, K, n)) = 1
            OBVIOUS
      <2> HIDE DEF p
      <2>2. QED
            BY <1>1, <1>7, <2>1, FirstPlace DEF p
<1>8. ASSUME size = 2
      PROVE  Top(2) \in K /\ Top(2) # Top(1) /\ \A m \in K : m # Top(1) /\ m # Top(2) => <<Top(2), m>> \in R
      <2> DEFINE p == Top(1)
                 q == Top(2)
      <2>1. q = CHOOSE n \in K : 1 + Cardinality(Ahead(R, K, n)) = 2
            OBVIOUS
      <2>2. p \in K /\ \A m \in K : m # p => <<p, m>> \in R
            BY <1>4, <1>6, <1>7, <1>8
      <2>3. Cardinality(K) >= 2
            BY <1>4, <1>8
      <2> HIDE DEF p, q
      <2>4. q \in K /\ q # p /\ \A m \in K : m # p /\ m # q => <<q, m>> \in R
            BY <1>1, <2>1, <2>2, <2>3, SecondPlace
      <2>5. QED
            BY <2>4 DEF p, q
<1> HIDE DEF Top
<1>9. \A r \in 1..size : alerts[Top(r)] \in A
      <2>1. ASSUME NEW r \in 1..size
            PROVE  Top(r) \in K
            <3>1. r = 1 \/ (r = 2 /\ size = 2)
                  BY <1>4
            <3>2. size >= 1
                  BY <1>4
            <3>3. QED
                  BY <1>6, <1>7, <1>8, <3>1, <3>2
      <2>2. QED
            BY <1>1, <2>1
<1>10. Dedupe(alerts) \in Seq(A)
       <2>1. size \in Nat
             BY <1>4
       <2>2. QED
             BY <1>2, <1>9, <2>1
<1>11. ASSUME NEW n \in K
       PROVE  1 \in 1..size /\ Badness(alerts[Top(1)]) <= Badness(alerts[n])
       <2>1. size \in 1..2
             BY <1>3, <1>4, <1>5
       <2>2. Top(1) = n \/ <<Top(1), n>> \in R
             BY <1>7
       <2>3. Badness(alerts[n]) \in Int
             <3>1. alerts[n] \in A
                   BY <1>1
             <3>2. QED
                   BY <3>1, Ranked DEF Listed, Badness
       <2>4. QED
             BY <1>1, <1>7, <2>1, <2>2, <2>3
<1>12. ASSUME NEW n \in K
       PROVE  \/ \E r \in 1..size : alerts[Top(r)] = alerts[n]
              \/ \E p, q \in K :
                       /\ p # q /\ 1..size = {1, 2}
                       /\ alerts[Top(1)] = alerts[p] /\ alerts[Top(2)] = alerts[q]
                       /\ Badness(alerts[p]) <= Badness(alerts[n])
                       /\ Badness(alerts[q]) <= Badness(alerts[n])
       <2>1. CASE n = Top(1)
             BY <1>11, <2>1
       <2>2. CASE n # Top(1) /\ size = 1
             <3>1. Cardinality(K) = 1
                   BY <1>3, <1>4, <1>5, <2>2
             <3>2. PICK x : K = {x}
                   BY <1>1, <3>1, FS_Singleton
             <3>3. QED
                   BY <1>7, <2>2, <3>2
       <2>3. CASE n = Top(2) /\ size = 2
             <3>1. 2 \in 1..size
                   BY <2>3
             <3>2. QED
                   BY <2>3, <3>1
       <2>4. CASE n # Top(1) /\ n # Top(2) /\ size = 2
             <3>1. 1..size = {1, 2}
                   BY <2>4
             <3>2. Badness(alerts[Top(1)]) <= Badness(alerts[n]) /\ Badness(alerts[Top(2)]) <= Badness(alerts[n])
                   BY <1>1, <1>7, <1>8, <2>4
             <3>3. QED
                   BY <1>7, <1>8, <2>4, <3>1, <3>2
       <2>5. QED
             BY <1>4, <1>11, <2>1, <2>2, <2>3, <2>4
<1>13. DOMAIN Dedupe(alerts) = 1..size /\ \A r \in 1..size : Dedupe(alerts)[r] = alerts[Top(r)]
       BY <1>2
<1> DEFINE d == Dedupe(alerts)
<1> HIDE DEF d
<1>14. /\ DOMAIN d = 1..size /\ \A r \in 1..size : d[r] = alerts[Top(r)]
       BY <1>13 DEF d
<1>15. \A n \in K :
                 \/ \E r \in DOMAIN d : d[r] = alerts[n]
                 \/ \E p, q \in K :
                       /\ p # q /\ DOMAIN d = {1, 2}
                       /\ d[1] = alerts[p] /\ d[2] = alerts[q]
                       /\ Badness(alerts[p]) <= Badness(alerts[n])
                       /\ Badness(alerts[q]) <= Badness(alerts[n])
       BY <1>12, <1>14
<1>16. \A n \in K : 1 \in DOMAIN d /\ Badness(d[1]) <= Badness(alerts[n])
       BY <1>11, <1>14
<1>17. QED
       BY <1>10, <1>15, <1>16 DEF d, K

\* Lists put one after the other hold what each of them holds.  The function that
\* FlattenSeq recurses by exists: where there is none yet, up to a least list, there
\* was one up to the list before.
LEMMA FlattenIs ==
    ASSUME NEW A, NEW seqs \in Seq(Seq(A))
    PROVE  /\ FlattenSeq(seqs) \in Seq(A)
           /\ \A n \in DOMAIN seqs : \A k \in DOMAIN seqs[n] :
                 \E m \in DOMAIN FlattenSeq(seqs) : FlattenSeq(seqs)[m] = seqs[n][k]
<1> DEFINE N == Len(seqs)
           Flat(f, n) == \A i \in 1..n : f[i] = IF i = 1 THEN seqs[i] ELSE f[i - 1] \o seqs[i]
           Has(n) == \E f \in [1..n -> Seq(A)] : Flat(f, n)
           flatten == CHOOSE f : f = [i \in 1..N |-> IF i = 1 THEN seqs[i] ELSE f[i - 1] \o seqs[i]]
<1>1. N \in Nat /\ DOMAIN seqs = 1..N /\ \A i \in 1..N : seqs[i] \in Seq(A)
      OBVIOUS
<1> HIDE DEF N
<1>2. Has(0)
      <2> DEFINE f == [i \in 1..0 |-> <<>>]
      <2>1. f \in [1..0 -> Seq(A)] /\ Flat(f, 0)
            OBVIOUS
      <2>2. QED
            BY <2>1
<1>3. ASSUME NEW n \in Nat, n + 1 <= N, Has(n)
      PROVE  Has(n + 1)
      <2>1. PICK f \in [1..n -> Seq(A)] : Flat(f, n)
            BY <1>3
      <2> DEFINE next == IF n = 0 THEN seqs[1] ELSE f[n] \o seqs[n + 1]
                 g == [i \in 1..(n + 1) |-> IF i = n + 1 THEN next ELSE f[i]]
      <2>2. next \in Seq(A)
            <3>1. n + 1 \in 1..N /\ seqs[n + 1] \in Seq(A)
                  BY <1>1, <1>3
            <3>2. CASE n = 0
                  BY <3>1, <3>2
            <3>3. CASE n # 0
                  <4>1. f[n] \in Seq(A)
                        BY <3>3
                  <4>2. QED
                        BY <3>1, <3>3, <4>1
            <3>4. QED
                  BY <3>2, <3>3
      <2>3. g \in [1..(n + 1) -> Seq(A)]
            <3> HIDE DEF next
            <3>1. ASSUME NEW i \in 1..(n + 1)
                  PROVE  g[i] \in Seq(A)
                  <4>1. i = n + 1 \/ i \in 1..n
                        OBVIOUS
                  <4>2. QED
                        BY <2>2, <4>1
            <3>2. QED
                  BY <3>1
      <2>4. ASSUME NEW i \in 1..(n + 1)
            PROVE  g[i] = IF i = 1 THEN seqs[i] ELSE g[i - 1] \o seqs[i]
            <3>1. CASE i = n + 1
                  <4>1. g[i] = next
                        BY <3>1
                  <4>2. n # 0 => g[n] = f[n]
                        OBVIOUS
                  <4>3. i = 1 <=> n = 0
                        BY <3>1
                  <4>4. i - 1 = n
                        BY <3>1
                  <4> HIDE DEF g
                  <4>5. QED
                        BY <3>1, <4>1, <4>2, <4>3, <4>4
            <3>2. CASE i # n + 1
                  <4>1. i \in 1..n /\ i \in 1..(n + 1) /\ (i # 1 => i - 1 \in 1..n /\ i - 1 # n + 1 /\ i - 1 \in 1..(n + 1))
                        BY <3>2
                  <4>2. g[i] = f[i] /\ (i # 1 => g[i - 1] = f[i - 1])
                        BY <3>2, <4>1
                  <4>3. f[i] = IF i = 1 THEN seqs[i] ELSE f[i - 1] \o seqs[i]
                        BY <2>1, <4>1
                  <4> HIDE DEF g
                  <4>4. QED
                        BY <4>2, <4>3
            <3>3. QED
                  BY <3>1, <3>2
      <2> HIDE DEF g
      <2>5. QED
            BY <2>3, <2>4
<1> HIDE DEF Has
<1>4. ASSUME ~ Has(N)
      PROVE  FALSE
      <2> DEFINE Wrong == {n \in Nat : n <= N /\ ~ Has(n)}
      <2>1. Wrong \in SUBSET Nat /\ Wrong # {}
            BY <1>1, <1>4
      <2> DEFINE n == Min(Wrong)
      <2>2. n \in Wrong /\ \A x \in Wrong : n <= x
            <3> HIDE DEF Wrong
            <3>1. QED
                  BY <2>1, LeastIs
      <2> HIDE DEF n
      <2>3. n \in Nat /\ n <= N /\ ~ Has(n) /\ n # 0
            BY <1>2, <2>2
      <2>4. n - 1 \in Nat /\ n - 1 <= N /\ (n - 1) + 1 = n
            BY <1>1, <2>3
      <2>5. Has(n - 1)
            <3>1. ASSUME n - 1 \in Wrong
                  PROVE  FALSE
                  BY <2>2, <2>3, <2>4, <3>1
            <3>2. QED
                  BY <2>4, <3>1
      <2>6. QED
            BY <1>3, <2>3, <2>4, <2>5
<1>5. PICK f \in [1..N -> Seq(A)] : Flat(f, N)
      BY <1>4 DEF Has
<1>6. f = [i \in 1..N |-> IF i = 1 THEN seqs[i] ELSE f[i - 1] \o seqs[i]]
      <2>1. f = [i \in 1..N |-> f[i]]
            OBVIOUS
      <2>2. \A i \in 1..N : f[i] = IF i = 1 THEN seqs[i] ELSE f[i - 1] \o seqs[i]
            BY <1>5
      <2>3. QED
            BY <2>1, <2>2, Zenon
<1>7. flatten = [i \in 1..N |-> IF i = 1 THEN seqs[i] ELSE flatten[i - 1] \o seqs[i]]
      BY <1>6, Zenon
<1> HIDE DEF flatten
<1>8. \A i \in 1..N : flatten[i] = IF i = 1 THEN seqs[i] ELSE flatten[i - 1] \o seqs[i]
      BY <1>7, Zenon
<1> DEFINE Right(i) == /\ flatten[i] \in Seq(A)
                       /\ \A n \in 1..i : \A k \in DOMAIN seqs[n] :
                             \E m \in DOMAIN flatten[i] : flatten[i][m] = seqs[n][k]
<1>9. 1 \in 1..N => Right(1)
      <2>1. ASSUME 1 \in 1..N
            PROVE  flatten[1] = seqs[1] /\ 1..1 = {1}
            BY <1>8, <2>1
      <2>2. QED
            BY <1>1, <2>1
<1>10. ASSUME NEW i \in 1..N, i # 1, Right(i - 1)
       PROVE  Right(i)
       <2> DEFINE a == flatten[i - 1]
                  b == seqs[i]
                  c == flatten[i]
       <2>1. i \in Nat /\ i - 1 \in Nat /\ a \in Seq(A) /\ b \in Seq(A) /\ c = a \o b
             <3>1. c = a \o b
                   BY <1>8, <1>10
             <3>2. a \in Seq(A)
                   BY <1>10
             <3>3. b \in Seq(A)
                   BY <1>1
             <3>4. i \in Nat /\ i - 1 \in Nat
                   BY <1>1, <1>10
             <3>5. QED
                   BY <3>1, <3>2, <3>3, <3>4
       <2>2. ASSUME NEW n \in 1..i, NEW k \in DOMAIN seqs[n]
             PROVE  \E m \in DOMAIN c : c[m] = seqs[n][k]
             <3>1. CASE n = i
                   <4> DEFINE m == Len(a) + k
                   <4>0. k \in DOMAIN b
                         BY <3>1
                   <4> HIDE DEF a, b, c
                   <4>1. k \in 1..Len(b) /\ Len(a) \in Nat /\ Len(b) \in Nat
                         BY <2>1, <4>0
                   <4>2. m \in 1..Len(c) /\ DOMAIN c = 1..Len(c) /\ c[m] = b[k]
                         <5>1. a \in Seq(A) /\ b \in Seq(A) /\ c = a \o b
                               BY <2>1
                         <5>2. Len(c) = Len(a) + Len(b) /\ DOMAIN c = 1..Len(c)
                               BY <5>1
                         <5>3. m \in 1..Len(c) /\ ~ (m <= Len(a)) /\ m - Len(a) = k
                               <6> DEFINE p == Len(a)
                                          q == Len(b)
                               <6>1. p \in Nat /\ q \in Nat /\ k \in 1..q /\ Len(c) = p + q
                                     BY <4>1, <5>2
                               <6> HIDE DEF p, q
                               <6>2. p + k \in 1..(p + q) /\ ~ (p + k <= p) /\ (p + k) - p = k
                                     BY <6>1
                               <6>3. QED
                                     BY <6>1, <6>2 DEF p
                         <5>4. \A l \in 1..(Len(a) + Len(b)) : c[l] = IF l <= Len(a) THEN a[l] ELSE b[l - Len(a)]
                               BY <5>1, ConcatProperties
                         <5> HIDE DEF m
                         <5>5. c[m] = b[m - Len(a)]
                               BY <5>2, <5>3, <5>4
                         <5>6. QED
                               BY <5>2, <5>3, <5>5
                   <4>3. QED
                         BY <3>1, <4>2 DEF b
             <3>2. CASE n # i
                   <4>1. n \in 1..(i - 1)
                         BY <2>1, <3>2
                   <4>2. PICK m \in DOMAIN a : a[m] = seqs[n][k]
                         BY <1>10, <4>1
                   <4> HIDE DEF a, b, c
                   <4>3. m \in DOMAIN c /\ c[m] = a[m]
                         BY <2>1
                   <4>4. QED
                         BY <4>2, <4>3
             <3>3. QED
                   BY <3>1, <3>2
       <2>3. c \in Seq(A)
             <3> HIDE DEF a, b, c
             <3>1. QED
                   BY <2>1
       <2>4. QED
             BY <2>2, <2>3
<1> HIDE DEF Right
<1>11. ASSUME NEW j \in 1..N, ~ Right(j)
       PROVE  FALSE
       <2> DEFINE Wrong == {i \in Nat : i \in 1..N /\ ~ Right(i)}
       <2>1. Wrong \in SUBSET Nat /\ Wrong # {}
             <3>1. j \in Wrong
                   BY <1>1, <1>11
             <3>2. QED
                   BY <3>1
       <2> DEFINE i == Min(Wrong)
       <2>2. i \in Wrong /\ \A x \in Wrong : i <= x
             <3> HIDE DEF Wrong
             <3>1. QED
                   BY <2>1, LeastIs
       <2> HIDE DEF i
       <2>3. i \in Nat /\ i \in 1..N /\ ~ Right(i) /\ i # 1
             BY <1>9, <2>2
       <2>4. i - 1 \in Nat /\ i - 1 \in 1..N /\ ~ (i <= i - 1)
             BY <1>1, <2>3
       <2>5. Right(i - 1)
             BY <2>2, <2>4
       <2>6. QED
             BY <1>10, <2>3, <2>5
<1>12. CASE N = 0
       <2>1. seqs = <<>>
             BY <1>12 DEF N
       <2>2. FlattenSeq(seqs) = <<>>
             BY <2>1 DEF FlattenSeq
       <2>3. QED
             BY <1>1, <1>12, <2>2
<1>13. CASE N # 0
       <2>1. N \in 1..N
             BY <1>1, <1>13
       <2>2. FlattenSeq(seqs) = flatten[N]
             BY <1>13 DEF FlattenSeq, flatten, N
       <2>3. Right(N)
             BY <1>11, <2>1
       <2>4. QED
             BY <1>1, <2>2, <2>3 DEF Right
<1>14. QED
       BY <1>12, <1>13

People == {Field[k].person : k \in Keys} \cup {None}
AlertKinds == {"unassigned", "returned_from_qa", "qa_phase_heavy", "excessive_pause_history",
               "status_churn", "assignee_overloaded"} \cup StallKinds \cup HygieneKinds
Alarm  == [kind : AlertKinds, severity : Severities, days : Int, person : People]

LEMMA AlarmsListed == Listed(Alarm)
BY DEF Listed, Alarm

\* At most one alert of a list is qa_phase_heavy; none is.
Single(s) == \A m, n \in DOMAIN s :
                s[m].kind = "qa_phase_heavy" /\ s[n].kind = "qa_phase_heavy" => m = n
Light(s)  == \A n \in DOMAIN s : s[n].kind # "qa_phase_heavy"

\* All are of one kind.
Only(s, kind) == \A n \in DOMAIN s : s[n].kind = kind

LEMMA Appended ==
    ASSUME NEW s \in Seq(Alarm), NEW t \in Seq(Alarm)
    PROVE  /\ s \o t \in Seq(Alarm)
           /\ \A n \in DOMAIN s : n \in DOMAIN (s \o t) /\ (s \o t)[n] = s[n]
           /\ \A n \in DOMAIN t : \E m \in DOMAIN (s \o t) : (s \o t)[m] = t[n]
           /\ Light(s) /\ Light(t) => Light(s \o t)
           /\ Light(s) /\ Single(t) => Single(s \o t)
           /\ Single(s) /\ Light(t) => Single(s \o t)
<1> DEFINE u == s \o t
<1>1. /\ Len(s) \in Nat /\ Len(t) \in Nat /\ DOMAIN s = 1..Len(s) /\ DOMAIN t = 1..Len(t)
      /\ u \in Seq(Alarm) /\ DOMAIN u = 1..(Len(s) + Len(t))
      /\ \A n \in 1..Len(s) : u[n] = s[n]
      /\ \A n \in (Len(s) + 1)..(Len(s) + Len(t)) : u[n] = t[n - Len(s)]
      OBVIOUS
<1> HIDE DEF u
<1>2. ASSUME NEW n \in DOMAIN t
      PROVE  \E m \in DOMAIN u : u[m] = t[n]
      <2> DEFINE m == Len(s) + n
      <2>1. m \in (Len(s) + 1)..(Len(s) + Len(t)) /\ m \in DOMAIN u /\ m - Len(s) = n
            BY <1>1
      <2> HIDE DEF m
      <2>2. QED
            BY <1>1, <2>1
<1>3. \A n \in DOMAIN s : n \in DOMAIN u /\ u[n] = s[n]
      BY <1>1
<1>4. ASSUME NEW n \in DOMAIN u
      PROVE  \/ n \in DOMAIN s /\ u[n] = s[n]
             \/ n \notin DOMAIN s /\ n - Len(s) \in DOMAIN t /\ u[n] = t[n - Len(s)]
      <2>1. CASE n \in 1..Len(s)
            BY <1>1, <2>1
      <2>2. CASE n \notin 1..Len(s)
            <3>1. n \in (Len(s) + 1)..(Len(s) + Len(t)) /\ n - Len(s) \in 1..Len(t)
                  BY <1>1, <2>2
            <3>2. QED
                  BY <1>1, <2>2, <3>1
      <2>3. QED
            BY <2>1, <2>2
<1>5. Light(s) /\ Light(t) => Light(u)
      BY <1>4 DEF Light
<1>6. Light(s) /\ Single(t) => Single(u)
      <2> SUFFICES ASSUME Light(s), Single(t), NEW m \in DOMAIN u, NEW n \in DOMAIN u,
                          u[m].kind = "qa_phase_heavy", u[n].kind = "qa_phase_heavy"
                   PROVE  m = n
          BY DEF Single
      <2>1. /\ m - Len(s) \in DOMAIN t /\ u[m] = t[m - Len(s)]
            /\ n - Len(s) \in DOMAIN t /\ u[n] = t[n - Len(s)]
            BY <1>4 DEF Light
      <2>2. m - Len(s) = n - Len(s)
            BY <2>1 DEF Single
      <2>3. m \in Int /\ n \in Int
            BY <1>1
      <2>4. QED
            BY <1>1, <2>2, <2>3
<1>7. Single(s) /\ Light(t) => Single(u)
      BY <1>4 DEF Light, Single
<1>8. QED
      BY <1>1, <1>2, <1>3, <1>5, <1>6, <1>7 DEF u

\* A list of one alert or none.
LEMMA NoAlert ==
    /\ <<>> \in Seq(Alarm) /\ Single(<<>>) /\ Light(<<>>)
    /\ \A n \in DOMAIN <<>> : FALSE
BY DEF Single, Light

LEMMA AlertIs ==
    ASSUME NEW i, i.key \in Keys, NEW kind \in AlertKinds, NEW severity \in Severities \cup {"none"},
           NEW days \in Int
    PROVE  /\ Alert(i, kind, severity, days) \in Seq(Alarm)
           /\ Single(Alert(i, kind, severity, days))
           /\ Only(Alert(i, kind, severity, days), kind)
           /\ kind # "qa_phase_heavy" => Light(Alert(i, kind, severity, days))
<1> DEFINE person == IF kind = "unassigned" THEN None ELSE Field[i.key].person
           a == [kind |-> kind, severity |-> severity, days |-> days, person |-> person]
           s == Alert(i, kind, severity, days)
<1>1. person \in People
      BY DEF People
<1>2. severity # "none" => a \in Alarm
      <2> HIDE DEF person
      <2>1. QED
            BY <1>1 DEF Alarm, Severities
<1>3. a.kind = kind
      OBVIOUS
<1>4. s = <<>> \/ (severity # "none" /\ s = <<a>>)
      BY DEF Alert
<1> HIDE DEF a, s
<1>5. CASE s = <<>>
      BY <1>5, NoAlert DEF s, Only
<1>6. CASE severity # "none" /\ s = <<a>>
      <2>1. DOMAIN s = {1} /\ s[1] = a /\ s \in Seq(Alarm)
            BY <1>2, <1>6
      <2>2. Single(s) /\ (kind # "qa_phase_heavy" => Light(s)) /\ \A n \in DOMAIN s : s[n].kind = kind
            BY <1>3, <2>1 DEF Single, Light
      <2>3. QED
            BY <2>1, <2>2 DEF s, Only
<1>7. QED
      BY <1>4, <1>5, <1>6

LEMMA PickedIs == \A days, at : PickSeverity(days, at) \in Severities \cup {"none"}
BY DEF PickSeverity, Severities

\* What is raised for an issue that is open.
LEMMA RaisedIs ==
    ASSUME NEW i, i.key \in Keys, i.age \in Nat
    PROVE  /\ Unassigned(i) \in Seq(Alarm) /\ Light(Unassigned(i))
           /\ Insights(i) \in Seq(Alarm) /\ Single(Insights(i))
           /\ Paused(i) \in Seq(Alarm) /\ \A n \in DOMAIN Paused(i) : Paused(i)[n].kind = "paused"
           /\ ~Halted(Field[i.key]) =>
                 /\ Stall(i) \in Seq(Alarm)
                 /\ \A n \in DOMAIN Stall(i) : Stall(i)[n].kind \in StallKinds
                 /\ Light(Stall(i))
<1> DEFINE f == Field[i.key]
<1>1. /\ ~Halted(f) => f.bucket \in {"in_test", "in_work", "not_started"}
      /\ f.due = None \/ f.due \in Int
      /\ \A figure \in {"dev", "test", "pause", "moves", "statuses"} : History(i, figure) \in Nat
      BY FieldAssumption DEF History, Halted
<1>2. Now \in Int /\ i.age \in Int /\ Part \in Nat
      BY RadarAnalyticsAssumption
<1>0. /\ "unassigned" \in AlertKinds \ {"qa_phase_heavy"}
      /\ "paused" \in AlertKinds \ {"qa_phase_heavy"}
      /\ "missing_start_date" \in AlertKinds \ {"qa_phase_heavy"}
      /\ "missing_story_points" \in AlertKinds \ {"qa_phase_heavy"}
      /\ "due_date_at_risk" \in AlertKinds \ {"qa_phase_heavy"}
      /\ "returned_from_qa" \in AlertKinds \ {"qa_phase_heavy"}
      /\ "excessive_pause_history" \in AlertKinds \ {"qa_phase_heavy"}
      /\ "status_churn" \in AlertKinds \ {"qa_phase_heavy"}
      /\ "qa_phase_heavy" \in AlertKinds
      BY DEF AlertKinds, StallKinds, HygieneKinds
<1>3. Unassigned(i) \in Seq(Alarm) /\ Light(Unassigned(i))
      <2> DEFINE severity == PickSeverity(i.age, <<5, 3, 1>>)
      <2>1. Unassigned(i) = <<>> \/ Unassigned(i) = Alert(i, "unassigned", severity, i.age)
            BY DEF Unassigned, AlertIf
      <2>2. severity \in Severities \cup {"none"}
            BY PickedIs
      <2> HIDE DEF severity
      <2>3. Alert(i, "unassigned", severity, i.age) \in Seq(Alarm) /\ Light(Alert(i, "unassigned", severity, i.age))
            BY <1>0, <1>2, <2>2, AlertIs
      <2>4. QED
            BY <2>1, <2>3, NoAlert
<1>4. Paused(i) \in Seq(Alarm) /\ \A n \in DOMAIN Paused(i) : Paused(i)[n].kind = "paused"
      <2> DEFINE severity == PickSeverity(i.age, <<5, 3, 2>>)
                 grade == IF Field[i.key].status # "paused" THEN "medium"
                          ELSE IF severity = "none" THEN "low" ELSE severity
      <2>1. grade \in Severities \cup {"none"}
            BY PickedIs DEF Severities
      <2>2. Paused(i) = Alert(i, "paused", grade, i.age)
            BY DEF Paused
      <2> HIDE DEF grade
      <2>3. Alert(i, "paused", grade, i.age) \in Seq(Alarm) /\ Only(Alert(i, "paused", grade, i.age), "paused")
            BY <1>0, <1>2, <2>1, AlertIs
      <2>4. QED
            BY <2>2, <2>3 DEF Only
<1>5. ASSUME ~Halted(f)
      PROVE  /\ Stall(i) \in Seq(Alarm) /\ Light(Stall(i))
             /\ \A n \in DOMAIN Stall(i) : Stall(i)[n].kind \in StallKinds
      <2> DEFINE profile == StallProfile(f)
                 severity == PickSeverity(i.age, profile.at)
      <2>1. BucketProfile(f.bucket).kind \in {"stuck_in_test", "stuck_in_dev", "stalled"}
            <3> DEFINE b == f.bucket
            <3>1. b \in {"in_test", "in_work", "not_started"}
                  BY <1>1, <1>5
            <3> HIDE DEF b
            <3>2. QED
                  BY <3>1 DEF BucketProfile, b
      <2>2. profile.kind \in StallKinds /\ profile.kind \in AlertKinds /\ profile.kind # "qa_phase_heavy"
            <3> DEFINE st == f.status
                       other == BucketProfile(f.bucket)
            <3>1. other.kind \in {"stuck_in_test", "stuck_in_dev", "stalled"}
                  BY <2>1
            <3>2. profile.kind = CASE st = "testing"     -> "stuck_in_test"
                                   [] st = "to test"     -> "waiting_for_test"
                                   [] st = "to release"  -> "stuck_before_release"
                                   [] st = "review"      -> "stuck_in_review"
                                   [] st = "in progress" -> "stuck_in_dev"
                                   [] st = "backlog"     -> "stalled"
                                   [] OTHER              -> other.kind
                  BY DEF StallProfile
            <3> HIDE DEF profile, other, st
            <3>3. profile.kind \in {"stuck_in_test", "waiting_for_test", "stuck_before_release",
                                    "stuck_in_review", "stuck_in_dev", "stalled"}
                  BY <3>1, <3>2
            <3>4. QED
                  BY <3>3 DEF StallKinds, AlertKinds
      <2>3. Stall(i) = Alert(i, profile.kind, severity, i.age)
            BY DEF Stall
      <2>4. severity \in Severities \cup {"none"}
            BY PickedIs
      <2> HIDE DEF profile, severity
      <2>5. Stall(i) \in Seq(Alarm) /\ Light(Stall(i)) /\ Only(Stall(i), profile.kind)
            BY <1>2, <2>2, <2>3, <2>4, AlertIs
      <2>6. QED
            BY <2>2, <2>5 DEF Only
<1>6. Insights(i) \in Seq(Alarm) /\ Single(Insights(i))
      <2> DEFINE test == History(i, "test")
                 dev == History(i, "dev")
                 pause == History(i, "pause")
                 p1 == AlertIf(f.status \in {"in progress", "in development"} /\ ~f.started /\ i.age >= 3 * Part,
                               i, "missing_start_date", PickSeverity(i.age, <<14, 7, 3>>), i.age)
                 p2 == AlertIf(Active(f) /\ ~f.points /\ i.age >= 3 * Part, i, "missing_story_points", "low", i.age)
                 p3 == DueDateRisk(i)
                 p4 == AlertIf(f.bucket = "in_work" /\ test >= 2 * Part, i, "returned_from_qa",
                               PickSeverity(test, <<10, 5, 2>>), test)
                 p5 == AlertIf(f.bucket = "in_test" /\ test >= 5 * Part /\ dev > 0 /\ 10 * test > 13 * dev,
                               i, "qa_phase_heavy", PickSeverity(test, <<14, 8, 5>>), test)
                 p6 == AlertIf(pause >= 7 * Part, i, "excessive_pause_history", PickSeverity(pause, <<21, 14, 7>>), pause)
                 p7 == Churn(i)
      <2>1. Insights(i) = p1 \o p2 \o p3 \o p4 \o p5 \o p6 \o p7
            BY DEF Insights
      <2>2. test \in Int /\ pause \in Int
            BY <1>1
      <2>3. p1 \in Seq(Alarm) /\ Light(p1)
            <3> DEFINE severity == PickSeverity(i.age, <<14, 7, 3>>)
            <3>1. p1 = <<>> \/ p1 = Alert(i, "missing_start_date", severity, i.age)
                  BY DEF AlertIf
            <3>2. severity \in Severities \cup {"none"}
                  BY PickedIs DEF Severities
            <3> HIDE DEF severity, p1
            <3>3. Alert(i, "missing_start_date", severity, i.age) \in Seq(Alarm) /\ Light(Alert(i, "missing_start_date", severity, i.age))
                  BY <1>0, <1>2, <3>2, AlertIs
            <3>4. QED
                  BY <3>1, <3>3, NoAlert
      <2>4. p2 \in Seq(Alarm) /\ Light(p2)
            <3> DEFINE severity == "low"
            <3>1. p2 = <<>> \/ p2 = Alert(i, "missing_story_points", severity, i.age)
                  BY DEF AlertIf
            <3>2. severity \in Severities \cup {"none"}
                  BY PickedIs DEF Severities
            <3> HIDE DEF severity, p2
            <3>3. Alert(i, "missing_story_points", severity, i.age) \in Seq(Alarm) /\ Light(Alert(i, "missing_story_points", severity, i.age))
                  BY <1>0, <1>2, <3>2, AlertIs
            <3>4. QED
                  BY <3>1, <3>3, NoAlert
      <2>5. p3 \in Seq(Alarm) /\ Light(p3)
            <3> DEFINE left == f.due - Now
            <3>1. CASE f.due = None
                  <4>1. p3 = <<>>
                        BY <3>1 DEF DueDateRisk
                  <4>2. QED
                        BY <4>1 DEF Light
            <3>2. CASE f.due # None
                  <4> DEFINE past == -left * Part
                             ahead == left * Part
                  <4>1. left \in Int /\ past \in Int /\ ahead \in Int
                        <5>1. left \in Int
                              BY <1>1, <1>2, <3>2
                        <5>2. QED
                              BY <1>2, <5>1
                  <4> DEFINE late == IF left <= -3 THEN "high" ELSE "medium"
                             soon == IF left <= 3 THEN "medium" ELSE "low"
                  <4>2. \/ p3 = <<>> \/ p3 = Alert(i, "due_date_at_risk", late, past)
                        \/ p3 = Alert(i, "due_date_at_risk", soon, ahead)
                        BY <3>2 DEF DueDateRisk, AlertIf
                  <4>3. late \in Severities \cup {"none"} /\ soon \in Severities \cup {"none"}
                        BY DEF Severities
                  <4> HIDE DEF left, late, soon, p3, past, ahead
                  <4>4. LET a == Alert(i, "due_date_at_risk", late, past)
                        IN  a \in Seq(Alarm) /\ Light(a)
                        BY <1>0, <4>1, <4>3, AlertIs
                  <4>5. LET a == Alert(i, "due_date_at_risk", soon, ahead)
                        IN  a \in Seq(Alarm) /\ Light(a)
                        BY <1>0, <4>1, <4>3, AlertIs
                  <4>6. QED
                        BY <4>2, <4>4, <4>5, NoAlert
            <3>3. QED
                  BY <3>1, <3>2
      <2>6. p4 \in Seq(Alarm) /\ Light(p4)
            <3> DEFINE severity == PickSeverity(test, <<10, 5, 2>>)
            <3>1. p4 = <<>> \/ p4 = Alert(i, "returned_from_qa", severity, test)
                  BY DEF AlertIf
            <3>2. severity \in Severities \cup {"none"}
                  BY PickedIs DEF Severities
            <3> HIDE DEF severity, p4
            <3>3. Alert(i, "returned_from_qa", severity, test) \in Seq(Alarm) /\ Light(Alert(i, "returned_from_qa", severity, test))
                  BY <1>0, <2>2, <3>2, AlertIs
            <3>4. QED
                  BY <3>1, <3>3, NoAlert
      <2>7. p5 \in Seq(Alarm) /\ Single(p5)
            <3> DEFINE severity == PickSeverity(test, <<14, 8, 5>>)
            <3>1. p5 = <<>> \/ p5 = Alert(i, "qa_phase_heavy", severity, test)
                  BY DEF AlertIf
            <3>2. severity \in Severities \cup {"none"}
                  BY PickedIs DEF Severities
            <3> HIDE DEF severity, p5
            <3>3. Alert(i, "qa_phase_heavy", severity, test) \in Seq(Alarm) /\ Single(Alert(i, "qa_phase_heavy", severity, test))
                  BY <1>0, <2>2, <3>2, AlertIs
            <3>4. QED
                  BY <3>1, <3>3, NoAlert
      <2>8. p6 \in Seq(Alarm) /\ Light(p6)
            <3> DEFINE severity == PickSeverity(pause, <<21, 14, 7>>)
            <3>1. p6 = <<>> \/ p6 = Alert(i, "excessive_pause_history", severity, pause)
                  BY DEF AlertIf
            <3>2. severity \in Severities \cup {"none"}
                  BY PickedIs DEF Severities
            <3> HIDE DEF severity, p6
            <3>3. Alert(i, "excessive_pause_history", severity, pause) \in Seq(Alarm) /\ Light(Alert(i, "excessive_pause_history", severity, pause))
                  BY <1>0, <2>2, <3>2, AlertIs
            <3>4. QED
                  BY <3>1, <3>3, NoAlert
      <2>9. p7 \in Seq(Alarm) /\ Light(p7)
            <3> DEFINE moves == History(i, "moves")
                       picked == PickSeverity(Most(i.age, moves * Part), <<20, 12, 8>>)
                       severity == IF picked # "none" /\ moves < 10 THEN "low" ELSE picked
                       days == moves * Part
            <3>1. moves * Part \in Int
                  BY <1>1, <1>2
            <3>2. severity \in Severities \cup {"none"}
                  BY PickedIs DEF Severities
            <3>3. p7 = <<>> \/ p7 = Alert(i, "status_churn", severity, days)
                  BY DEF Churn, AlertIf
            <3> HIDE DEF days, severity, p7
            <3>4. Alert(i, "status_churn", severity, days) \in Seq(Alarm) /\ Light(Alert(i, "status_churn", severity, days))
                  BY <1>0, <3>1, <3>2, AlertIs DEF days
            <3>5. QED
                  BY <3>3, <3>4, NoAlert
      <2> HIDE DEF p1, p2, p3, p4, p5, p6, p7
      <2>10. p1 \o p2 \in Seq(Alarm) /\ Light(p1 \o p2)
             BY <2>3, <2>4, Appended
      <2>11. p1 \o p2 \o p3 \in Seq(Alarm) /\ Light(p1 \o p2 \o p3)
             BY <2>5, <2>10, Appended
      <2>12. p1 \o p2 \o p3 \o p4 \in Seq(Alarm) /\ Light(p1 \o p2 \o p3 \o p4)
             BY <2>6, <2>11, Appended
      <2>13. p1 \o p2 \o p3 \o p4 \o p5 \in Seq(Alarm) /\ Single(p1 \o p2 \o p3 \o p4 \o p5)
             BY <2>7, <2>12, Appended
      <2>14. p1 \o p2 \o p3 \o p4 \o p5 \o p6 \in Seq(Alarm) /\ Single(p1 \o p2 \o p3 \o p4 \o p5 \o p6)
             BY <2>8, <2>13, Appended
      <2>15. QED
             BY <2>1, <2>9, <2>14, Appended
<1>7. QED
      BY <1>3, <1>4, <1>5, <1>6

\* What stays however many other alerts there are.
Survives(a) ==
    /\ a.kind \notin HygieneKinds \cup {"qa_phase_heavy"}
    /\ ~(a.kind = "status_churn" /\ a.severity = "low")

LEMMA SurvivorsStay == \A a, kinds : Survives(a) => Stays(a, kinds)
BY DEF Survives, Stays

\* The alerts that speak of a stall.
Stalls(i) == IF Halted(Field[i.key]) THEN Paused(i) ELSE Stall(i)

\* Of an issue that is stalled something is left that is as bad and stays.
LEMMA IssueKeeps ==
    ASSUME NEW i, i.key \in Keys, i.age \in Nat
    PROVE  /\ IssueAlerts(i) \in Seq(Alarm)
           /\ ~i.ended => \A k \in DOMAIN Stalls(i) :
                 \E r \in DOMAIN IssueAlerts(i) :
                    Survives(IssueAlerts(i)[r]) /\ Badness(IssueAlerts(i)[r]) <= Badness(Stalls(i)[k])
<1>1. /\ Unassigned(i) \in Seq(Alarm) /\ Light(Unassigned(i))
      /\ Insights(i) \in Seq(Alarm) /\ Single(Insights(i))
      /\ Paused(i) \in Seq(Alarm) /\ \A n \in DOMAIN Paused(i) : Paused(i)[n].kind = "paused"
      BY RaisedIs
<1>2. \A a \in Alarm : Badness(a) \in Int
      BY Ranked DEF Alarm, Badness
<1>3. \A a : a.kind \in StallKinds => Survives(a)
      BY DEF Survives, StallKinds, HygieneKinds
<1>4. CASE i.ended
      BY <1>4 DEF IssueAlerts
<1>5. CASE ~i.ended /\ Halted(Field[i.key])
      <2>1. IssueAlerts(i) = Paused(i) /\ Stalls(i) = Paused(i)
            BY <1>5 DEF IssueAlerts, Stalls
      <2>2. ASSUME NEW k \in DOMAIN Paused(i)
            PROVE  Survives(Paused(i)[k]) /\ Badness(Paused(i)[k]) <= Badness(Paused(i)[k])
            <3>1. Paused(i)[k] \in Alarm /\ Paused(i)[k].kind = "paused"
                  BY <1>1
            <3>2. "paused" \in StallKinds
                  BY DEF StallKinds
            <3>3. Badness(Paused(i)[k]) \in Int
                  BY <1>2, <3>1
            <3>4. QED
                  BY <1>3, <3>1, <3>2, <3>3
      <2>3. QED
            BY <1>1, <2>1, <2>2
<1>6. CASE ~i.ended /\ ~Halted(Field[i.key])
      <2> DEFINE u == Unassigned(i)
                 s == Stall(i)
                 t == Insights(i)
                 all == u \o s \o t
                 kept == Dedupe(all)
      <2>1. IssueAlerts(i) = kept /\ Stalls(i) = s
            BY <1>6 DEF IssueAlerts, Stalls
      <2>2. s \in Seq(Alarm) /\ Light(s) /\ \A n \in DOMAIN s : s[n].kind \in StallKinds
            BY <1>6, RaisedIs
      <2> HIDE DEF u, s, t
      <2>3. /\ u \o s \in Seq(Alarm) /\ Light(u \o s)
            /\ \A n \in DOMAIN s : \E m \in DOMAIN (u \o s) : (u \o s)[m] = s[n]
            BY <1>1, <2>2, Appended DEF u
      <2>4. /\ all \in Seq(Alarm) /\ Single(all)
            /\ \A n \in DOMAIN (u \o s) : n \in DOMAIN all /\ all[n] = (u \o s)[n]
            BY <1>1, <2>3, Appended DEF t
      <2> HIDE DEF all
      <2>5. /\ kept \in Seq(Alarm)
            /\ \A n \in Kept(all) :
                 \/ \E r \in DOMAIN kept : kept[r] = all[n]
                 \/ \E p, q \in Kept(all) :
                       /\ p # q /\ DOMAIN kept = {1, 2}
                       /\ kept[1] = all[p] /\ kept[2] = all[q]
                       /\ Badness(all[p]) <= Badness(all[n])
                       /\ Badness(all[q]) <= Badness(all[n])
            BY <2>4, AlarmsListed, DedupeIs
      <2> HIDE DEF kept
      <2>6. ASSUME NEW k \in DOMAIN s
            PROVE  \E r \in DOMAIN kept : Survives(kept[r]) /\ Badness(kept[r]) <= Badness(s[k])
            <3>1. PICK n \in DOMAIN all : all[n] = s[k]
                  BY <2>3, <2>4
            <3> DEFINE kinds == {a.kind : a \in Range(all)}
            <3>2. all[n].kind \in StallKinds /\ all[n].kind \in kinds
                  BY <2>2, <3>1 DEF Range
            <3>3. n \in Kept(all)
                  <4>1. Survives(all[n])
                        BY <1>3, <3>2
                  <4>2. QED
                        BY <4>1, SurvivorsStay DEF Kept
            <3>4. ASSUME NEW p \in Kept(all), all[p].kind # "qa_phase_heavy"
                  PROVE  Survives(all[p])
                  <4>1. Stays(all[p], kinds) /\ kinds \cap StallKinds # {}
                        BY <3>2 DEF Kept
                  <4> HIDE DEF kinds
                  <4>2. QED
                        BY <3>4, <4>1 DEF Stays, Survives
            <3> HIDE DEF kinds
            <3>5. CASE \E r \in DOMAIN kept : kept[r] = all[n]
                  <4>1. all[n] \in Alarm
                        BY <2>4
                  <4>2. QED
                        BY <1>2, <1>3, <3>1, <3>2, <3>5, <4>1
            <3>6. CASE \E p, q \in Kept(all) :
                       /\ p # q /\ DOMAIN kept = {1, 2}
                       /\ kept[1] = all[p] /\ kept[2] = all[q]
                       /\ Badness(all[p]) <= Badness(all[n])
                       /\ Badness(all[q]) <= Badness(all[n])
                  <4>1. PICK p \in Kept(all), q \in Kept(all) :
                       /\ p # q /\ DOMAIN kept = {1, 2}
                       /\ kept[1] = all[p] /\ kept[2] = all[q]
                       /\ Badness(all[p]) <= Badness(all[n])
                       /\ Badness(all[q]) <= Badness(all[n])
                        BY <3>6
                  <4>2. p \in DOMAIN all /\ q \in DOMAIN all
                        BY DEF Kept
                  <4>3. all[p].kind # "qa_phase_heavy" \/ all[q].kind # "qa_phase_heavy"
                        BY <2>4, <4>1, <4>2 DEF Single
                  <4>4. Survives(all[p]) \/ Survives(all[q])
                        BY <3>4, <4>3
                  <4>5. QED
                        BY <3>1, <4>1, <4>4
            <3>7. QED
                  BY <2>5, <3>3, <3>5, <3>6
      <2>7. QED
            BY <1>6, <2>1, <2>5, <2>6
<1>7. QED
      BY <1>4, <1>5, <1>6

\* Those who have too many bad ones, as alerts of their own.
LEMMA OverloadedIs ==
    ASSUME NEW alerts \in Seq(Alarm)
    PROVE  Overloaded(alerts) \in Seq(Alarm)
<1> DEFINE Highs(p) == Cardinality({n \in DOMAIN alerts :
                          alerts[n].severity = "high" /\ alerts[n].person = p})
           people == {a.person : a \in Range(alerts)} \ {None}
           some == {p \in people : Highs(p) >= 3}
           busy == SetToSeq(some)
           Own(p) == [kind |-> "assignee_overloaded", days |-> 0, person |-> p,
                      severity |-> IF Highs(p) >= 4 THEN "high" ELSE "medium"]
<1>1. Overloaded(alerts) = [n \in DOMAIN busy |-> Own(busy[n])]
      BY DEF Overloaded
<1>2. some \in SUBSET People /\ some \in SUBSET {alerts[n].person : n \in DOMAIN alerts}
      <2> HIDE DEF Highs
      <2>1. ASSUME NEW p \in some
            PROVE  \E n \in DOMAIN alerts : p = alerts[n].person /\ p \in People
            <3>1. PICK a \in Range(alerts) : p = a.person
                  OBVIOUS
            <3>2. PICK n \in DOMAIN alerts : a = alerts[n]
                  BY DEF Range
            <3>3. a \in Alarm
                  BY <3>2
            <3>4. QED
                  BY <3>1, <3>2, <3>3 DEF Alarm
      <2> HIDE DEF some
      <2>2. QED
            BY <2>1
<1>3. IsFiniteSet(some)
      <2> DEFINE P == {alerts[n].person : n \in DOMAIN alerts}
                 f == [n \in DOMAIN alerts |-> alerts[n].person]
      <2>1. f \in Surjection(DOMAIN alerts, P)
            BY DEF Surjection
      <2>2. IsFiniteSet(DOMAIN alerts)
            <3>1. DOMAIN alerts = 1..Len(alerts) /\ Len(alerts) \in Nat
                  OBVIOUS
            <3>2. QED
                  BY <3>1, FS_Interval
      <2> HIDE DEF f, some
      <2>3. IsFiniteSet(P)
            BY <2>1, <2>2, FS_Surjection
      <2> HIDE DEF P
      <2>4. QED
            BY <1>2, <2>3, FS_Subset DEF P
<1> HIDE DEF some
<1>4. busy \in Seq(some)
      BY <1>3, InOrder
<1> HIDE DEF busy
<1>5. ASSUME NEW p \in People
      PROVE  Own(p) \in Alarm
      <2> DEFINE severity == IF Highs(p) >= 4 THEN "high" ELSE "medium"
      <2>1. severity \in Severities
            BY DEF Severities
      <2> HIDE DEF severity
      <2>2. [kind |-> "assignee_overloaded", days |-> 0, person |-> p, severity |-> severity] \in Alarm
            BY <2>1 DEF Alarm, AlertKinds
      <2>3. QED
            BY <2>2 DEF severity
<1> HIDE DEF Own
<1>6. Len(busy) \in Nat /\ DOMAIN busy = 1..Len(busy) /\ \A n \in DOMAIN busy : Own(busy[n]) \in Alarm
      BY <1>2, <1>4, <1>5
<1>7. QED
      BY <1>1, <1>6

\* What is shown first is as bad as any stall: the first of the radar's two is as bad
\* as what the issue kept, and that as the stall.
LEMMA ShownIs ==
    ASSUME NEW issues, IsFiniteSet(issues), \A i \in issues : i.key \in Keys /\ i.age \in Nat,
           NEW i \in issues, ~i.ended, NEW k \in DOMAIN Stalls(i)
    PROVE  /\ ProductAlerts(issues) \in Seq(Alarm) /\ 1 \in DOMAIN ProductAlerts(issues)
           /\ Badness(ProductAlerts(issues)[1]) <= Badness(Stalls(i)[k])
           /\ Stalls(i)[k] \in Alarm
<1> DEFINE list  == SetToSeq(issues)
           seqs == [n \in DOMAIN list |-> IssueAlerts(list[n])]
           found == FlattenSeq(seqs)
           all == found \o Overloaded(found)
           alerts == Dedupe(all)
<1>1. ProductAlerts(issues) = alerts
      BY DEF ProductAlerts
<1>2. list \in Seq(issues) /\ Range(list) = issues
      BY InOrder
<1> HIDE DEF list
<1>3. seqs \in Seq(Seq(Alarm)) /\ DOMAIN seqs = DOMAIN list
      <2>1. Len(list) \in Nat /\ DOMAIN list = 1..Len(list) /\ \A n \in DOMAIN list : list[n] \in issues
            BY <1>2
      <2>2. \A n \in DOMAIN list : IssueAlerts(list[n]) \in Seq(Alarm)
            BY <2>1, IssueKeeps
      <2>3. QED
            BY <2>1, <2>2
<1>4. PICK n \in DOMAIN list : list[n] = i
      BY <1>2 DEF Range
<1>5. seqs[n] = IssueAlerts(i) /\ n \in DOMAIN seqs
      BY <1>3, <1>4
<1> HIDE DEF seqs
<1>6. PICK r \in DOMAIN IssueAlerts(i) :
         Survives(IssueAlerts(i)[r]) /\ Badness(IssueAlerts(i)[r]) <= Badness(Stalls(i)[k])
      BY IssueKeeps
<1>7. /\ found \in Seq(Alarm)
      /\ \E m \in DOMAIN found : found[m] = IssueAlerts(i)[r]
      BY <1>3, <1>5, FlattenIs
<1> HIDE DEF found
<1>8. PICK m \in DOMAIN found : found[m] = IssueAlerts(i)[r]
      BY <1>7
<1>9. all \in Seq(Alarm) /\ m \in DOMAIN all /\ all[m] = found[m]
      BY <1>7, OverloadedIs, Appended
<1> HIDE DEF all
<1>10. m \in Kept(all)
       BY <1>6, <1>8, <1>9, SurvivorsStay DEF Kept
<1>11. /\ alerts \in Seq(Alarm) /\ 1 \in DOMAIN alerts /\ Badness(alerts[1]) <= Badness(all[m])
       BY <1>9, <1>10, AlarmsListed, DedupeIs
<1> HIDE DEF alerts
<1>12. Stalls(i)[k] \in Alarm
       <2>1. Stalls(i) \in Seq(Alarm)
             BY RaisedIs DEF Stalls
       <2>2. QED
             BY <2>1
<1>13. Badness(alerts[1]) <= Badness(Stalls(i)[k])
       <2>1. /\ Badness(alerts[1]) \in Int /\ Badness(all[m]) \in Int /\ Badness(Stalls(i)[k]) \in Int
             <3>1. \A a \in Alarm : Badness(a) \in Int
                   BY Ranked DEF Alarm, Badness
             <3>2. alerts[1] \in Alarm /\ all[m] \in Alarm
                   BY <1>9, <1>11
             <3>3. QED
                   BY <1>12, <3>1, <3>2
       <2>2. Badness(all[m]) <= Badness(Stalls(i)[k])
             BY <1>6, <1>8, <1>9
       <2>3. QED
             BY <1>11, <2>1, <2>2
<1>14. QED
       BY <1>1, <1>11, <1>12, <1>13

\* A high alert that is shown first is not overlooked.
LEMMA HealthIs ==
    ASSUME NEW issues, IsFiniteSet(issues), \A i \in issues : IsFiniteSet(i.links),
           ProductAlerts(issues) \in Seq(Alarm), 1 \in DOMAIN ProductAlerts(issues),
           ProductAlerts(issues)[1].severity = "high"
    PROVE  Health(issues) # "ok"
<1> DEFINE alerts == ProductAlerts(issues)
           bad == {n \in DOMAIN alerts : alerts[n].severity = "high"}
           medium == Cardinality({n \in DOMAIN alerts : alerts[n].severity = "medium"})
                     + Cardinality(SubtaskGaps(issues))
           blocked == BlockSignals(issues)
           high == Cardinality(bad) + Cardinality(blocked)
<1>1. Health(issues) = IF high >= 3 THEN "critical" ELSE IF high >= 1 \/ medium >= 5 THEN "attention" ELSE "ok"
      BY DEF Health
<1>2. Cardinality(bad) \in Nat /\ Cardinality(bad) # 0
      <2> HIDE DEF alerts
      <2>1. DOMAIN alerts = 1..Len(alerts) /\ Len(alerts) \in Nat
            BY DEF alerts
      <2>2. IsFiniteSet(DOMAIN alerts)
            BY <2>1, FS_Interval
      <2>3. IsFiniteSet(bad)
            BY <2>2, FS_Subset
      <2>4. 1 \in bad
            BY DEF alerts
      <2> HIDE DEF bad
      <2>5. QED
            BY <2>3, <2>4, FS_CardinalityType, FS_EmptySet
<1>3. Cardinality(blocked) \in Nat
      <2> DEFINE Of(i) == {[blocked |-> i.key, by |-> l] : l \in Waits(issues, i)}
                 open == Open(issues)
                 all == {Of(i) : i \in open}
      <2>1. blocked = UNION all
            BY DEF BlockSignals
      <2>2. IsFiniteSet(open) /\ \A i \in open : IsFiniteSet(i.links)
            BY FS_Subset DEF Open
      <2>3. ASSUME NEW i \in open
            PROVE  IsFiniteSet(Of(i))
            <3>1. IsFiniteSet(Waits(issues, i))
                  BY <2>2, FS_Subset DEF Waits
            <3> DEFINE waits == Waits(issues, i)
                       f == [l \in waits |-> [blocked |-> i.key, by |-> l]]
            <3>2. IsFiniteSet(DOMAIN f) /\ Of(i) = {f[l] : l \in DOMAIN f}
                  BY <3>1
            <3> HIDE DEF waits, f
            <3>3. QED
                  BY <3>2, FiniteRange
      <2> HIDE DEF Of, open, blocked
      <2>4. IsFiniteSet(all)
            <3> DEFINE f == [i \in open |-> Of(i)]
            <3>1. IsFiniteSet(DOMAIN f) /\ all = {f[i] : i \in DOMAIN f}
                  BY <2>2
            <3> HIDE DEF all, f
            <3>2. QED
                  BY <3>1, FiniteRange
      <2>5. \A S \in all : IsFiniteSet(S)
            BY <2>3
      <2> HIDE DEF all
      <2>6. IsFiniteSet(blocked)
            BY <2>1, <2>4, <2>5, FS_UNION
      <2>7. QED
            BY <2>6, FS_CardinalityType
<1> HIDE DEF bad, blocked
<1>4. high >= 1
      BY <1>2, <1>3
<1> HIDE DEF high, medium
<1>5. QED
      BY <1>1, <1>4

\* A stall is not lost among the other alerts, although each issue keeps two of its
\* alerts and the radar keeps two of those: what is shown first is as bad as the
\* worst stall of any issue that has not ended, and the radar is not called healthy while one is
\* high (_dedupe_issue_alerts, applied by _issue_alerts and by
\* collect_product_flow_alerts; _health_from_signals).
THEOREM StallsStayInSight == Spec => []StallsAreSeen
<1>1. ASSUME NEW issues, Sound(issues), NEW i \in issues, ~i.ended,
             NEW a \in Range(Stalls(i))
      PROVE  LET alerts == ProductAlerts(issues)
             IN  /\ alerts # <<>> /\ SeverityRank[alerts[1].severity] <= SeverityRank[a.severity]
                 /\ a.severity = "high" => Health(issues) # "ok"
      <2> DEFINE alerts == ProductAlerts(issues)
      <2>1. /\ IsFiniteSet(issues) /\ \A m \in issues : m.key \in Keys
            /\ \A m \in issues : IsFiniteSet(m.links)
            BY <1>1, SoundIssues
      <2>2. \A m \in issues : m.age \in Nat
            <3>1. \A age \in Ages : age \in Nat
                  BY RadarAssumption DEF Ages
            <3>2. QED
                  BY <1>1, <3>1, SoundIssues
      <2>3. PICK k \in DOMAIN Stalls(i) : a = Stalls(i)[k]
            BY DEF Range
      <2>4. /\ alerts \in Seq(Alarm) /\ 1 \in DOMAIN alerts
            /\ Badness(alerts[1]) <= Badness(a) /\ a \in Alarm
            BY <1>1, <2>1, <2>2, <2>3, ShownIs
      <2> HIDE DEF alerts
      <2>5. alerts # <<>> /\ SeverityRank[alerts[1].severity] <= SeverityRank[a.severity]
            BY <2>4 DEF Badness
      <2>6. ASSUME a.severity = "high"
            PROVE  Health(issues) # "ok"
            <3>1. alerts[1].severity \in Severities
                  <4>1. alerts[1] \in Alarm
                        BY <2>4
                  <4>2. QED
                        BY <4>1 DEF Alarm
            <3>2. SeverityRank[alerts[1].severity] = SeverityRank["high"]
                  BY <2>5, <2>6, <3>1, Ranked
            <3>3. "high" \in Severities
                  BY DEF Severities
            <3>4. alerts[1].severity = "high"
                  BY <3>1, <3>2, <3>3, Ranked
            <3>5. QED
                  BY <2>1, <2>4, <3>4, HealthIs DEF alerts
      <2>7. QED
            BY <2>5, <2>6 DEF alerts
<1>2. RadarInv => StallsAreSeen
      BY <1>1, ShownSound DEF StallsAreSeen, Stalls
<1>3. QED
      BY <1>2, RadarInductive, PTL

-----------------------------------------------------------------------------
(* The row of a session in the read model.                                  *)

\* Only a running service has handlers that wait for Redis and a worker, so
\* the snapshot a handler schedules meets a worker that will look again.
Served ==
    /\ PendingHasWorker
    /\ replies # {} => up
    /\ worker # "none" => up

LEMMA InitServed == SyncInit => Served
BY DEF SyncInit, Served, PendingHasWorker

\* Every step of the requests, the worker, the copying task and the service
\* keeps Served.
LEMMA NextServed == Served /\ [SyncNext]_syncVars => Served'
<1> SUFFICES ASSUME Served, [SyncNext]_syncVars
             PROVE  Served'
    OBVIOUS
<1> USE DEF Served, PendingHasWorker, scheduler, backfill, service
<1>1. CASE Write
      BY <1>1 DEF Write
<1>2. ASSUME NEW w \in 1..MaxWrites, Schedule(w)
      PROVE  Served'
      \* w is in replies, hence the service is up.
  <2>1. up
        BY <1>2 DEF Schedule
  <2>2. worker' # "none"
        BY <1>2 DEF Schedule
  <2>3. QED
        BY <1>2, <2>1, <2>2 DEF Schedule
<1>3. CASE SoftDelete
      BY <1>3 DEF SoftDelete
<1>4. CASE Take
      BY <1>4 DEF Take
<1>5. CASE Sync
      BY <1>5 DEF Sync
<1>6. CASE SyncFails
      BY <1>6 DEF SyncFails
<1>7. CASE Copier
      BY <1>7 DEF Copier, CopyRead, CopyUpsert, CopyFails
<1>8. CASE Stop
      BY <1>8 DEF Stop
<1>9. CASE StartAgain
      BY <1>9 DEF StartAgain
<1>10. CASE UNCHANGED syncVars
      BY <1>10 DEF syncVars
<1>11. QED
      BY <1>1, <1>2, <1>3, <1>4, <1>5, <1>6, <1>7, <1>8, <1>9, <1>10
      DEF SyncNext, Requests, Worker, Service

\* A waiting snapshot always has a worker (CmsSyncScheduler._run): the worker
\* looks and gives up its slot in one step of the event loop.
THEOREM PendingIsServed == SyncSpec => []PendingHasWorker
<1>1. Served => PendingHasWorker
      BY DEF Served
<1>2. QED
      BY InitServed, NextServed, <1>1, PTL DEF SyncSpec

\* No step changes the row of a deleted session or takes the deletion back.
LEMMA StepLeavesDeleted == [SyncNext]_syncVars => (deleted => deleted' /\ row' = row)
<1> SUFFICES ASSUME [SyncNext]_syncVars, deleted
             PROVE  deleted' /\ row' = row
    OBVIOUS
<1> USE DEF scheduler, backfill, service
<1>1. CASE Requests
      BY <1>1 DEF Requests, Write, SoftDelete, Schedule
<1>2. CASE Worker
      BY <1>2 DEF Worker, Take, Sync, SyncFails, Upsert
<1>3. CASE Copier
      BY <1>3 DEF Copier, CopyRead, CopyUpsert, CopyFails, Upsert
<1>4. CASE Service
      BY <1>4 DEF Service, Stop, StartAgain, Upsert
<1>5. CASE UNCHANGED syncVars
      BY <1>5 DEF syncVars
<1>6. QED
      BY <1>1, <1>2, <1>3, <1>4, <1>5 DEF SyncNext

\* However late its upsert arrives, no snapshot revives or changes the row of
\* a session deleted in the CMS (sync_session's WHERE deleted_at IS NULL).
THEOREM DeletedStaysFrozen == SyncSpec => DeletedRowFrozen
<1>1. [SyncNext]_syncVars => [deleted => deleted' /\ row' = row]_syncVars
      BY StepLeavesDeleted
<1>2. QED
      BY <1>1, PTL DEF SyncSpec, DeletedRowFrozen

-----------------------------------------------------------------------------
(* The deletion of a session and its tokens.                                *)

\* While the purge scans, the condemned tokens that are still valid are among
\* those its SCAN will return.  A token minted meanwhile was never minted
\* before, so it is not among the condemned.
Scanned ==
    /\ valid \subseteq minted
    /\ condemned \subseteq minted
    /\ deletion = "purge" => valid \cap condemned \subseteq unscanned
    /\ TokensEndWithSession

LEMMA InitScanned == RoomInit => Scanned
BY DEF RoomInit, Scanned, TokensEndWithSession

\* The requests only look tokens up.
LEMMA HandlersKeepScanned == Scanned /\ Handlers => Scanned'
<1> SUFFICES ASSUME Scanned, Handlers
             PROVE  UNCHANGED <<invites, deleting>>
    BY DEF Scanned, TokensEndWithSession, invites, deleting
<1>1. ASSUME ManagerWrites \/ CreateEmpty \/ CmsLooks \/ CmsWrites \/ CmsCloses
      PROVE  UNCHANGED <<invites, deleting>>
      BY <1>1 DEF ManagerWrites, CreateEmpty, CmsLooks, CmsWrites, CmsCloses
<1>2. ASSUME NEW t \in Tokens, Resolve(t) \/ Vote(t) \/ JoinRoom(t)
      PROVE  UNCHANGED <<invites, deleting>>
      BY <1>2 DEF Resolve, Vote, JoinRoom
<1>3. ASSUME NEW w \in 1..MaxStates, Publish(w) \/ PublishFails(w)
      PROVE  UNCHANGED <<invites, deleting>>
      BY <1>3 DEF Publish, PublishFails
<1>4. QED
      BY <1>1, <1>2, <1>3 DEF Handlers

LEMMA SocketsKeepScanned == Scanned /\ Sockets => Scanned'
<1> SUFFICES ASSUME Scanned, Sockets
             PROVE  UNCHANGED <<invites, deleting>>
    BY DEF Scanned, TokensEndWithSession, invites, deleting
<1>1. PICK s \in Screens :
          \/ Connect(s) \/ SendInitial(s) \/ Subscribe(s)
          \/ Forward(s) \/ ListenerFails(s) \/ Leave(s)
      BY DEF Sockets
<1>2. QED
      BY <1>1 DEF Connect, SendInitial, Subscribe, Forward, ListenerFails, Leave

\* Minting adds a token that is not condemned, revoking takes one away.
LEMMA InvitesKeepScanned == Scanned /\ Invites => Scanned'
<1> SUFFICES ASSUME Scanned, NEW t \in Tokens, Mint(t) \/ Revoke(t)
             PROVE  Scanned'
    BY DEF Invites
<1> USE DEF Scanned, TokensEndWithSession, deleting
<1>1. CASE Mint(t)
  <2>1. /\ t \notin condemned
        /\ valid' = valid \cup {t} /\ minted' = minted \cup {t}
        /\ condemned' = condemned /\ deletion' = deletion
        /\ unscanned \subseteq unscanned'
        BY <1>1 DEF Mint
  <2>2. valid' \cap condemned' = valid \cap condemned
        BY <2>1
  <2>3. QED
        BY <2>1, <2>2
<1>2. CASE Revoke(t)
      BY <1>2 DEF Revoke
<1>3. QED
      BY <1>1, <1>2

\* The purge ends without an error only when SCAN has returned everything.
LEMMA DeletionKeepsScanned == Scanned /\ Deletion => Scanned'
<1> SUFFICES ASSUME Scanned, Deletion
             PROVE  Scanned'
    OBVIOUS
<1> USE DEF Scanned, TokensEndWithSession, invites
<1>1. CASE DeleteRow
      BY <1>1 DEF DeleteRow
<1>2. CASE DropLive
      BY <1>2 DEF DropLive
<1>3. CASE PurgeEnds
      BY <1>3 DEF PurgeEnds
<1>4. CASE PurgeFails
      BY <1>4 DEF PurgeFails
<1>5. ASSUME NEW t \in Tokens, Purge(t)
      PROVE  Scanned'
      BY <1>5 DEF Purge
<1>6. QED
      BY <1>1, <1>2, <1>3, <1>4, <1>5 DEF Deletion

LEMMA RestartKeepsScanned == Scanned /\ RestartService => Scanned'
BY DEF Scanned, TokensEndWithSession, RestartService, invites

\* Scanned is an invariant: each group of steps keeps it.
THEOREM RoomInductive == RoomSpec => []Scanned
<1>1. Scanned /\ UNCHANGED roomVars => Scanned'
      BY DEF Scanned, TokensEndWithSession, roomVars, invites, deleting
<1>2. Scanned /\ [RoomNext]_roomVars => Scanned'
      BY <1>1, HandlersKeepScanned, SocketsKeepScanned, InvitesKeepScanned,
         DeletionKeepsScanned, RestartKeepsScanned DEF RoomNext
<1>3. QED
      BY InitScanned, <1>2, PTL DEF RoomSpec

\* Whatever is minted, revoked, resolved or restarted while the purge of
\* cms_delete_session scans, once it has ended without an error no token that
\* was there when it began is valid.
THEOREM TokensAreEnded == RoomSpec => []TokensEndWithSession
<1>1. Scanned => TokensEndWithSession
      BY DEF Scanned
<1>2. QED
      BY RoomInductive, <1>1, PTL
=============================================================================
