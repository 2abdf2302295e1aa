------------------------------- MODULE Radar -------------------------------
(***************************************************************************)
(* The refresh of a product radar (app/domain/product_radar_refresh.py,    *)
(* services/voting_service/cms/radar.py, cms_store/product_radars.py).     *)
(*                                                                         *)
(* A refresh is a series of requests.  The first asks Jira for the issues  *)
(* of the radar's query, and for the ones closed recently, without their   *)
(* histories; each later one asks for the histories of the next few.  All  *)
(* that one request leaves for the next is in the snapshot it saves.  Two  *)
(* people may refresh the same radar, change its query or delete it, and   *)
(* issues are closed and opened again in Jira meanwhile; every request     *)
(* reads the radar, waits for Jira and overwrites the snapshot.            *)
(***************************************************************************)
EXTENDS FlowAlerts

CONSTANTS
    Keys, Epics, Team, EpicOf,           \* the issues of the project in Jira,
    LinksOf, SubtasksOf,                 \* to which others each belongs,
    Queries, Scope,                      \* which issues a query is about
    FirstQuery,                          \* the query the radar is created with
    DoneWindow,                          \* PRODUCT_RADAR_DONE_WINDOW_DAYS
    Sizes,                               \* how many histories a request asks for
    Initial,                             \* what Jira may say of them at first
    Clients,
    MaxClicks, MaxChanges, MaxEdits,     \* bounds: refreshes, changes in Jira, edits of the radar
    Moving, MaxMissed                    \* bounds: the issues that change, those Jira leaves out

ASSUME RadarAssumption ==
    /\ IsFiniteSet(Keys) /\ Sizes \subseteq Nat \ {0} /\ Epics \subseteq Keys /\ Moving \subseteq Keys
    /\ Team \in [Keys -> STRING]
    /\ LinksOf \in [Keys -> SUBSET [key : Keys, relation : STRING, team : STRING \cup {None}]]
    /\ \A k \in Keys : IsFiniteSet(LinksOf[k])
    /\ SubtasksOf \in [Keys -> SUBSET [key : STRING, active : BOOLEAN, done : BOOLEAN]]
    /\ Scope \in [Queries -> SUBSET Keys] /\ FirstQuery \in Queries
    /\ DoneWindow \in 0..Now
    /\ Initial \subseteq [Keys -> [resolved : 0..Now \cup {None}, ended : BOOLEAN,
                                   updated : 0..Now, age : Nat]]

\* An issue that has not ended is in one of four buckets (classify_scope_report_bucket).
ASSUME FieldAssumption ==
    \A k \in Keys :
        /\ Field[k].bucket \in {"in_test", "in_work", "not_started", "open_questions"}
        /\ Field[k].due = None \/ Field[k].due \in Int
        /\ \A figure \in {"dev", "test", "pause", "moves", "statuses"} : Field[k][figure] \in Nat

VARIABLES
    jira,     \* an issue |-> its resolution, whether it has ended, its last change, its age
    radar,    \* the row: its query and its snapshot; None once deleted
    client,   \* a person |-> where the request of theirs is
    clicks, changes, edits

vars == <<jira, radar, client, clicks, changes, edits>>

-----------------------------------------------------------------------------
(* Jira.                                                                   *)

\* normalize_radar_issue: an issue as it is fetched, with its links as they are now.  Who
\* is at work on a subtask is part of the history; one that is not in Keys does not change.
Fetched(k, rich) ==
    [key |-> k, team |-> Team[k], epic |-> EpicOf[k], isEpic |-> k \in Epics, rich |-> rich,
     resolved |-> jira[k].resolved, ended |-> jira[k].ended, updated |-> jira[k].updated,
     age |-> jira[k].age,
     links |-> {[key |-> l.key, relation |-> l.relation, team |-> l.team,
                 done |-> jira[l.key].ended] : l \in LinksOf[k]},
     subtasks |-> {[key |-> t.key, active |-> rich /\ t.active,
                    done |-> IF t.key \in Keys THEN jira[t.key].ended ELSE t.done] : t \in SubtasksOf[k]}]

Recent(k)  == jira[k].ended /\ jira[k].resolved # None /\ jira[k].resolved >= Now - DoneWindow
Answer(q)  == {Fetched(k, FALSE) : k \in {x \in Scope[q] : ~jira[x].ended \/ Recent(x)}}
Supplement == {Fetched(k, FALSE) : k \in {x \in Keys : Recent(x)}}

-----------------------------------------------------------------------------
(* Snapshots.                                                              *)

KeysOf(issues) == {i.key : i \in issues}

\* _merge_issues: what comes in takes the place of what is there.
Merged(issues, incoming) == {i \in issues : i.key \notin KeysOf(incoming)} \cup incoming

\* The keys in the order of the answers: those of the query, then the others.
KeyOrder(issues, found) ==
    SetToSeq(KeysOf(found)) \o SetToSeq(KeysOf(issues) \ KeysOf(found))

StartOf(jql, found, issues) ==
    [jql |-> jql, issues |-> issues, keys |-> KeyOrder(issues, found), next |-> 0,
     missed |-> {}, complete |-> issues = {}]

\* Mutant: the batch begins one issue late.
BatchLate(snap, size) ==
    {snap.keys[n] : n \in snap.next + 2 .. Least(snap.next + size, Len(snap.keys))}

Batch(snap, size) == {snap.keys[n] : n \in snap.next + 1 .. Least(snap.next + size, Len(snap.keys))}

\* Mutant: the place of the next batch is not moved.
AdvancedNot(next, size, total) == next

Advanced(next, size, total) == Least(next + size, total)

\* What Jira has sent takes the place of what was there; the place moves on by the whole
\* batch (missed, the keys asked for in vain, is not in the code).
Enriched(jql, snap, size, sent) ==
    LET next == Advanced(snap.next, size, Len(snap.keys))
    IN  [jql      |-> jql,
         issues   |-> Merged(snap.issues, {Fetched(k, TRUE) : k \in sent}),
         keys     |-> snap.keys,
         next     |-> next,
         missed   |-> snap.missed \cup (Batch(snap, size) \ sent),
         complete |-> next >= Len(snap.keys)]

-----------------------------------------------------------------------------
Idle == [pc |-> "idle"]

Init ==
    /\ jira \in Initial
    /\ radar = [jql |-> FirstQuery, snap |-> None]
    /\ client = [c \in Clients |-> Idle]
    /\ clicks = 0 /\ changes = 0 /\ edits = 0

\* The request goes on, or ends with an error; the person is where they began.
Goes(c, state) == client' = [client EXCEPT ![c] = state]
Ends(c)        == Goes(c, Idle) /\ UNCHANGED <<jira, radar, clicks, changes, edits>>

\* Somebody asks for a refresh, or for the next part of one that was left.
Click(c) ==
    /\ clicks < MaxClicks /\ client[c] = Idle
    /\ \E phase \in {"start", "partition"} : Goes(c, [pc |-> "ask", phase |-> phase])
    /\ clicks' = clicks + 1
    /\ UNCHANGED <<jira, radar, changes, edits>>

\* get_product_radar.  A part is asked of a snapshot that is not complete; all
\* else begins anew.
Fresh(c, snap) == client[c].phase = "start" \/ snap = None \/ snap.complete

Read(c) ==
    /\ client[c].pc = "ask" /\ radar # None
    /\ Goes(c, IF Fresh(c, radar.snap)
               THEN [pc |-> "main", jql |-> radar.jql]
               ELSE [pc |-> "batch", jql |-> radar.jql, snap |-> radar.snap])
    /\ UNCHANGED <<jira, radar, clicks, changes, edits>>

FetchMain(c) ==
    /\ client[c].pc = "main"
    /\ Goes(c, [pc |-> "done", jql |-> client[c].jql, found |-> Answer(client[c].jql)])
    /\ UNCHANGED <<jira, radar, clicks, changes, edits>>

\* _merge_done_supplement: Jira answers, or it does not and nobody is told.
FetchDone(c) ==
    /\ client[c].pc = "done"
    /\ \E closed \in {Supplement, {}} :
         Goes(c, [pc |-> "save", snap |-> StartOf(client[c].jql, client[c].found,
                                                  Merged(client[c].found, closed))])
    /\ UNCHANGED <<jira, radar, clicks, changes, edits>>

\* Jira may leave issues out that it no longer shows.
FetchBatch(c) ==
    /\ client[c].pc = "batch"
    /\ \E size \in Sizes : \E sent \in SUBSET Batch(client[c].snap, size) :
         /\ Cardinality(client[c].snap.missed \cup (Batch(client[c].snap, size) \ sent)) <= MaxMissed
         /\ Goes(c, [pc |-> "save", snap |-> Enriched(client[c].jql, client[c].snap, size, sent)])
    /\ UNCHANGED <<jira, radar, clicks, changes, edits>>

\* Jira does not answer: nothing is saved.
Fail(c) == client[c].pc \in {"main", "batch"} /\ Ends(c)

\* save_product_radar_snapshot; the person asks for parts until told it is complete.
Save(c) ==
    /\ client[c].pc = "save" /\ radar # None
    /\ radar' = [radar EXCEPT !.snap = client[c].snap]
    /\ Goes(c, IF client[c].snap.complete THEN Idle ELSE [pc |-> "ask", phase |-> "partition"])
    /\ UNCHANGED <<jira, clicks, changes, edits>>

\* The radar is gone when the request reads it or when it saves.
Gone(c) == client[c].pc \in {"ask", "save"} /\ radar = None /\ Ends(c)

\* cms_update_product_radar keeps the snapshot; cms_delete_product_radar.
SetJql ==
    /\ edits < MaxEdits /\ radar # None
    /\ \E q \in Queries \ {radar.jql} : radar' = [radar EXCEPT !.jql = q]
    /\ edits' = edits + 1
    /\ UNCHANGED <<jira, client, clicks, changes>>

Delete ==
    /\ edits < MaxEdits /\ radar # None
    /\ radar' = None /\ edits' = edits + 1
    /\ UNCHANGED <<jira, client, clicks, changes>>

\* An issue is closed in Jira, opened again or resolved: its status and its resolution
\* change, together or apart.
Change(k) ==
    /\ changes < MaxChanges
    /\ \E ended \in BOOLEAN : \E resolved \in {None, IF jira[k].resolved = None THEN Now ELSE jira[k].resolved} :
         /\ ended # jira[k].ended \/ resolved # jira[k].resolved
         /\ jira' = [jira EXCEPT ![k] = [resolved |-> resolved, ended |-> ended,
                                         updated |-> Now, age |-> 0]]
    /\ changes' = changes + 1
    /\ UNCHANGED <<radar, client, clicks, edits>>

Step(c) == Read(c) \/ FetchMain(c) \/ FetchDone(c) \/ FetchBatch(c) \/ Fail(c) \/ Save(c) \/ Gone(c)

Next ==
    \/ \E c \in Clients : Click(c) \/ Step(c)
    \/ SetJql \/ Delete
    \/ \E k \in Moving : Change(k)

\* A request that was sent is worked off: the server answers it, and the page
\* sends the next one.
Spec == Init /\ [][Next]_vars /\ \A c \in Clients : WF_vars(Step(c))

-----------------------------------------------------------------------------
(* Properties.                                                             *)

Snapshots == (IF radar # None /\ radar.snap # None THEN {radar.snap} ELSE {})

\* No issue is passed over: a radar that says its refresh is complete has asked Jira for
\* the history of every issue it shows, and at every moment of a refresh the issues that
\* are counted as enriched have theirs or Jira has not sent it, whoever else refreshes the
\* radar at the same time (refresh_product_radar_partition, _refresh_progress).
EnrichedAreAsked ==
    \A s \in Snapshots :
        /\ KeysOf(s.issues) = Range(s.keys)
        /\ s.complete <=> s.next = Len(s.keys)
        /\ \A n \in 1..s.next : Keyed(s.issues, s.keys[n]).rich \/ s.keys[n] \in s.missed

\* A refresh ends: two people who refresh one radar, each of whom overwrites the
\* place the other has reached, do not keep each other from its end.
RefreshEnds == \A c \in Clients : client[c].pc = "ask" ~> client[c] = Idle

\* The histogram of ages counts no open issue twice, and leaves out only issues whose age
\* is not a whole number of days: the ages of tests/test_product_radar_analytics.py, where
\* the counts add up to the issues, are whole.  An age of 3.5 days fits no bucket.
AgesCounted ==
    \A s \in Snapshots :
        LET counted == Total(Histogram(s.issues))
            whole   == {i \in Open(s.issues) : i.age % Part = 0}
        IN  Cardinality(whole) <= counted /\ counted <= Cardinality(Open(s.issues))

\* The bars of the closures and the list beside them, which is selected on its
\* own, show the same number of issues in each period.
TrendShowsDetails ==
    \A s \in Snapshots : \A p \in Periods :
        Total(Trend(s.issues, p)) = Cardinality(ClosureList(s.issues, p))

\* No figure goes by the copy of an issue where it has the issue itself, which may have been
\* fetched in another part: an issue that the snapshot shows as done keeps nobody waiting,
\* and one of the period counts in each parent and in each epic as what it is.  Of an issue
\* that is not of the period only the copy is looked at, which may say otherwise.
FigureIsRecord(issues, p) ==
    LET scoped == Scoped(issues, p)
    IN  /\ \A b \in BlocksIn(issues, p) : \A i \in issues : i.key = b.by.key => ~Done(i)
        /\ \A i \in {j \in scoped : ~j.isEpic} : \A r \in ParentRows(scoped, i) :
             \A m \in scoped : m.key = r.key => r.done = Done(m)
        /\ \A e \in EpicsOf(scoped) : \A r \in EpicRows(scoped, e) :
             \A m \in scoped : m.key = r.key => r.done = Done(m)

CopiesYield == \A s \in Snapshots : \A p \in Periods : FigureIsRecord(s.issues, p)

\* A stall is not lost among the other alerts, although each issue keeps two of its
\* alerts and the radar keeps two of those: what is shown first is as bad as the
\* worst stall of any issue that has not ended, and the radar is not called healthy while one is high
\* (_dedupe_issue_alerts, applied twice; _health_from_signals).
StallsAreSeen ==
    \A s \in Snapshots :
        LET shown  == ProductAlerts(s.issues)
            health == Health(s.issues)
        IN  \A i \in {j \in s.issues : ~j.ended} :
              \A a \in Range(IF Halted(Field[i.key]) THEN Paused(i) ELSE Stall(i)) :
                  /\ shown # <<>> /\ SeverityRank[shown[1].severity] <= SeverityRank[a.severity]
                  /\ a.severity = "high" => health # "ok"

=============================================================================
