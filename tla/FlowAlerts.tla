----------------------------- MODULE FlowAlerts -----------------------------
(***************************************************************************)
(* The alerts of the product radar (app/domain/scope_flow_pace.py, where   *)
(* app/domain/product_radar.py takes them from): pure functions of the     *)
(* issues of a snapshot.                                                   *)
(*                                                                         *)
(* The fields of an issue that do not change here are in Field: the status *)
(* it has while it is open, as the class of names that the code treats     *)
(* alike, and the bucket a status of this name and category is put in; who *)
(* is shown with it, and whether it has an assignee, a start date and      *)
(* points; the day it is due or None; and, from its history, the parts of  *)
(* a day it spent in development, in testing and on pause, how often it    *)
(* changed its status and between how many.                                *)
(***************************************************************************)
EXTENDS RadarAnalytics, SequencesExt

CONSTANT Field

StallKinds   == {"stalled", "stuck_in_test", "stuck_in_dev", "stuck_before_release",
                 "waiting_for_test", "stuck_in_review", "paused"}
HygieneKinds == {"missing_start_date", "missing_story_points", "due_date_at_risk"}

BucketProfile(bucket) ==
    CASE bucket = "in_test"     -> [kind |-> "stuck_in_test", at |-> <<7, 5, 3>>]
      [] bucket = "in_work"     -> [kind |-> "stuck_in_dev",  at |-> <<10, 7, 5>>]
      [] bucket = "not_started" -> [kind |-> "stalled",       at |-> <<10, 7, 5>>]

\* How many days are high, medium and low: a name has its own, or those of its bucket.
StallProfile(f) ==
    CASE f.status = "testing"     -> [kind |-> "stuck_in_test",        at |-> <<7, 5, 3>>]
      [] f.status = "to test"     -> [kind |-> "waiting_for_test",     at |-> <<5, 3, 2>>]
      [] f.status = "to release"  -> [kind |-> "stuck_before_release", at |-> <<7, 5, 3>>]
      [] f.status = "review"      -> [kind |-> "stuck_in_review",      at |-> <<5, 3, 2>>]
      [] f.status = "in progress" -> [kind |-> "stuck_in_dev",         at |-> <<10, 7, 5>>]
      [] f.status = "backlog"     -> [kind |-> "stalled",              at |-> <<10, 7, 5>>]
      [] OTHER                    -> BucketProfile(f.bucket)

PickSeverity(days, at) ==
    IF days >= at[1] * Part THEN "high" ELSE IF days >= at[2] * Part THEN "medium"
    ELSE IF days >= at[3] * Part THEN "low" ELSE "none"

SeverityRank == [high |-> 0, medium |-> 1, low |-> 2]

\* No severity, no alert.
Alert(i, kind, severity, days) ==
    IF severity = "none" THEN <<>>
    ELSE <<[kind |-> kind, severity |-> severity, days |-> days,
            person |-> IF kind = "unassigned" THEN None ELSE Field[i.key].person]>>

AlertIf(holds, i, kind, severity, days) ==
    IF holds THEN Alert(i, kind, severity, days) ELSE <<>>

-----------------------------------------------------------------------------
(* What is raised for one issue.                                           *)

Active(f) == f.bucket \in {"in_work", "in_test"}

\* What the history says; it has not been fetched before the issue is enriched.
History(i, figure) == IF i.rich THEN Field[i.key][figure] ELSE 0

Unassigned(i) ==
    AlertIf(~Field[i.key].assigned /\ Active(Field[i.key]), i, "unassigned",
            PickSeverity(i.age, <<5, 3, 1>>), i.age)

Stall(i) ==
    LET profile == StallProfile(Field[i.key])
    IN  Alert(i, profile.kind, PickSeverity(i.age, profile.at), i.age)

Halted(f) == f.status = "paused" \/ f.bucket = "open_questions"

\* A bucket of questions without such a status is never worse than medium.
Paused(i) ==
    LET severity == PickSeverity(i.age, <<5, 3, 2>>)
    IN  Alert(i, "paused",
              IF Field[i.key].status # "paused" THEN "medium"
              ELSE IF severity = "none" THEN "low" ELSE severity, i.age)

DueDateRisk(i) ==
    LET left == Field[i.key].due - Now
    IN  IF Field[i.key].due = None THEN <<>>
        ELSE IF left < 0 THEN Alert(i, "due_date_at_risk", IF left <= -3 THEN "high" ELSE "medium", -left * Part)
        ELSE AlertIf(left <= 7, i, "due_date_at_risk", IF left <= 3 THEN "medium" ELSE "low", left * Part)

Churn(i) ==
    LET moves    == History(i, "moves")
        severity == PickSeverity(Most(i.age, moves * Part), <<20, 12, 8>>)
    IN  AlertIf(moves >= 8 \/ History(i, "statuses") >= 6, i, "status_churn",
                IF severity # "none" /\ moves < 10 THEN "low" ELSE severity, moves * Part)

\* _append_flow_insight_alerts
Insights(i) ==
    LET f     == Field[i.key]
        test  == History(i, "test")
        dev   == History(i, "dev")
        pause == History(i, "pause")
    IN  AlertIf(f.status \in {"in progress", "in development"} /\ ~f.started /\ i.age >= 3 * Part,
                i, "missing_start_date", PickSeverity(i.age, <<14, 7, 3>>), i.age)
        \o AlertIf(Active(f) /\ ~f.points /\ i.age >= 3 * Part, i, "missing_story_points", "low", i.age)
        \o DueDateRisk(i)
        \o AlertIf(f.bucket = "in_work" /\ test >= 2 * Part, i, "returned_from_qa",
                   PickSeverity(test, <<10, 5, 2>>), test)
        \o AlertIf(f.bucket = "in_test" /\ test >= 5 * Part /\ dev > 0 /\ 10 * test > 13 * dev,
                   i, "qa_phase_heavy", PickSeverity(test, <<14, 8, 5>>), test)
        \o AlertIf(pause >= 7 * Part, i, "excessive_pause_history", PickSeverity(pause, <<21, 14, 7>>), pause)
        \o Churn(i)

-----------------------------------------------------------------------------
(* What of it is shown.                                                    *)

\* Mutant: the longest comes first.
LongestFirst(a, b) == a.days > b.days

WorseThan(a, b) ==
    \/ SeverityRank[a.severity] < SeverityRank[b.severity]
    \/ a.severity = b.severity /\ a.days > b.days

\* Where something is stalled, what is merely missing is left out, and what
\* follows from its being stalled.
Stays(a, kinds) ==
    LET stalled == kinds \cap StallKinds # {}
    IN  /\ ~(stalled /\ a.kind \in HygieneKinds)
        /\ ~(a.kind = "qa_phase_heavy"
                /\ kinds \cap {"stuck_in_test", "stuck_before_release", "waiting_for_test"} # {})
        /\ ~(stalled /\ a.kind = "status_churn" /\ a.severity = "low")

Kept(alerts) ==
    LET kinds == {a.kind : a \in Range(alerts)}
    IN  {n \in DOMAIN alerts : Stays(alerts[n], kinds)}

\* The order of a stable sort, and the place of each in it.
Precedes(alerts, m, n) ==
    \/ WorseThan(alerts[m], alerts[n])
    \/ ~WorseThan(alerts[n], alerts[m]) /\ m < n

Place(alerts, n) == 1 + Cardinality({m \in Kept(alerts) : Precedes(alerts, m, n)})

\* _dedupe_issue_alerts: the two worst.
Dedupe(alerts) ==
    [r \in 1..Least(2, Cardinality(Kept(alerts))) |->
        alerts[CHOOSE n \in Kept(alerts) : Place(alerts, n) = r]]

\* _issue_alerts: here only the status says that an issue is done.
IssueAlerts(i) ==
    IF i.ended THEN <<>>
    ELSE IF Halted(Field[i.key]) THEN Paused(i)
    ELSE Dedupe(Unassigned(i) \o Stall(i) \o Insights(i))

\* Somebody who is shown with three high alerts or more.
Overloaded(alerts) ==
    LET Highs(p) == Cardinality({n \in DOMAIN alerts :
                        alerts[n].severity = "high" /\ alerts[n].person = p})
        people   == {a.person : a \in Range(alerts)} \ {None}
        busy     == SetToSeq({p \in people : Highs(p) >= 3})
    IN  [n \in DOMAIN busy |-> [kind |-> "assignee_overloaded", days |-> 0, person |-> busy[n],
                                severity |-> IF Highs(busy[n]) >= 4 THEN "high" ELSE "medium"]]

\* collect_product_flow_alerts: all that was left of each issue is thinned out once more.
ProductAlerts(issues) ==
    LET list  == SetToSeq(issues)
        found == FlattenSeq([n \in DOMAIN list |-> IssueAlerts(list[n])])
    IN  Dedupe(found \o Overloaded(found))

\* _health_from_signals: the alerts, the teams that wait for each other and the subtasks
\* that nobody is at work on.
Health(issues) ==
    LET shown == ProductAlerts(issues)
        Of(severity) == Cardinality({n \in DOMAIN shown : shown[n].severity = severity})
        high   == Of("high") + Cardinality(BlockSignals(issues))
        medium == Of("medium") + Cardinality(SubtaskGaps(issues))
    IN  IF high >= 3 THEN "critical" ELSE IF high >= 1 \/ medium >= 5 THEN "attention" ELSE "ok"

=============================================================================
