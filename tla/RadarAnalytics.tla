--------------------------- MODULE RadarAnalytics ---------------------------
(***************************************************************************)
(* The figures of the product radar (app/domain/product_radar_analytics.py *)
(* and the signals of app/domain/product_radar.py): pure functions of the  *)
(* issues of a snapshot.                                                   *)
(*                                                                         *)
(* An issue is a record: its team, the epic it names, whether it is an     *)
(* epic, the day it was resolved or None, whether it has ended, which is   *)
(* to say that its status is one of those that mean done, the day it was   *)
(* last changed, how long it has been in its status, its subtasks and its  *)
(* links to other issues, each with a copy of whether that one had ended   *)
(* when this one was fetched, and whether its history was fetched (rich).  *)
(* Jira sets status and resolution apart from each other: either may be    *)
(* there without the other.  Days are numbered, months have MonthDays days *)
(* and ages, which are floats in the code, are in parts of a day.          *)
(***************************************************************************)
EXTENDS Integers, FiniteSets, FiniteSetsExt, Sequences

CONSTANTS
    Now,       \* the day the figures are for
    MonthDays,
    Part,      \* how many parts of a day an age may have
    None

ASSUME RadarAnalyticsAssumption ==
    /\ MonthDays \in Nat \ {0} /\ Part \in Nat \ {0} /\ Now \in Nat /\ Now >= 3 * MonthDays

Periods == {"month", "quarter", "all"}

\* _is_done_issue: what is resolved is done, whatever its status.  A copy in a link
\* or among the subtasks has the status only (_is_subtask_done).
Done(i) == i.ended \/ i.resolved # None

\* The day of its closure: where it has ended without a resolution, that of its last
\* change.
ClosedOn(i) == IF i.resolved # None THEN i.resolved ELSE i.updated

Open(issues) == {i \in issues : ~Done(i)}

\* The record of an issue in a set of issues, by its key.
Keyed(issues, k) == CHOOSE i \in issues : i.key = k
Holds(issues, k) == \E i \in issues : i.key = k

-----------------------------------------------------------------------------
(* What belongs to a period.                                               *)

PeriodStart(p) == CASE p = "month" -> Now - MonthDays [] p = "quarter" -> Now - 3 * MonthDays
                    [] p = "all" -> 0

\* Nothing of an issue is later than its last change, and the history of one that has
\* not ended reaches to the present.
Touched(i, p) == p = "all" \/ i.updated >= PeriodStart(p) \/ (i.rich /\ ~i.ended)

Scoped(issues, p) == {i \in issues : Touched(i, p)}

-----------------------------------------------------------------------------
(* Ages: short buckets that are fixed, long ones cut from the data.        *)

LongAge == 30 * Part
NoEnd   == 10000 * Part

ShortBuckets == {<<0, 3 * Part>>, <<4 * Part, 7 * Part>>, <<8 * Part, 14 * Part>>, <<15 * Part, 30 * Part>>}

\* The smallest readable step that is not below the quotient of s and c.
NiceStep(s, c) == Min({n \in {1, 2, 5, 10, 20, 50, 100, 200, 500, 1000, 2000} : s <= n * c})

CeilDiv(s, c) == (s + c - 1) \div c
Least(a, b)   == IF a <= b THEN a ELSE b
Most(a, b)    == IF a >= b THEN a ELSE b

MaxLongBuckets(spread) == IF spread > 120 * Part THEN 7 ELSE IF spread > 60 * Part THEN 5 ELSE 4

LongBucketCount(low, high, spread) ==
    Least(MaxLongBuckets(spread), Most(3, CeilDiv(high - low + 1, 20)))

\* Mutant: the next bucket begins a day after the day the last one is over.
LongStartLate(low, step, n) == low + n * (step + 1)

\* Where the n-th long bucket begins, and the bucket; the last has no end.
LongStart(low, step, n) == low + n * step

\* _subdivide_long_age_range: between the whole days around the ages, but not below 31.
LongBuckets(least, greatest) ==
    LET low   == Most(31, least \div Part)
        high  == CeilDiv(greatest, Part)
        count == LongBucketCount(low, high, greatest - least)
        step  == NiceStep(high - low + 1, count)
        last  == IF high <= low THEN 0 ELSE Least(count - 1, (high - low) \div step)
    IN  {<<LongStart(low, step, n) * Part,
           IF n = last THEN NoEnd ELSE (low + (n + 1) * step - 1) * Part>> : n \in 0..last}

Within(age, bucket) == bucket[1] <= age /\ age <= bucket[2]

\* Where no bucket fits any age there is one for the least age alone.
AgeBuckets(ages) ==
    LET long    == {a \in ages : a > LongAge}
        buckets == {b \in ShortBuckets : \E a \in ages : Within(a, b)}
                   \cup IF long = {} THEN {}
                        ELSE IF Cardinality(long) = 1 THEN {<<Min(long), NoEnd>>}
                        ELSE LongBuckets(Min(long), Max(long))
    IN  IF buckets # {} \/ ages = {} THEN buckets ELSE {<<Min(ages), Min(ages)>>}

\* build_status_age_histogram: an open issue is counted in the first bucket that
\* fits; those that count nothing are not shown.
Histogram(issues) ==
    LET open    == Open(issues)
        buckets == AgeBuckets({i.age : i \in open})
        First(i) == {b \in buckets : Within(i.age, b)
                        /\ \A c \in buckets : Within(i.age, c) => b[1] <= c[1]}
    IN  [b \in buckets |-> Cardinality({i \in open : b \in First(i)})]

Total(f) == FoldSet(LAMBDA x, total : f[x] + total, 0, DOMAIN f)

-----------------------------------------------------------------------------
(* Closures: the chart, the list beside it, and the throughput.            *)

Month(day)      == day \div MonthDays
MonthStart(day) == Month(day) * MonthDays
MonthEnd(day)   == MonthStart(day) + MonthDays - 1

\* _closure_daily_range, _months_ago_month_start
RangeStart(p) == CASE p = "month" -> MonthStart(Now) [] p = "quarter" -> MonthStart(Now) - 2 * MonthDays
                   [] p = "all" -> 0
RangeEnd(p)   == IF p = "all" THEN Now ELSE MonthEnd(Now)

ClosedIn(issues, start) == {i \in issues : Done(i) /\ ClosedOn(i) >= start /\ ClosedOn(i) <= Now}

\* Mutant: the last day of the months before is not drawn.
DayBarsShort(p) == {d \in RangeStart(p)..RangeEnd(p) : d # MonthStart(Now) - 1}

\* A bar for each day of the range or, over all time, for each month from the
\* first closure to this month.
DayBars(p) == RangeStart(p)..RangeEnd(p)

MonthBars(closed) ==
    IF closed = {} THEN {Month(Now)} ELSE Min({Month(ClosedOn(i)) : i \in closed})..Month(Now)

Trend(issues, p) ==
    IF p = "all"
    THEN LET closed == ClosedIn(issues, 0)
         IN  [m \in MonthBars(closed) |-> Cardinality({i \in closed : Month(ClosedOn(i)) = m})]
    ELSE LET closed == ClosedIn(issues, RangeStart(p))
         IN  [d \in DayBars(p) |-> Cardinality({i \in closed : ClosedOn(i) = d})]

\* build_chart_details filters on its own.
ClosureList(issues, p) ==
    {i \in issues : Done(i) /\ ClosedOn(i) >= RangeStart(p) /\ ClosedOn(i) <= RangeEnd(p)}

-----------------------------------------------------------------------------
(* Progress within epics and parents.                                      *)

LinkedFrom(i) == {l.key : l \in i.links} \ {i.key}

\* The epics an issue is counted in: the one it names; an epic it is linked to
\* or, if that one is no epic, one that is linked to it.
InEpic(issues, e) ==
    {i \in issues : i.epic = e /\ i.key # e}
    \cup {i \in issues : e \in LinkedFrom(i) /\ Holds(issues, e) /\ Keyed(issues, e).isEpic}
    \cup {i \in issues : ~i.isEpic /\ Holds(issues, e) /\ Keyed(issues, e).isEpic
                         /\ i.key \in LinkedFrom(Keyed(issues, e))}

\* Mutant: the copy in the link.
LinkDoneCopied(issues, l) == l.done

\* Whether a linked issue is done: what was fetched for itself comes before the
\* copy in the link.
LinkDone(issues, l) == IF Holds(issues, l.key) THEN Done(Keyed(issues, l.key)) ELSE l.done

\* The rows of an issue that is no epic, its subtasks and links, and of an epic: key
\* and done.
ParentRows(issues, i) ==
    {[key |-> l.key, done |-> LinkDone(issues, l)] : l \in {x \in i.subtasks \cup i.links : x.key # i.key}}
EpicRows(issues, e) == {[key |-> i.key, done |-> Done(i)] : i \in InEpic(issues, e)}

EpicsOf(issues) == {i.epic : i \in issues} \cup {i.key : i \in {j \in issues : j.isEpic}}

-----------------------------------------------------------------------------
(* Teams that wait for each other.                                         *)

\* _link_team: the team the link names, or that of the issue itself; None is not known.
BlockingTeam(issues, l) ==
    IF l.team # None THEN l.team
    ELSE IF Holds(issues, l.key) THEN Keyed(issues, l.key).team ELSE None

\* collect_deep_radar_signals: an open issue with a link that blocks, either way, to one
\* of another team that is not done.  A team that is not known differs from all.
Waits(issues, i) ==
    {l \in i.links : /\ l.relation \in {"blocked_by", "blocks"} /\ ~LinkDone(issues, l)
                     /\ BlockingTeam(issues, l) # i.team}

BlockSignals(issues) ==
    UNION {{[blocked |-> i.key, by |-> l] : l \in Waits(issues, i)} : i \in Open(issues)}

\* ... and one of whose subtasks, two or more, half are open with nobody at work on them.
SubtaskGaps(issues) ==
    {i \in Open(issues) :
        LET all  == Cardinality(i.subtasks)
            idle == Cardinality({t \in i.subtasks : ~t.done /\ ~t.active})
        IN  all >= 2 /\ idle >= Most(1, all \div 2)}

\* build_team_blocking: what the teams keep waiting, as far as the issue that waits
\* belongs to the period; where none does, all that is known.
BlocksIn(issues, p) ==
    {s \in BlockSignals(issues) : Scoped(issues, p) = {} \/ Holds(Scoped(issues, p), s.blocked)}

=============================================================================
