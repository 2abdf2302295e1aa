------------------------------- MODULE AiJobs -------------------------------
(***************************************************************************)
(* Background AI jobs (services/voting_service/ai_jobs.py and              *)
(* ai_job_runners.py): requests for an AI analysis of one resource - a     *)
(* scope board, a retrospective, a daily standup or the task a session is  *)
(* estimating - the jobs they start, the runners and the requests that     *)
(* poll a job.                                                             *)
(*                                                                         *)
(* A job is a document in Redis; a second key, the dedupe key of the       *)
(* resource, names the job to share.  Every command is a step of its own:  *)
(* update_job is a GET followed by a SETEX without WATCH.  A document ages *)
(* when AI_JOB_STALE_SECONDS pass without an update and expires, aged or   *)
(* finished, after AI_JOB_TTL_SECONDS, which is longer.  Progress texts    *)
(* are left out; "validating" and "saving", two updates with nothing       *)
(* between them, are one.                                                  *)
(***************************************************************************)
EXTENDS Naturals, FiniteSets

CONSTANTS
    Kinds,      \* the kinds of resource of this instance
    Direct,     \* those that are also analysed before the answer, without a job
    Jobs,       \* job ids, each used once (uuid4)
    Clients,    \* pages that ask for an analysis and then poll its job
    MaxStamp,   \* bound: how often the resource moves on, before it may be deleted
    MaxCrashes, \* bound: the processes that die
    SlowModels, \* the model may take longer than AI_JOB_STALE_SECONDS (the
                \* defaults are 20 to 60 seconds, twice, against 300)
    None

VARIABLES
    kind,     \* the kind of the resource
    resource, \* what the analysis is about and the analyses stored with it
    jobs,     \* the job documents
    dedupe,   \* the dedupe keys
    proc,     \* the requests and runners
    stored,   \* history: the analyses stored with the resource
    crashes

vars == <<kind, resource, jobs, dedupe, proc, stored, crashes>>

Processes == Clients \cup Jobs

Stamps == 0..MaxStamp

\* A session has a job per task, the others one per resource.
Things == Stamps

\* The resource keys of a resource: the task it is for, and the ":refresh"
\* of a forced analysis.
Keys == [thing : Things, refresh : BOOLEAN]

\* An analysis remembers who had it generated and what from.
Analyses == [by : Jobs \cup Clients, of : Stamps]

ASSUME AiJobsAssumption ==
    /\ Kinds \subseteq {"scope", "session", "retro", "standup"}
    /\ Direct \subseteq Kinds
    /\ MaxStamp \in Nat /\ MaxCrashes \in Nat
    /\ SlowModels \in BOOLEAN
    /\ Clients \cap Jobs = {}
    /\ None \notin Jobs \cup Analyses

Thing(r) == IF kind = "session" THEN r.stamp ELSE 0

\* find_cached_scope_summary looks for the refreshed_at of the snapshot; the
\* other resources keep one analysis.
Cached(r) ==
    IF kind = "scope"
    THEN {f.analysis : f \in {g \in r.filed : g.of = r.stamp}}
    ELSE {r.shown[Thing(r)]} \ {None}

\* Ids are told apart and nothing else: the next one is any fixed one.
Unused  == {j \in Jobs : proc[j].pc = "unused"}
NextJob == IF Unused = {} THEN None ELSE CHOOSE j \in Unused : TRUE

Active(j) == jobs[j] # None /\ jobs[j].status \in {"queued", "running"}

IsStale(j) == Active(j) /\ jobs[j].old

-----------------------------------------------------------------------------
(* A process: where it is, the job it works on, the document it has read,  *)
(* the key it asks for, the stamp of the resource it has read, and the     *)
(* analysis it has generated or found.                                     *)

Asleep(stage) == [pc |-> stage, at |-> None, held |-> None, key |-> None,
                  stamp |-> 0, yield |-> None]

Init ==
    /\ kind \in Kinds
    /\ resource = [there |-> TRUE, ready |-> kind # "standup", stamp |-> 0,
                   shown |-> [t \in Things |-> None], filed |-> {}]
    /\ jobs = [j \in Jobs |-> None]
    /\ dedupe = [k \in Keys |-> None]
    /\ proc = [p \in Processes |-> Asleep(IF p \in Jobs THEN "unused" ELSE "idle")]
    /\ stored = {}
    /\ crashes = 0

Become(p, l) == proc' = [proc EXCEPT ![p] = l]
Goto(p, stage) ==
    Become(p, IF stage \in {"idle", "over"} THEN Asleep(stage)
              ELSE [proc[p] EXCEPT !.pc = stage])

-----------------------------------------------------------------------------
(* update_job: read the document, change it, write it back.  The stages    *)
(* come in pairs; "x" reads and "x!" writes.                               *)

Writing ==
    [building |-> "building!", calling |-> "calling!", repair |-> "repair!",
     saving |-> "saving!", done |-> "done!", failed |-> "failed!",
     stale |-> "stale!", orphan |-> "orphan!"]

\* Mutant: the job is completed before its analysis is stored.
ThenDoneFirst ==
    [building |-> "build", calling |-> "llm", repair |-> "llm2",
     saving |-> "done", done |-> "release", failed |-> "release",
     stale |-> "drop", orphan |-> "forget"]

\* Where a process goes on after the update.
Then ==
    [building |-> "build", calling |-> "llm", repair |-> "llm2",
     saving |-> "save", done |-> "release", failed |-> "release",
     stale |-> "drop", orphan |-> "forget"]

UpdateRead(p) == \E s \in DOMAIN Writing :
    /\ proc[p].pc = s
    /\ LET doc == jobs[proc[p].at]
       IN  Become(p, [proc[p] EXCEPT !.held = doc,
                                     !.pc = IF doc = None THEN Then[s] ELSE Writing[s]])
    /\ UNCHANGED <<kind, resource, jobs, dedupe, stored, crashes>>

\* Mutant: a failing job keeps the result the document may have.
UpdatedKeepingResult(l, s) ==
    CASE s = "done" -> [l.held EXCEPT !.status = "done", !.result = l.yield, !.old = FALSE]
      [] s \in {"failed", "stale", "orphan"} -> [l.held EXCEPT !.status = "error", !.old = FALSE]
      [] s = "repair" -> [l.held EXCEPT !.old = FALSE]
      [] OTHER -> [l.held EXCEPT !.status = "running", !.old = FALSE]

Updated(l, s) ==
    CASE s = "done" -> [l.held EXCEPT !.status = "done", !.result = l.yield, !.old = FALSE]
      [] s \in {"failed", "stale", "orphan"} ->
            [l.held EXCEPT !.status = "error", !.result = None, !.old = FALSE]
      [] s = "repair" -> [l.held EXCEPT !.old = FALSE]
      [] OTHER -> [l.held EXCEPT !.status = "running", !.old = FALSE]

UpdateWrite(p) == \E s \in DOMAIN Writing :
    /\ proc[p].pc = Writing[s]
    /\ jobs' = [jobs EXCEPT ![proc[p].at] = Updated(proc[p], s)]
    /\ Become(p, [proc[p] EXCEPT !.held = None, !.pc = Then[s]])
    /\ UNCHANGED <<kind, resource, dedupe, stored, crashes>>

\* The end of complete_job and fail_job: the dedupe key goes, whichever job
\* it names by now.
Release(p) ==
    /\ proc[p].pc = "release"
    /\ dedupe' = [dedupe EXCEPT ![proc[p].key] = None]
    /\ Goto(p, "over")
    /\ UNCHANGED <<kind, resource, jobs, stored, crashes>>

\* The same after fail_job_if_stale: a request goes on, a poll is over.
Drop(c) ==
    /\ proc[c].pc \in {"drop", "forget"}
    /\ dedupe' = [dedupe EXCEPT ![proc[c].key] = None]
    /\ Goto(c, IF proc[c].pc = "drop" THEN "create" ELSE "over")
    /\ UNCHANGED <<kind, resource, jobs, stored, crashes>>

-----------------------------------------------------------------------------
(* Requests.                                                               *)

Asking(r, refresh, stage) ==
    [Asleep(stage) EXCEPT !.stamp = r.stamp,
                          !.key = [thing |-> Thing(r), refresh |-> refresh]]

\* An analysis is asked for: answered with what is there, or by a job, or
\* generated before the answer.
Ask(c, refresh) == \E stage \in {"look"} \cup (IF kind \in Direct THEN {"llm"} ELSE {}) :
    /\ proc[c].pc = "idle"
    /\ resource.there /\ resource.ready
    /\ IF Cached(resource) # {} /\ ~refresh
       THEN Goto(c, "over")
       ELSE Become(c, Asking(resource, refresh, stage))
    /\ UNCHANGED <<kind, resource, jobs, dedupe, stored, crashes>>

\* Only standups and tasks can be analysed again on request.
AnalyzeBoard(c) == kind = "scope" /\ Ask(c, FALSE)
AnalyzeRetro(c) == kind = "retro" /\ Ask(c, FALSE)
AnalyzeStandup(c) == kind = "standup" /\ \E refresh \in BOOLEAN : Ask(c, refresh)
AnalyzeTask(c) == kind = "session" /\ \E refresh \in BOOLEAN : Ask(c, refresh)

\* Publishing a standup stores the status and asks for the analysis.
Publish(c) ==
    /\ kind = "standup" /\ proc[c].pc = "idle" /\ resource.there
    /\ resource' = [resource EXCEPT !.ready = TRUE]
    /\ IF ~resource.ready \/ resource.shown[0] = None
       THEN Become(c, Asking(resource, FALSE, "look"))
       ELSE Goto(c, "over")
    /\ UNCHANGED <<kind, jobs, dedupe, stored, crashes>>

\* get_or_create_job: GET the dedupe key.
Look(c) ==
    /\ proc[c].pc = "look"
    /\ LET j == dedupe[proc[c].key]
       IN  Become(c, [proc[c] EXCEPT !.at = j, !.pc = IF j = None THEN "create" ELSE "check"])
    /\ UNCHANGED <<kind, resource, jobs, dedupe, stored, crashes>>

\* GET the job the key names.
Check(c) ==
    /\ proc[c].pc = "check"
    /\ Goto(c, IF ~Active(proc[c].at) THEN "create"
               ELSE IF IsStale(proc[c].at) THEN "stale" ELSE "poll")
    /\ UNCHANGED <<kind, resource, jobs, dedupe, stored, crashes>>

\* SETEX the new job.
Create(c) == \E j \in Jobs :
    /\ proc[c].pc = "create" /\ j = NextJob
    /\ jobs' = [jobs EXCEPT ![j] = [key |-> proc[c].key, status |-> "queued",
                                    result |-> None, old |-> FALSE]]
    /\ proc' = [proc EXCEPT ![c].at = j, ![c].pc = "point", ![j].pc = "created"]
    /\ UNCHANGED <<kind, resource, dedupe, stored, crashes>>

\* SETEX the dedupe key.
Point(c) ==
    /\ proc[c].pc = "point"
    /\ dedupe' = [dedupe EXCEPT ![proc[c].key] = proc[c].at]
    /\ Goto(c, "spawn")
    /\ UNCHANGED <<kind, resource, jobs, stored, crashes>>

\* spawn_ai_job and the answer.
Spawn(c) ==
    /\ proc[c].pc = "spawn"
    /\ proc' = [proc EXCEPT ![c].pc = "poll",
                            ![proc[c].at] = [proc[c] EXCEPT !.pc = "building"]]
    /\ UNCHANGED <<kind, resource, jobs, dedupe, stored, crashes>>

\* GET .../jobs/{job_id}, until the job has ended.
Poll(c) ==
    /\ proc[c].pc = "poll"
    /\ ~Active(proc[c].at)
    /\ Goto(c, "over")
    /\ UNCHANGED <<kind, resource, jobs, dedupe, stored, crashes>>

\* The polls of boards and standups fail a job they find stale; those of
\* sessions and retrospectives only show it.
PollStale(c) ==
    /\ proc[c].pc = "poll"
    /\ IsStale(proc[c].at)
    /\ Goto(c, "orphan")
    /\ UNCHANGED <<kind, resource, jobs, dedupe, stored, crashes>>

PollBoard(c) == kind = "scope" /\ (Poll(c) \/ PollStale(c))
PollRetro(c) == kind = "retro" /\ Poll(c)
PollStandup(c) == kind = "standup" /\ (Poll(c) \/ PollStale(c))
PollTask(c) == kind = "session" /\ Poll(c)

-----------------------------------------------------------------------------
(* Runners, and what a request does that does not want a job.              *)

\* The resource is read again: it may be gone, not ready or already analysed.
Build(j) ==
    /\ proc[j].pc = "build"
    /\ LET l    == [proc[j] EXCEPT !.stamp = resource.stamp]
           gone == \/ ~resource.there \/ ~resource.ready
                   \/ Thing(resource) # l.key.thing
       IN  IF gone THEN Goto(j, "failed")
           ELSE IF l.key.refresh \/ Cached(resource) = {}
           THEN Become(j, [l EXCEPT !.pc = "calling"])
           ELSE \E a \in Cached(resource) :
                   Become(j, [l EXCEPT !.pc = "done", !.yield = a])
    /\ UNCHANGED <<kind, resource, jobs, dedupe, stored, crashes>>

\* A reply that cannot be used is repaired once, for boards; the job says so.
Repair(j) ==
    /\ proc[j].pc = "llm"
    /\ Goto(j, "repair")
    /\ UNCHANGED <<kind, resource, jobs, dedupe, stored, crashes>>

\* The model answers or fails.
Generate(p) ==
    /\ proc[p].pc \in {"llm", "llm2"}
    /\ \/ Become(p, [proc[p] EXCEPT !.yield = [by |-> p, of |-> proc[p].stamp],
                                    !.pc = IF p \in Jobs THEN "saving" ELSE "save"])
       \/ Goto(p, IF p \in Jobs THEN "failed" ELSE "over")
    /\ UNCHANGED <<kind, resource, jobs, dedupe, stored, crashes>>

\* Mutant: the session stores it with whatever task is current.
CanStoreAnywhere(p, r) == r.there \/ kind = "retro"

\* The analysis is stored unless the resource is gone; a session stores it
\* with the current task, if that still is the task analysed.
CanStore(p, r) ==
    /\ r.there \/ kind = "retro"
    /\ Thing(r) = proc[p].key.thing

Stored(p, r) ==
    IF ~r.there THEN r
    ELSE [r EXCEPT
             !.filed = IF kind = "scope"
                       THEN @ \cup {[of |-> proc[p].stamp, analysis |-> proc[p].yield]}
                       ELSE @,
             !.shown[Thing(r)] = IF kind = "scope" THEN @ ELSE proc[p].yield]

Finished(p) == IF p \in Jobs THEN "done" ELSE "over"

Save(p) ==
    /\ proc[p].pc = "save"
    /\ IF CanStore(p, resource)
       THEN /\ resource' = Stored(p, resource)
            /\ stored' = stored \cup {proc[p].yield}
            /\ Goto(p, IF kind = "standup" THEN "digest" ELSE Finished(p))
       ELSE /\ UNCHANGED <<resource, stored>>
            /\ Goto(p, IF p \in Jobs THEN "failed" ELSE "over")
    /\ UNCHANGED <<kind, jobs, dedupe, crashes>>

\* maybe_notify_standup_published: when the message went out, the analysis is
\* stored once more, with the time it was sent.
Digest(p) ==
    /\ proc[p].pc = "digest"
    /\ Goto(p, Finished(p)) \/ Goto(p, "mark")
    /\ UNCHANGED <<kind, resource, jobs, dedupe, stored, crashes>>

MarkSent(p) ==
    /\ proc[p].pc = "mark"
    /\ resource' = Stored(p, resource)
    /\ Goto(p, Finished(p))
    /\ UNCHANGED <<kind, jobs, dedupe, stored, crashes>>

-----------------------------------------------------------------------------
(* What else happens.                                                      *)

\* The board is refreshed, the session goes to its next task; a standup is a
\* draft again; a batch is finished or started.
MoveOn ==
    /\ resource.there
    /\ \/ /\ kind \in {"scope", "session"} /\ resource.stamp < MaxStamp
          /\ resource' = [resource EXCEPT !.stamp = @ + 1]
       \/ /\ kind = "standup" /\ resource.ready
          /\ resource' = [resource EXCEPT !.ready = FALSE]
       \/ /\ kind = "session"
          /\ resource' = [resource EXCEPT !.ready = ~@]
    /\ UNCHANGED <<kind, jobs, dedupe, proc, stored, crashes>>

Delete ==
    /\ resource.there /\ resource.stamp < MaxStamp
    /\ resource' = [resource EXCEPT !.there = FALSE]
    /\ UNCHANGED <<kind, jobs, dedupe, proc, stored, crashes>>

\* No runner is left, and none will be started.
Orphaned(j) ==
    /\ proc[j].pc \in {"created", "over"}
    /\ \A c \in Clients : proc[c].pc \in {"point", "spawn"} => proc[c].at # j

\* AI_JOB_STALE_SECONDS without an update.
Age(j) ==
    /\ Active(j) /\ ~jobs[j].old
    /\ SlowModels \/ Orphaned(j)
    /\ jobs' = [jobs EXCEPT ![j].old = TRUE]
    /\ UNCHANGED <<kind, resource, dedupe, proc, stored, crashes>>

\* Mutant: only the document of a finished job is given a TTL.
FinishedOutlived(j) == jobs[j] # None /\ ~Active(j)

\* AI_JOB_TTL_SECONDS without an update: a runner that is alive makes some.
Outlived(j) == jobs[j] # None /\ (Active(j) => jobs[j].old /\ Orphaned(j))

Expire(j) ==
    /\ Outlived(j)
    /\ jobs' = [jobs EXCEPT ![j] = None]
    /\ UNCHANGED <<kind, resource, dedupe, proc, stored, crashes>>

\* The dedupe key has the TTL its job was created with.
ExpireDedupe(k) == \E j \in Jobs :
    /\ dedupe[k] = j
    /\ jobs[j] = None \/ Outlived(j)
    /\ dedupe' = [dedupe EXCEPT ![k] = None]
    /\ UNCHANGED <<kind, resource, jobs, proc, stored, crashes>>

\* The server process dies, with a runner or with a request; a request that
\* has written nothing might as well not have been made.
Crash(p) ==
    /\ crashes < MaxCrashes
    /\ proc[p].pc \notin {"idle", "look", "check", "create", "poll", "unused",
                          "created", "over"}
    /\ crashes' = crashes + 1
    /\ Goto(p, "over")
    /\ UNCHANGED <<kind, resource, jobs, dedupe, stored>>

\* run_phased_job: the phases of any runner.
RunJob(p) == UpdateRead(p) \/ UpdateWrite(p) \/ Release(p)

RunBoardJob(j) == kind = "scope" /\ (Build(j) \/ Repair(j) \/ Generate(j) \/ Save(j))
RunRetroJob(j) == kind = "retro" /\ (Build(j) \/ Generate(j) \/ Save(j))
RunTaskJob(j)  == kind = "session" /\ (Build(j) \/ Generate(j) \/ Save(j))
RunStandupJob(j) ==
    /\ kind = "standup"
    /\ Build(j) \/ Generate(j) \/ Save(j) \/ Digest(j) \/ MarkSent(j)

Run(j) == RunJob(j) \/ RunBoardJob(j) \/ RunRetroJob(j) \/ RunTaskJob(j) \/ RunStandupJob(j)

\* A request that does without a job, or that fails a stale one.
Answer(c) == RunJob(c) \/ Generate(c) \/ Save(c) \/ Digest(c) \/ MarkSent(c)

Next ==
    \/ \E c \in Clients : \/ AnalyzeBoard(c) \/ AnalyzeRetro(c) \/ AnalyzeStandup(c)
                          \/ AnalyzeTask(c) \/ Publish(c)
                          \/ Look(c) \/ Check(c) \/ Create(c) \/ Point(c) \/ Spawn(c)
                          \/ PollBoard(c) \/ PollRetro(c) \/ PollStandup(c) \/ PollTask(c)
                          \/ Drop(c) \/ Answer(c)
    \/ \E j \in Jobs : Run(j) \/ Age(j) \/ Expire(j)
    \/ \E p \in Processes : Crash(p)
    \/ \E k \in Keys : ExpireDedupe(k)
    \/ MoveOn \/ Delete

\* The event loop goes on with what it has begun, Redis expires what is due.
Fairness ==
    /\ \A j \in Jobs : /\ WF_vars(Run(j))
                      /\ WF_vars(Age(j)) /\ WF_vars(Expire(j))
    /\ \A c \in Clients : WF_vars(Point(c) \/ Spawn(c))

Spec == Init /\ [][Next]_vars /\ Fairness

-----------------------------------------------------------------------------
(* Properties.                                                             *)

\* While the model is at work the board is refreshed and the session goes on.
\* An analysis is still only found under the snapshot, or the task, it was
\* generated from.
FiledRight ==
    /\ \A f \in resource.filed : f.analysis.of = f.of
    /\ kind = "session" =>
          \A t \in Things : resource.shown[t] # None => resource.shown[t].of = t

\* Job documents are read and written back in two commands, by the runner, by
\* polls and by requests that take the job for orphaned.  Whoever wins, a
\* reader finds a result exactly in a job that is done.
ResultIffDone ==
    \A j \in Jobs : jobs[j] # None => (jobs[j].status = "done" <=> jobs[j].result # None)

\* A job is called done once its analysis has been stored with the resource,
\* so that whoever reloads the page finds it.  A retrospective may be deleted
\* before: its runner does not notice.
DoneIsStored ==
    \A j \in Jobs : jobs[j] # None /\ jobs[j].status = "done" => jobs[j].result \in stored

\* Runners die, and nobody need look at their jobs again: no job stays queued
\* or running for ever.
JobsEnd == \A j \in Jobs : Active(j) ~> ~Active(j)

=============================================================================
