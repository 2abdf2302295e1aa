---------------------------- MODULE AiJobsProofs ----------------------------
(***************************************************************************)
(* Proofs about the background jobs (AiJobs), for any number of pages,     *)
(* jobs, snapshots and crashes: that analyses are filed under what they    *)
(* were generated from, that results belong to jobs that are done, and     *)
(* that what a done job promises has been stored.                          *)
(***************************************************************************)
EXTENDS AiJobs, TLAPS

Documents ==
    [key : Keys, status : {"queued", "running", "done", "error"},
     result : Analyses \cup {None}, old : BOOLEAN]

\* Where a request can be, and where a runner.
RequestStages ==
    {"idle", "over", "look", "check", "create", "point", "spawn", "poll", "stale", "stale!",
     "drop", "orphan", "orphan!", "forget", "llm", "save", "digest", "mark"}
RunnerStages ==
    {"unused", "created", "over", "building", "building!", "build", "calling", "calling!",
     "llm", "repair", "repair!", "llm2", "saving", "saving!", "save", "digest", "mark",
     "done", "done!", "failed", "failed!", "release"}
Asleeps == {"idle", "unused", "created", "over"}
Holding == {"building!", "calling!", "repair!", "saving!", "done!", "failed!", "stale!",
            "orphan!"}
Resting == {"release", "over"}

Locals ==
    [pc : RequestStages \cup RunnerStages, at : Jobs \cup {None},
     held : Documents \cup {None}, key : Keys \cup {None}, stamp : Stamps,
     yield : Analyses \cup {None}]

Resources ==
    [there : BOOLEAN, ready : BOOLEAN, stamp : Stamps,
     shown : [Things -> Analyses \cup {None}],
     filed : SUBSET [of : Stamps, analysis : Analyses]]

TypeOK ==
    /\ kind \in Kinds /\ resource \in Resources
    /\ jobs \in [Jobs -> Documents \cup {None}]
    /\ dedupe \in [Keys -> Jobs \cup {None}]
    /\ proc \in [Processes -> Locals]
    /\ stored \subseteq Analyses /\ crashes \in Nat

Sound(d) == d.status = "done" <=> d.result # None

\* What a process that is at l has with it: its own job, the task its key is
\* for, a document that tells results and errors apart, and an analysis of what
\* it has read that is stored by the time the job is to be called done.
Fit(p, l, k, st) ==
    /\ l.pc \in IF p \in Jobs THEN RunnerStages ELSE RequestStages
    /\ l.pc \notin Asleeps => /\ l.key \in Keys
                              /\ k = "session" => l.stamp = l.key.thing
                              /\ p \in Jobs => l.at = p
    /\ l.pc \in {"check", "point", "spawn", "poll", "stale", "stale!", "orphan", "orphan!"}
          => l.at \in Jobs
    /\ l.pc \in Holding => /\ l.held \in Documents /\ Sound(l.held)
                           /\ p \in Jobs => l.held.status # "done"
    /\ l.pc \in {"saving", "saving!", "save"} => l.yield \in Analyses /\ l.yield.of = l.stamp
    /\ l.pc \in {"digest", "mark"} => k = "standup"
    /\ l.pc \in {"digest", "mark", "done", "done!"} => l.yield \in st

ProcessesFit == \A p \in Processes : Fit(p, proc[p], kind, stored)

\* A job that is not spawned yet is in the hands of one request.
Handed ==
    \A c \in Clients : proc[c].pc \in {"point", "spawn"} =>
       /\ proc[proc[c].at].pc = "created"
       /\ \A d \in Clients :
             proc[d].pc \in {"point", "spawn"} /\ proc[d].at = proc[c].at => d = c

\* Only a runner that has finished leaves a job that is done.
DoneAtEnd == \A j \in Jobs : jobs[j] # None /\ jobs[j].status = "done" => proc[j].pc \in Resting

\* What a page can be shown has been stored.
ShownIsStored ==
    /\ \A f \in resource.filed : f.analysis \in stored
    /\ \A t \in Things : resource.shown[t] \in stored \cup {None}

IInv ==
    /\ TypeOK /\ ProcessesFit /\ Handed /\ DoneAtEnd /\ ShownIsStored
    /\ FiledRight /\ ResultIffDone /\ DoneIsStored

-----------------------------------------------------------------------------
(* Lemmas about one process.                                               *)

LEMMA ProcessParts ==
    ASSUME IInv, NEW p \in Processes
    PROVE  /\ proc[p] \in Locals /\ Fit(p, proc[p], kind, stored)
           /\ proc[p].pc \in RequestStages \cup RunnerStages
           /\ proc[p].at \in Jobs \cup {None}
           /\ proc[p].held \in Documents \cup {None}
           /\ proc[p].key \in Keys \cup {None}
           /\ proc[p].stamp \in Stamps
           /\ proc[p].yield \in Analyses \cup {None}
<1>1. proc[p] \in Locals /\ Fit(p, proc[p], kind, stored)
      BY DEF IInv, TypeOK, ProcessesFit
<1>2. QED
      BY <1>1 DEF Locals

\* A process that has ended, or is not there yet, has nothing with it.
LEMMA AsleepFits ==
    ASSUME NEW p \in Processes, NEW stage \in {"idle", "over"}, NEW k, NEW st,
           stage = "idle" => p \notin Jobs
    PROVE  /\ Asleep(stage) \in Locals /\ Asleep(stage).pc = stage
           /\ Fit(p, Asleep(stage), k, st)
<1>1. 0 \in Stamps
      BY AiJobsAssumption DEF Stamps
<1>2. Asleep(stage).pc = stage
      BY DEF Asleep
<1>3. Asleep(stage) \in Locals
      BY <1>1 DEF Asleep, Locals, RequestStages, RunnerStages
<1>4. QED
      BY <1>2, <1>3 DEF Fit, Asleeps, Holding, RequestStages, RunnerStages

\* One process goes on; it does not leave its end, and only Create gives a job
\* into its hands.
Moves(p, l) ==
    /\ proc' = [proc EXCEPT ![p] = l]
    /\ proc[p].pc \notin {"over", "created"}
    /\ proc[p].pc = "release" => l.pc = "over"
    /\ l.pc \in {"point", "spawn"} => proc[p].pc = "point" /\ l.at = proc[p].at

LEMMA OneMoves ==
    ASSUME IInv, NEW p \in Processes, NEW l \in Locals, Moves(p, l),
           stored \subseteq stored', kind' = kind, Fit(p, l, kind, stored')
    PROVE  /\ proc' \in [Processes -> Locals] /\ ProcessesFit' /\ Handed'
           /\ \A j \in Jobs : proc[j].pc \in Resting => proc'[j].pc \in Resting
<1>1. proc \in [Processes -> Locals] /\ proc' = [proc EXCEPT ![p] = l]
      BY DEF IInv, TypeOK, Moves
<1>2. /\ proc' \in [Processes -> Locals] /\ proc'[p] = l
      /\ \A q \in Processes : q # p => proc'[q] = proc[q]
      BY <1>1
<1>3. ProcessesFit'
      <2> SUFFICES ASSUME NEW q \in Processes
                   PROVE  Fit(q, proc'[q], kind', stored')
          BY DEF ProcessesFit
      <2>1. CASE q = p
            BY <2>1, <1>2 DEF Fit
      <2>2. CASE q # p
            <3>1. Fit(q, proc[q], kind, stored) /\ proc'[q] = proc[q]
                  BY <2>2, <1>2 DEF IInv, ProcessesFit
            <3>2. QED
                  BY <3>1 DEF Fit
      <2>3. QED
            BY <2>1, <2>2
<1>4. Handed'
      <2> SUFFICES ASSUME NEW c \in Clients, proc'[c].pc \in {"point", "spawn"}
                   PROVE  /\ proc'[proc'[c].at].pc = "created"
                          /\ \A d \in Clients :
                                proc'[d].pc \in {"point", "spawn"} /\ proc'[d].at = proc'[c].at
                                => d = c
          BY DEF Handed
      <2>1. \A d \in Clients : proc'[d].pc \in {"point", "spawn"} =>
               proc[d].pc \in {"point", "spawn"} /\ proc'[d].at = proc[d].at
            BY <1>2 DEF Moves, Processes
      <2>2. /\ proc[c].pc \in {"point", "spawn"} /\ proc'[c].at = proc[c].at
            /\ c \in Processes
            BY <2>1 DEF Processes
      <2>3. proc[c].at \in Jobs /\ proc[proc[c].at].pc = "created"
            BY <2>2, ProcessParts DEF IInv, Handed, Fit
      <2>4. proc[c].at \in Processes /\ proc[c].at # p
            BY <2>3 DEF Moves, Processes
      <2>5. QED
            BY <2>1, <2>2, <2>3, <2>4, <1>2 DEF IInv, Handed
<1>5. \A j \in Jobs : proc[j].pc \in Resting => proc'[j].pc \in Resting
      BY <1>2 DEF Moves, Resting, Processes
<1>6. QED
      BY <1>2, <1>3, <1>4, <1>5

\* What a step that leaves the documents, or the resource, alone need not show.
LEMMA JobsKept ==
    ASSUME IInv, jobs' = jobs, stored \subseteq stored',
           \A j \in Jobs : proc[j].pc \in Resting => proc'[j].pc \in Resting
    PROVE  DoneAtEnd' /\ ResultIffDone' /\ DoneIsStored'
BY DEF IInv, DoneAtEnd, ResultIffDone, DoneIsStored

LEMMA ResourceKept ==
    ASSUME IInv, resource' = resource, kind' = kind, stored \subseteq stored'
    PROVE  ShownIsStored' /\ FiledRight'
BY DEF IInv, ShownIsStored, FiledRight

\* A process goes on and nothing else changes but the dedupe keys.
LEMMA QuietMove ==
    ASSUME IInv, NEW p \in Processes, NEW l \in Locals, Moves(p, l), Fit(p, l, kind, stored),
           UNCHANGED <<kind, resource, jobs, stored>>,
           dedupe' \in [Keys -> Jobs \cup {None}], crashes' \in Nat
    PROVE  IInv'
<1>1. stored \subseteq stored' /\ Fit(p, l, kind, stored')
      OBVIOUS
<1>2. /\ proc' \in [Processes -> Locals] /\ ProcessesFit' /\ Handed'
      /\ \A j \in Jobs : proc[j].pc \in Resting => proc'[j].pc \in Resting
      BY <1>1, OneMoves
<1>3. DoneAtEnd' /\ ResultIffDone' /\ DoneIsStored' /\ ShownIsStored' /\ FiledRight'
      BY <1>1, <1>2, JobsKept, ResourceKept
<1>4. TypeOK'
      BY <1>2 DEF IInv, TypeOK
<1>5. QED
      BY <1>2, <1>3, <1>4 DEF IInv

\* A process that ends.
LEMMA EndMove ==
    ASSUME IInv, NEW p \in Processes, NEW stage \in {"idle", "over"},
           stage = "idle" => p \notin Jobs,
           Goto(p, stage), proc[p].pc \notin {"over", "created"},
           proc[p].pc = "release" => stage = "over",
           UNCHANGED <<kind, resource, jobs, stored>>,
           dedupe' \in [Keys -> Jobs \cup {None}], crashes' \in Nat
    PROVE  IInv'
<1>1. Asleep(stage) \in Locals /\ Asleep(stage).pc = stage /\ Fit(p, Asleep(stage), kind, stored)
      BY AsleepFits
<1>2. Moves(p, Asleep(stage))
      BY <1>1 DEF Moves, Goto, Become
<1>3. QED
      BY <1>1, <1>2, QuietMove

\* A process that only goes to another stage.
LEMMA StageMove ==
    ASSUME IInv, NEW p \in Processes, NEW stage \in RequestStages \cup RunnerStages,
           stage \notin {"idle", "over", "point"}, Goto(p, stage),
           proc[p].pc \notin {"over", "created", "release"},
           stage = "spawn" => proc[p].pc = "point",
           Fit(p, [proc[p] EXCEPT !.pc = stage], kind, stored),
           UNCHANGED <<kind, resource, jobs, stored, crashes>>,
           dedupe' \in [Keys -> Jobs \cup {None}]
    PROVE  IInv'
<1> DEFINE l == [proc[p] EXCEPT !.pc = stage]
<1>1. l \in Locals /\ l.pc = stage /\ l.at = proc[p].at
      BY ProcessParts DEF Locals
<1>2. Moves(p, l)
      BY <1>1 DEF Moves, Goto, Become
<1>3. crashes' \in Nat
      BY DEF IInv, TypeOK
<1>4. QED
      BY <1>1, <1>2, <1>3, QuietMove

-----------------------------------------------------------------------------
(* The two halves of update_job.                                           *)

LEMMA StagesOf ==
    ASSUME NEW s \in DOMAIN Writing
    PROVE  \/ s = "building" /\ Writing[s] = "building!" /\ Then[s] = "build"
           \/ s = "calling" /\ Writing[s] = "calling!" /\ Then[s] = "llm"
           \/ s = "repair" /\ Writing[s] = "repair!" /\ Then[s] = "llm2"
           \/ s = "saving" /\ Writing[s] = "saving!" /\ Then[s] = "save"
           \/ s = "done" /\ Writing[s] = "done!" /\ Then[s] = "release"
           \/ s = "failed" /\ Writing[s] = "failed!" /\ Then[s] = "release"
           \/ s = "stale" /\ Writing[s] = "stale!" /\ Then[s] = "drop"
           \/ s = "orphan" /\ Writing[s] = "orphan!" /\ Then[s] = "forget"
BY DEF Writing, Then

\* A runner updates its own job, a request the one it has found stale.
LEMMA UpdatesAJob ==
    ASSUME IInv, NEW p \in Processes, NEW s \in DOMAIN Writing,
           proc[p].pc \in {s, Writing[s]}
    PROVE  /\ proc[p].at \in Jobs /\ proc[p].key \in Keys
           /\ p \in Jobs => proc[p].at = p
           /\ p \notin Jobs => s \in {"stale", "orphan"}
           /\ s \in {"stale", "orphan"} => p \notin Jobs
BY ProcessParts, StagesOf DEF Fit, Asleeps, RequestStages, RunnerStages

LEMMA ReadKept ==
    ASSUME IInv, NEW p \in Processes, UpdateRead(p)
    PROVE  IInv'
<1>1. PICK s \in DOMAIN Writing :
         /\ proc[p].pc = s
         /\ Become(p, [proc[p] EXCEPT !.held = jobs[proc[p].at],
                                      !.pc = IF jobs[proc[p].at] = None THEN Then[s] ELSE Writing[s]])
      BY DEF UpdateRead
<1> DEFINE doc == jobs[proc[p].at]
           l   == [proc[p] EXCEPT !.held = doc, !.pc = IF doc = None THEN Then[s] ELSE Writing[s]]
<1>2. /\ proc[p].at \in Jobs /\ proc[p].key \in Keys
      /\ p \in Jobs => proc[p].at = p
      /\ p \notin Jobs => s \in {"stale", "orphan"}
      /\ s \in {"stale", "orphan"} => p \notin Jobs
      BY <1>1, UpdatesAJob
<1>3. /\ doc \in Documents \cup {None}
      /\ doc # None => Sound(doc) /\ (p \in Jobs => doc.status # "done")
      <2>1. doc \in Documents \cup {None} /\ (doc # None => Sound(doc))
            BY <1>2 DEF IInv, TypeOK, ResultIffDone, Sound
      <2>2. proc[p].pc \notin Resting
            BY <1>1, StagesOf DEF Resting
      <2>3. QED
            BY <1>2, <2>1, <2>2 DEF IInv, DoneAtEnd
<1>4. /\ Then[s] \in RequestStages \cup RunnerStages
      /\ Writing[s] \in RequestStages \cup RunnerStages
      BY StagesOf DEF RequestStages, RunnerStages
<1>5. /\ l \in Locals /\ l.pc = IF doc = None THEN Then[s] ELSE Writing[s]
      /\ l.held = doc /\ l.at = proc[p].at /\ l.key = proc[p].key
      /\ l.stamp = proc[p].stamp /\ l.yield = proc[p].yield
      BY ProcessParts, <1>3, <1>4 DEF Locals
<1> HIDE DEF l, doc
<1>6. Fit(p, l, kind, stored)
      <2>1. Fit(p, proc[p], kind, stored)
            BY ProcessParts
      <2>2. CASE doc = None
            BY <2>1, <2>2, <1>1, <1>2, <1>5, StagesOf
            DEF Fit, Asleeps, Holding, RequestStages, RunnerStages
      <2>3. CASE doc # None
            BY <2>1, <2>3, <1>1, <1>2, <1>3, <1>5, StagesOf
            DEF Fit, Asleeps, Holding, RequestStages, RunnerStages
      <2>4. QED
            BY <2>2, <2>3
<1>7. Moves(p, l)
      <2>1. proc' = [proc EXCEPT ![p] = l]
            BY <1>1 DEF Become, l, doc
      <2>2. QED
            BY <2>1, <1>1, <1>5, StagesOf DEF Moves
<1>8. QED
      BY <1>5, <1>6, <1>7, QuietMove DEF UpdateRead, IInv, TypeOK

\* What is written back is a document that is done only if its runner says so,
\* with an analysis that is stored.
LEMMA UpdatedIs ==
    ASSUME IInv, NEW p \in Processes, NEW s \in DOMAIN Writing, proc[p].pc = Writing[s]
    PROVE  /\ Updated(proc[p], s) \in Documents /\ Sound(Updated(proc[p], s))
           /\ Updated(proc[p], s).status = "done" =>
                 s = "done" /\ Updated(proc[p], s).result \in stored
<1>1. /\ Fit(p, proc[p], kind, stored) /\ None \notin Analyses /\ stored \subseteq Analyses
      /\ p \notin Jobs => s \in {"stale", "orphan"}
      BY ProcessParts, UpdatesAJob, AiJobsAssumption DEF IInv, TypeOK
<1>2. /\ proc[p].held \in Documents /\ Sound(proc[p].held)
      /\ p \in Jobs => proc[p].held.status # "done"
      /\ s = "done" => proc[p].yield \in stored
      BY <1>1, StagesOf DEF Fit, Holding
<1>3. CASE s = "done"
      BY <1>1, <1>2, <1>3 DEF Updated, Documents, Sound
<1>4. CASE s \in {"failed", "stale", "orphan"}
      BY <1>1, <1>2, <1>4 DEF Updated, Documents, Sound
<1>5. CASE s = "repair"
      BY <1>1, <1>2, <1>5 DEF Updated, Documents, Sound
<1>6. CASE s \in {"building", "calling", "saving"}
      BY <1>1, <1>2, <1>6 DEF Updated, Documents, Sound
<1>7. QED
      BY <1>3, <1>4, <1>5, <1>6, StagesOf

LEMMA WriteKept ==
    ASSUME IInv, NEW p \in Processes, UpdateWrite(p)
    PROVE  IInv'
<1>1. PICK s \in DOMAIN Writing :
         /\ proc[p].pc = Writing[s]
         /\ jobs' = [jobs EXCEPT ![proc[p].at] = Updated(proc[p], s)]
         /\ Become(p, [proc[p] EXCEPT !.held = None, !.pc = Then[s]])
      BY DEF UpdateWrite
<1> DEFINE l == [proc[p] EXCEPT !.held = None, !.pc = Then[s]]
           d == Updated(proc[p], s)
<1>2. /\ proc[p].at \in Jobs /\ proc[p].key \in Keys
      /\ p \in Jobs => proc[p].at = p
      /\ p \notin Jobs => s \in {"stale", "orphan"}
      BY <1>1, UpdatesAJob
<1>3. d \in Documents /\ Sound(d) /\ (d.status = "done" => s = "done" /\ d.result \in stored)
      BY <1>1, UpdatedIs
<1>4. Then[s] \in RequestStages \cup RunnerStages
      BY StagesOf DEF RequestStages, RunnerStages
<1>5. /\ l \in Locals /\ l.pc = Then[s] /\ l.at = proc[p].at /\ l.key = proc[p].key
      /\ l.stamp = proc[p].stamp /\ l.yield = proc[p].yield
      BY ProcessParts, <1>4 DEF Locals
<1> HIDE DEF l, d
<1>6. Fit(p, l, kind, stored)
      BY ProcessParts, <1>1, <1>2, <1>5, StagesOf
      DEF Fit, Asleeps, Holding, RequestStages, RunnerStages
<1>7. Moves(p, l)
      BY <1>1, <1>5, StagesOf DEF Moves, Become, l
<1>8. /\ proc' \in [Processes -> Locals] /\ ProcessesFit' /\ Handed'
      /\ \A j \in Jobs : proc[j].pc \in Resting => proc'[j].pc \in Resting
      <2>1. UNCHANGED <<kind, stored>>
            BY DEF UpdateWrite
      <2>2. stored \subseteq stored' /\ kind' = kind /\ Fit(p, l, kind, stored')
            BY <2>1, <1>6
      <2>3. QED
            BY <2>2, <1>5, <1>7, OneMoves
<1>9. jobs' \in [Jobs -> Documents \cup {None}]
      BY <1>1, <1>2, <1>3 DEF IInv, TypeOK, d
<1>10. \A j \in Jobs : jobs'[j] = IF j = proc[p].at THEN d ELSE jobs[j]
      BY <1>1 DEF IInv, TypeOK, d
<1>11. DoneAtEnd'
      <2>1. d.status = "done" => p \in Jobs /\ proc[p].at = p /\ proc'[p].pc \in Resting
            <3>1. proc'[p] = l
                  BY <1>7 DEF Moves, IInv, TypeOK
            <3>2. s = "done" => l.pc = "release"
                  BY <1>5, StagesOf
            <3>3. QED
                  BY <1>2, <1>3, <3>1, <3>2 DEF Resting
      <2>2. QED
            BY <1>8, <1>10, <2>1 DEF IInv, DoneAtEnd
<1>12. ResultIffDone' /\ DoneIsStored'
      BY <1>3, <1>10 DEF UpdateWrite, IInv, ResultIffDone, DoneIsStored, Sound
<1>13. ShownIsStored' /\ FiledRight'
      BY ResourceKept DEF UpdateWrite
<1>14. QED
      BY <1>8, <1>9, <1>11, <1>12, <1>13 DEF UpdateWrite, IInv, TypeOK

-----------------------------------------------------------------------------
(* Requests.                                                               *)

LEMMA ThingIsStamp == ASSUME IInv PROVE Thing(resource) \in Things
BY AiJobsAssumption DEF IInv, TypeOK, Resources, Thing, Things, Stamps

LEMMA AskingFits ==
    ASSUME IInv, NEW c \in Clients, NEW refresh \in BOOLEAN, NEW stage \in {"look", "llm"}
    PROVE  /\ Asking(resource, refresh, stage) \in Locals
           /\ Asking(resource, refresh, stage).pc = stage
           /\ Fit(c, Asking(resource, refresh, stage), kind, stored)
<1> DEFINE l == Asking(resource, refresh, stage)
<1>1. /\ l.pc = stage /\ l.at = None /\ l.held = None /\ l.stamp = resource.stamp
      /\ l.key = [thing |-> Thing(resource), refresh |-> refresh] /\ l.yield = None
      BY DEF Asking, Asleep
<1>2. l.key \in Keys /\ l.stamp \in Stamps /\ (kind = "session" => l.stamp = l.key.thing)
      BY <1>1, ThingIsStamp DEF Keys, IInv, TypeOK, Resources, Thing
<1>3. l \in Locals
      BY <1>1, <1>2 DEF Asking, Asleep, Locals, RequestStages, RunnerStages
<1>4. c \notin Jobs
      BY AiJobsAssumption
<1> HIDE DEF l
<1>5. Fit(c, l, kind, stored)
      BY <1>1, <1>2, <1>4 DEF Fit, Asleeps, Holding, RequestStages
<1>6. QED
      BY <1>1, <1>3, <1>5 DEF l

LEMMA AskKept ==
    ASSUME IInv, NEW c \in Clients, NEW refresh \in BOOLEAN, Ask(c, refresh)
    PROVE  IInv'
<1>1. PICK stage \in {"look", "llm"} :
         /\ proc[c].pc = "idle"
         /\ IF Cached(resource) # {} /\ ~refresh
            THEN Goto(c, "over")
            ELSE Become(c, Asking(resource, refresh, stage))
      BY DEF Ask
<1>2. /\ UNCHANGED <<kind, resource, jobs, dedupe, stored, crashes>> /\ c \in Processes
      /\ dedupe' \in [Keys -> Jobs \cup {None}] /\ crashes' \in Nat
      BY DEF Ask, Processes, IInv, TypeOK
<1>3. CASE Goto(c, "over")
      BY <1>1, <1>2, <1>3, EndMove
<1>4. CASE Become(c, Asking(resource, refresh, stage))
      <2> DEFINE l == Asking(resource, refresh, stage)
      <2>1. l \in Locals /\ l.pc = stage /\ Fit(c, l, kind, stored)
            BY AskingFits
      <2>2. Moves(c, l)
            BY <1>1, <1>4, <2>1 DEF Moves, Become
      <2>3. QED
            BY <2>1, <2>2, <1>2, QuietMove
<1>5. QED
      BY <1>1, <1>3, <1>4

\* The resource is touched, but no analysis is.
LEMMA TouchedResource ==
    ASSUME IInv, kind' = kind, stored' = stored, resource' \in Resources,
           resource'.filed = resource.filed, resource'.shown = resource.shown
    PROVE  ShownIsStored' /\ FiledRight'
BY DEF IInv, ShownIsStored, FiledRight

LEMMA PublishKept ==
    ASSUME IInv, NEW c \in Clients, Publish(c)
    PROVE  IInv'
<1>1. /\ proc[c].pc = "idle" /\ c \in Processes
      /\ UNCHANGED <<kind, jobs, dedupe, stored, crashes>>
      /\ resource' = [resource EXCEPT !.ready = TRUE]
      BY DEF Publish, Processes
<1>2. PICK l \in Locals :
         Fit(c, l, kind, stored) /\ Become(c, l) /\ l.pc \in {"look", "over"}
      <2>1. CASE Goto(c, "over")
            <3>1. /\ Asleep("over") \in Locals /\ Asleep("over").pc = "over"
                  /\ Fit(c, Asleep("over"), kind, stored)
                  BY <1>1, AsleepFits
            <3>2. QED
                  BY <2>1, <3>1 DEF Goto
      <2>2. CASE Become(c, Asking(resource, FALSE, "look"))
            BY <2>2, AskingFits
      <2>3. QED
            BY <2>1, <2>2 DEF Publish
<1>3. Moves(c, l)
      BY <1>1, <1>2 DEF Moves, Become
<1>4. stored \subseteq stored' /\ kind' = kind /\ Fit(c, l, kind, stored')
      BY <1>1, <1>2
<1>5. /\ proc' \in [Processes -> Locals] /\ ProcessesFit' /\ Handed'
      /\ \A j \in Jobs : proc[j].pc \in Resting => proc'[j].pc \in Resting
      BY <1>1, <1>3, <1>4, OneMoves
<1>6. /\ resource' \in Resources /\ resource'.filed = resource.filed
      /\ resource'.shown = resource.shown
      BY <1>1 DEF IInv, TypeOK, Resources
<1>7. ShownIsStored' /\ FiledRight' /\ DoneAtEnd' /\ ResultIffDone' /\ DoneIsStored'
      BY <1>1, <1>5, <1>6, JobsKept, TouchedResource
<1>8. QED
      BY <1>1, <1>5, <1>6, <1>7 DEF IInv, TypeOK

LEMMA LookKept ==
    ASSUME IInv, NEW c \in Clients, Look(c)
    PROVE  IInv'
<1> DEFINE j == dedupe[proc[c].key]
           stage == IF j = None THEN "create" ELSE "check"
           l == [proc[c] EXCEPT !.at = j, !.pc = stage]
<1>1. /\ proc[c].pc = "look" /\ Become(c, l) /\ c \in Processes /\ c \notin Jobs
      /\ UNCHANGED <<kind, resource, jobs, dedupe, stored, crashes>>
      BY AiJobsAssumption DEF Look, Processes
<1>2. Fit(c, proc[c], kind, stored) /\ proc[c].key \in Keys
      BY <1>1, ProcessParts DEF Fit, Asleeps
<1>3. j \in Jobs \cup {None}
      BY <1>2 DEF IInv, TypeOK
<1>4. /\ stage \in {"create", "check"} /\ (stage = "check" => j # None)
      /\ stage \in RequestStages \cup RunnerStages
      BY DEF RequestStages, RunnerStages
<1> HIDE DEF stage, j
<1>5. /\ l \in Locals /\ l.pc = stage
      /\ l.at = j /\ l.key = proc[c].key /\ l.stamp = proc[c].stamp
      BY <1>1, <1>3, <1>4, ProcessParts DEF Locals
<1> HIDE DEF l
<1>6. Fit(c, l, kind, stored)
      BY <1>1, <1>2, <1>3, <1>4, <1>5 DEF Fit, Asleeps, Holding, RequestStages
<1>7. Moves(c, l)
      BY <1>1, <1>4, <1>5 DEF Moves, Become
<1>8. QED
      BY <1>1, <1>5, <1>6, <1>7, QuietMove DEF IInv, TypeOK

\* A request goes from one stage to another, with what it has.
LEMMA RequestGoes ==
    ASSUME IInv, NEW c \in Clients, NEW stage \in {"create", "stale", "poll", "orphan", "spawn"},
           Goto(c, stage),
           proc[c].pc \in {"check", "poll", "point", "drop", "spawn"},
           stage \in {"stale", "poll", "orphan", "spawn"} => proc[c].pc # "drop",
           stage = "spawn" => proc[c].pc = "point",
           UNCHANGED <<kind, resource, jobs, stored, crashes>>,
           dedupe' \in [Keys -> Jobs \cup {None}]
    PROVE  IInv'
<1> DEFINE l == [proc[c] EXCEPT !.pc = stage]
<1>1. c \in Processes /\ c \notin Jobs
      BY AiJobsAssumption DEF Processes
<1>2. stage \in RequestStages \cup RunnerStages /\ stage \notin {"idle", "over", "point"}
      BY DEF RequestStages
<1>3. l \in Locals /\ l.pc = stage /\ l.at = proc[c].at /\ l.key = proc[c].key /\ l.stamp = proc[c].stamp
      BY <1>1, <1>2, ProcessParts DEF Locals
<1>4. Fit(c, l, kind, stored)
      <2>1. Fit(c, proc[c], kind, stored)
            BY <1>1, ProcessParts
      <2> HIDE DEF l
      <2>2. QED
            BY <2>1, <1>1, <1>3 DEF Fit, Asleeps, Holding, RequestStages
<1>5. proc[c].pc \notin {"over", "created", "release"}
      OBVIOUS
<1>6. QED
      BY <1>1, <1>2, <1>4, <1>5, StageMove, Zenon

LEMMA CheckKept ==
    ASSUME IInv, NEW c \in Clients, Check(c)
    PROVE  IInv'
<1>1. PICK stage \in {"create", "stale", "poll"} : Goto(c, stage)
      BY DEF Check
<1>2. QED
      BY <1>1, RequestGoes DEF Check, IInv, TypeOK

LEMMA PointKept ==
    ASSUME IInv, NEW c \in Clients, Point(c)
    PROVE  IInv'
<1>1. c \in Processes /\ Fit(c, proc[c], kind, stored)
      BY ProcessParts DEF Processes
<1>2. proc[c].at \in Jobs
      BY <1>1 DEF Point, Fit
<1>3. dedupe' \in [Keys -> Jobs \cup {None}]
      BY <1>2 DEF Point, IInv, TypeOK
<1>4. QED
      BY <1>3, RequestGoes DEF Point

LEMMA PollsKept ==
    ASSUME IInv, NEW c \in Clients, Poll(c) \/ PollStale(c)
    PROVE  IInv'
<1>1. /\ dedupe' \in [Keys -> Jobs \cup {None}] /\ crashes' \in Nat /\ c \in Processes
      /\ UNCHANGED <<kind, resource, jobs, stored, crashes>> /\ proc[c].pc = "poll"
      BY DEF Poll, PollStale, IInv, TypeOK, Processes
<1>2. CASE Poll(c)
      BY <1>1, <1>2, EndMove DEF Poll
<1>3. CASE PollStale(c)
      BY <1>1, <1>3, RequestGoes DEF PollStale
<1>4. QED
      BY <1>2, <1>3

LEMMA DropKept ==
    ASSUME IInv, NEW c \in Clients, Drop(c)
    PROVE  IInv'
<1>1. /\ dedupe' \in [Keys -> Jobs \cup {None}] /\ crashes' \in Nat /\ c \in Processes
      /\ UNCHANGED <<kind, resource, jobs, stored, crashes>>
      BY DEF Drop, IInv, TypeOK, Processes
<1>2. CASE proc[c].pc = "drop"
      <2>1. Goto(c, "create")
            BY <1>2 DEF Drop
      <2>2. QED
            BY <1>1, <1>2, <2>1, RequestGoes
<1>3. CASE proc[c].pc = "forget"
      <2>1. Goto(c, "over")
            BY <1>3 DEF Drop
      <2>2. QED
            BY <1>1, <1>3, <2>1, EndMove
<1>4. QED
      BY <1>2, <1>3 DEF Drop

\* A new job belongs to the request that created it, and to no other.
LEMMA CreateKept ==
    ASSUME IInv, NEW c \in Clients, Create(c)
    PROVE  IInv'
<1>1. PICK j \in Jobs :
         /\ proc[c].pc = "create" /\ j = NextJob
         /\ jobs' = [jobs EXCEPT ![j] = [key |-> proc[c].key, status |-> "queued",
                                         result |-> None, old |-> FALSE]]
         /\ proc' = [proc EXCEPT ![c].at = j, ![c].pc = "point", ![j].pc = "created"]
      BY DEF Create
<1>2. UNCHANGED <<kind, resource, dedupe, stored, crashes>>
      BY DEF Create
<1>3. proc[j].pc = "unused"
      BY <1>1, AiJobsAssumption DEF NextJob, Unused
<1>4. c \in Processes /\ j \in Processes /\ c # j
      BY AiJobsAssumption DEF Processes
<1> DEFINE l == [proc[c] EXCEPT !.at = j, !.pc = "point"]
           m == [proc[j] EXCEPT !.pc = "created"]
           d == [key |-> proc[c].key, status |-> "queued", result |-> None, old |-> FALSE]
<1>5. Fit(c, proc[c], kind, stored) /\ proc[c].key \in Keys
      BY <1>1, <1>4, ProcessParts DEF Fit, Asleeps
<1>6. /\ l \in Locals /\ l.pc = "point" /\ l.at = j /\ l.key = proc[c].key
      /\ l.stamp = proc[c].stamp
      BY <1>4, ProcessParts DEF Locals, RequestStages
<1>7. m \in Locals /\ m.pc = "created"
      BY <1>4, ProcessParts DEF Locals, RunnerStages
<1>8. d \in Documents /\ d.status = "queued" /\ d.result = None
      BY <1>5 DEF Documents
<1>9. proc' = [[proc EXCEPT ![c] = l] EXCEPT ![j] = m]
      BY <1>1, <1>4 DEF IInv, TypeOK
<1> HIDE DEF l, m
<1>10. /\ proc' \in [Processes -> Locals] /\ proc'[c] = l /\ proc'[j] = m
       /\ \A q \in Processes : q # c /\ q # j => proc'[q] = proc[q]
       BY <1>4, <1>6, <1>7, <1>9 DEF IInv, TypeOK
<1>11. ProcessesFit'
       <2>1. Fit(c, l, kind, stored)
             BY <1>1, <1>4, <1>5, <1>6, AiJobsAssumption DEF Fit, Asleeps, Holding, RequestStages
       <2>2. Fit(j, m, kind, stored)
             BY <1>7 DEF Fit, Asleeps, Holding, RunnerStages
       <2>3. QED
             BY <1>2, <1>10, <2>1, <2>2 DEF IInv, ProcessesFit
<1>12. Handed'
       <2>1. \A q \in Clients : q \in Processes /\ q # j
             BY AiJobsAssumption DEF Processes
       <2>2. ASSUME NEW q \in Clients, q # c, proc'[q].pc \in {"point", "spawn"}
             PROVE  /\ proc[q].pc \in {"point", "spawn"} /\ proc'[q] = proc[q]
                    /\ proc[q].at \in Jobs /\ proc[proc[q].at].pc = "created"
                    /\ proc'[q].at # j /\ proc'[proc'[q].at].pc = "created"
             <3>1. proc[q].pc \in {"point", "spawn"} /\ proc'[q] = proc[q]
                   BY <1>10, <2>1, <2>2
             <3>2. Fit(q, proc[q], kind, stored)
                   BY <2>1, ProcessParts
             <3>3. proc[q].at \in Jobs /\ proc[proc[q].at].pc = "created"
                   BY <3>1, <3>2 DEF Fit, IInv, Handed
             <3>4. proc[q].at # j /\ proc[q].at # c
                   BY <1>3, <3>3, AiJobsAssumption
             <3>5. QED
                   BY <1>10, <3>1, <3>3, <3>4 DEF Processes
       <2>3. proc'[c].at = j /\ proc'[j].pc = "created"
             BY <1>6, <1>7, <1>10
       <2>4. \A q \in Clients : proc'[q].pc \in {"point", "spawn"} => proc'[proc'[q].at].pc = "created"
             BY <2>2, <2>3
       <2>5. ASSUME NEW q \in Clients, proc'[q].pc \in {"point", "spawn"},
                    NEW r \in Clients, proc'[r].pc \in {"point", "spawn"}, proc'[r].at = proc'[q].at
             PROVE  r = q
             <3>1. CASE q = c \/ r = c
                   BY <2>2, <2>3, <2>5, <3>1
             <3>2. CASE q # c /\ r # c
                   BY <2>2, <2>5, <3>2 DEF IInv, Handed
             <3>3. QED
                   BY <3>1, <3>2
       <2>6. QED
             BY <2>4, <2>5 DEF Handed
<1>13. jobs' = [jobs EXCEPT ![j] = d]
       BY <1>1
<1> HIDE DEF d
<1>14. \A i \in Jobs : jobs'[i] = IF i = j THEN d ELSE jobs[i]
       BY <1>13 DEF IInv, TypeOK
<1>15. DoneAtEnd' /\ ResultIffDone' /\ DoneIsStored'
       <2>1. \A i \in Jobs : i # j => i \in Processes /\ i # c
             BY AiJobsAssumption DEF Processes
       <2>2. DoneAtEnd'
             BY <1>8, <1>10, <1>14, <2>1 DEF IInv, DoneAtEnd
       <2>3. ResultIffDone' /\ DoneIsStored'
             BY <1>2, <1>8, <1>14 DEF IInv, ResultIffDone, DoneIsStored
       <2>4. QED
             BY <2>2, <2>3
<1>16. ShownIsStored' /\ FiledRight'
       BY <1>2, ResourceKept
<1>17. QED
       BY <1>2, <1>8, <1>10, <1>11, <1>12, <1>13, <1>15, <1>16 DEF IInv, TypeOK

\* A runner starts with the key and the stamp of its request.
LEMMA SpawnKept ==
    ASSUME IInv, NEW c \in Clients, Spawn(c)
    PROVE  IInv'
<1> DEFINE j == proc[c].at
           l == [proc[c] EXCEPT !.pc = "poll"]
           m == [proc[c] EXCEPT !.pc = "building"]
<1>1. /\ proc[c].pc = "spawn" /\ c \in Processes /\ c \notin Jobs
      /\ UNCHANGED <<kind, resource, jobs, dedupe, stored, crashes>>
      BY AiJobsAssumption DEF Spawn, Processes
<1>2. Fit(c, proc[c], kind, stored)
      BY <1>1, ProcessParts
<1>3. j \in Jobs /\ proc[j].pc = "created" /\ proc[c].key \in Keys
      BY <1>1, <1>2 DEF Fit, Asleeps, IInv, Handed
<1>4. j \in Processes /\ c # j
      BY <1>1, <1>3 DEF Processes
<1>5. /\ l \in Locals /\ l.pc = "poll" /\ l.at = j /\ l.key = proc[c].key /\ l.stamp = proc[c].stamp
      BY <1>1, ProcessParts DEF Locals, RequestStages
<1>6. /\ m \in Locals /\ m.pc = "building" /\ m.at = j /\ m.key = proc[c].key
      /\ m.stamp = proc[c].stamp
      BY <1>1, ProcessParts DEF Locals, RunnerStages
<1>7. proc' = [[proc EXCEPT ![c] = l] EXCEPT ![j] = m]
      BY <1>1, <1>4 DEF IInv, TypeOK, Spawn
<1>8. \A d \in Clients : proc[d].pc \in {"point", "spawn"} /\ proc[d].at = j => d = c
      BY <1>1 DEF IInv, Handed
<1> HIDE DEF l, m, j
<1>9. /\ proc' \in [Processes -> Locals] /\ proc'[c] = l /\ proc'[j] = m
      /\ \A q \in Processes : q # c /\ q # j => proc'[q] = proc[q]
      BY <1>1, <1>4, <1>5, <1>6, <1>7 DEF IInv, TypeOK
<1>10. ProcessesFit'
       <2>1. Fit(c, l, kind, stored)
             BY <1>1, <1>2, <1>3, <1>5 DEF Fit, Asleeps, Holding, RequestStages
       <2>2. Fit(j, m, kind, stored)
             BY <1>1, <1>2, <1>3, <1>6 DEF Fit, Asleeps, Holding, RunnerStages
       <2>3. QED
             BY <1>1, <1>9, <2>1, <2>2 DEF IInv, ProcessesFit
<1>11. Handed'
       <2>1. ASSUME NEW q \in Clients, proc'[q].pc \in {"point", "spawn"}
             PROVE  /\ proc[q].pc \in {"point", "spawn"} /\ proc'[q] = proc[q] /\ q # c
                    /\ proc'[proc'[q].at].pc = "created"
             <3>1. q \in Processes /\ q # j /\ q # c
                   BY <1>3, <1>5, <1>9, <2>1, AiJobsAssumption DEF Processes
             <3>2. proc[q].pc \in {"point", "spawn"} /\ proc'[q] = proc[q]
                   BY <1>9, <2>1, <3>1
             <3>3. proc[q].at \in Jobs /\ proc[proc[q].at].pc = "created"
                   BY <3>1, <3>2, ProcessParts DEF Fit, IInv, Handed
             <3>4. proc[q].at # j /\ proc[q].at # c /\ proc[q].at \in Processes
                   BY <1>1, <1>8, <3>1, <3>2, <3>3 DEF Processes
             <3>5. QED
                   BY <1>9, <3>1, <3>2, <3>3, <3>4
       <2>2. QED
             BY <2>1 DEF IInv, Handed
<1>12. \A i \in Jobs : proc[i].pc \in Resting => proc'[i].pc \in Resting
       BY <1>1, <1>3, <1>9 DEF Resting, Processes
<1>13. DoneAtEnd' /\ ResultIffDone' /\ DoneIsStored' /\ ShownIsStored' /\ FiledRight'
       BY <1>1, <1>12, JobsKept, ResourceKept
<1>14. QED
       BY <1>1, <1>9, <1>10, <1>11, <1>13 DEF IInv, TypeOK

-----------------------------------------------------------------------------
(* Runners, and requests that do without one.                              *)

LEMMA ReleaseKept ==
    ASSUME IInv, NEW p \in Processes, Release(p)
    PROVE  IInv'
<1>1. /\ dedupe' \in [Keys -> Jobs \cup {None}] /\ crashes' \in Nat
      /\ UNCHANGED <<kind, resource, jobs, stored, crashes>>
      /\ Goto(p, "over") /\ proc[p].pc = "release"
      BY DEF Release, IInv, TypeOK
<1>2. QED
      BY <1>1, EndMove

\* A runner goes on with nothing new.
LEMMA RunnerGoes ==
    ASSUME IInv, NEW j \in Jobs, NEW stage \in {"failed", "repair"}, Goto(j, stage),
           proc[j].pc \in {"build", "llm", "llm2", "save"},
           UNCHANGED <<kind, resource, jobs, dedupe, stored, crashes>>
    PROVE  IInv'
<1> DEFINE l == [proc[j] EXCEPT !.pc = stage]
<1>1. j \in Processes /\ stage \in RequestStages \cup RunnerStages
      BY DEF Processes, RunnerStages
<1>2. /\ l.pc = stage /\ l.at = proc[j].at /\ l.key = proc[j].key
      /\ l.stamp = proc[j].stamp
      BY <1>1, ProcessParts DEF Locals
<1>3. Fit(j, l, kind, stored)
      <2>1. Fit(j, proc[j], kind, stored)
            BY <1>1, ProcessParts
      <2> HIDE DEF l
      <2>2. QED
            BY <2>1, <1>2 DEF Fit, Asleeps, Holding, RunnerStages
<1>4. /\ stage \notin {"idle", "over", "point"} /\ stage # "spawn"
      /\ proc[j].pc \notin {"over", "created", "release"}
      /\ dedupe' \in [Keys -> Jobs \cup {None}]
      BY DEF IInv, TypeOK
<1>5. QED
      BY <1>1, <1>3, <1>4, StageMove, Zenon

\* What a page can be shown is an analysis that is stored.
LEMMA CachedIsStored ==
    ASSUME IInv
    PROVE  Cached(resource) \subseteq stored
BY ThingIsStamp DEF IInv, ShownIsStored, Cached

LEMMA BuildKept ==
    ASSUME IInv, NEW j \in Jobs, Build(j)
    PROVE  IInv'
<1> DEFINE l    == [proc[j] EXCEPT !.stamp = resource.stamp]
           gone == \/ ~resource.there \/ ~resource.ready
                   \/ Thing(resource) # l.key.thing
<1>1. /\ proc[j].pc = "build" /\ j \in Processes
      /\ UNCHANGED <<kind, resource, jobs, dedupe, stored, crashes>>
      /\ dedupe' \in [Keys -> Jobs \cup {None}] /\ crashes' \in Nat
      BY DEF Build, Processes, IInv, TypeOK
<1>2. Fit(j, proc[j], kind, stored) /\ proc[j].key \in Keys /\ proc[j].at = j
      BY <1>1, ProcessParts DEF Fit, Asleeps
<1>3. CASE gone
      <2>1. Goto(j, "failed")
            BY <1>3 DEF Build
      <2>2. QED
            BY <1>1, <2>1, RunnerGoes
<1>4. CASE ~gone
      <2>1. Thing(resource) = proc[j].key.thing
            BY <1>1, <1>4, ProcessParts DEF Locals
      <2>2. resource.stamp \in Stamps
            BY DEF IInv, TypeOK, Resources
      <2>3. kind = "session" => resource.stamp = proc[j].key.thing
            BY <2>1 DEF Thing
      <2>4. CASE Become(j, [l EXCEPT !.pc = "calling"])
            <3> DEFINE m == [l EXCEPT !.pc = "calling"]
            <3>1. /\ m \in Locals /\ m.pc = "calling" /\ m.at = proc[j].at
                  /\ m.key = proc[j].key /\ m.stamp = resource.stamp
                  BY <1>1, <2>2, ProcessParts DEF Locals, RunnerStages
            <3> HIDE DEF m
            <3>2. Fit(j, m, kind, stored)
                  BY <1>2, <2>3, <3>1 DEF Fit, Asleeps, Holding, RunnerStages
            <3>3. Moves(j, m)
                  BY <1>1, <2>4, <3>1 DEF Moves, Become, m
            <3>4. QED
                  BY <1>1, <3>1, <3>2, <3>3, QuietMove
      <2>5. ASSUME NEW a \in Cached(resource), Become(j, [l EXCEPT !.pc = "done", !.yield = a])
            PROVE  IInv'
            <3> DEFINE m == [l EXCEPT !.pc = "done", !.yield = a]
            <3>1. a \in stored /\ a \in Analyses
                  BY CachedIsStored DEF IInv, TypeOK
            <3>2. /\ m \in Locals /\ m.pc = "done" /\ m.at = proc[j].at
                  /\ m.key = proc[j].key /\ m.stamp = resource.stamp /\ m.yield = a
                  BY <1>1, <2>2, <3>1, ProcessParts DEF Locals, RunnerStages
            <3> HIDE DEF m
            <3>3. Fit(j, m, kind, stored)
                  BY <1>2, <2>3, <3>1, <3>2 DEF Fit, Asleeps, Holding, RunnerStages
            <3>4. Moves(j, m)
                  BY <1>1, <2>5, <3>2 DEF Moves, Become, m
            <3>5. QED
                  BY <1>1, <3>2, <3>3, <3>4, QuietMove
      <2>6. QED
            BY <1>4, <2>4, <2>5 DEF Build
<1>5. QED
      BY <1>3, <1>4

LEMMA RepairKept ==
    ASSUME IInv, NEW j \in Jobs, Repair(j)
    PROVE  IInv'
BY RunnerGoes DEF Repair

\* The analysis is of what the process has read.
LEMMA GenerateKept ==
    ASSUME IInv, NEW p \in Processes, Generate(p)
    PROVE  IInv'
<1> DEFINE a == [by |-> p, of |-> proc[p].stamp]
           stage == IF p \in Jobs THEN "saving" ELSE "save"
           l == [proc[p] EXCEPT !.yield = a, !.pc = stage]
<1>1. /\ proc[p].pc \in {"llm", "llm2"}
      /\ UNCHANGED <<kind, resource, jobs, dedupe, stored, crashes>>
      /\ dedupe' \in [Keys -> Jobs \cup {None}] /\ crashes' \in Nat
      BY DEF Generate, IInv, TypeOK
<1>2. CASE Become(p, l)
      <2>1. a \in Analyses /\ a.of = proc[p].stamp
            BY ProcessParts DEF Analyses, Processes
      <2>2. /\ stage \in RequestStages \cup RunnerStages
            /\ stage \in IF p \in Jobs THEN RunnerStages ELSE RequestStages
            /\ stage \in {"saving", "save"}
            BY DEF RequestStages, RunnerStages
      <2> HIDE DEF a, stage
      <2>3. /\ l \in Locals /\ l.pc = stage /\ l.yield = a /\ l.key = proc[p].key
            /\ l.stamp = proc[p].stamp /\ l.at = proc[p].at
            BY <2>1, <2>2, ProcessParts DEF Locals
      <2> HIDE DEF l
      <2>4. Fit(p, proc[p], kind, stored)
            BY ProcessParts
      <2>5. Fit(p, l, kind, stored)
            BY <1>1, <2>1, <2>2, <2>3, <2>4 DEF Fit, Asleeps, Holding
      <2>6. Moves(p, l)
            BY <1>1, <1>2, <2>2, <2>3 DEF Moves, Become
      <2>7. QED
            BY <1>1, <2>3, <2>5, <2>6, QuietMove
<1>3. CASE Goto(p, "failed") /\ p \in Jobs
      BY <1>1, <1>3, RunnerGoes
<1>4. CASE Goto(p, "over")
      BY <1>1, <1>4, EndMove
<1>5. QED
      BY <1>2, <1>3, <1>4 DEF Generate

\* Whatever the resource did meanwhile, an analysis is stored with what it is of.
LEMMA StoredIsRight ==
    ASSUME IInv, NEW p \in Processes, proc[p].yield \in Analyses, proc[p].yield \in stored',
           kind = "scope" => proc[p].yield.of = proc[p].stamp,
           kind = "session" => proc[p].yield.of = resource.stamp,
           resource' = Stored(p, resource), kind' = kind, stored \subseteq stored'
    PROVE  resource' \in Resources /\ ShownIsStored' /\ FiledRight'
<1>1. resource \in Resources /\ proc[p].stamp \in Stamps /\ Thing(resource) \in Things
      BY ProcessParts, ThingIsStamp DEF IInv, TypeOK
<1>2. CASE ~resource.there
      <2>1. resource' = resource
            BY <1>2 DEF Stored
      <2>2. QED
            BY <1>1, <2>1, ResourceKept
<1>3. CASE resource.there /\ kind = "scope"
      <2> DEFINE f == [of |-> proc[p].stamp, analysis |-> proc[p].yield]
      <2>1. /\ resource' \in Resources /\ resource'.shown = resource.shown
            /\ resource'.filed = resource.filed \cup {f}
            <3>1. f \in [of : Stamps, analysis : Analyses]
                  BY <1>1
            <3> HIDE DEF f
            <3> DEFINE g == resource.filed \cup {f}
            <3>2. g \in SUBSET [of : Stamps, analysis : Analyses]
                  BY <1>1, <3>1 DEF Resources
            <3>3. resource' = [resource EXCEPT !.filed = g, !.shown[Thing(resource)] = @]
                  BY <1>3 DEF Stored, f
            <3> HIDE DEF g
            <3>4. resource' = [resource EXCEPT !.filed = g]
                  BY <1>1, <3>3 DEF Resources
            <3>5. resource' \in Resources /\ resource'.shown = resource.shown /\ resource'.filed = g
                  BY <1>1, <3>2, <3>4 DEF Resources
            <3>6. QED
                  BY <3>5 DEF g
      <2>2. f.of = proc[p].stamp /\ f.analysis = proc[p].yield
            OBVIOUS
      <2> HIDE DEF f
      <2>3. QED
            BY <1>3, <2>1, <2>2 DEF IInv, ShownIsStored, FiledRight
<1>4. CASE resource.there /\ kind # "scope"
      <2> DEFINE s == [resource.shown EXCEPT ![Thing(resource)] = proc[p].yield]
      <2>0. /\ s \in [Things -> Analyses \cup {None}]
            /\ \A t \in Things : s[t] = IF t = Thing(resource) THEN proc[p].yield
                                         ELSE resource.shown[t]
            BY <1>1 DEF Resources
      <2> HIDE DEF s
      <2>a. resource' = [resource EXCEPT !.filed = resource.filed, !.shown = s]
            BY <1>1, <1>4 DEF Stored, Resources, s
      <2>b. resource' \in Resources /\ resource'.filed = resource.filed /\ resource'.shown = s
            BY <1>1, <2>0, <2>a DEF Resources
      <2>1. /\ resource' \in Resources /\ resource'.filed = resource.filed
            /\ \A t \in Things : resource'.shown[t] =
                  IF t = Thing(resource) THEN proc[p].yield ELSE resource.shown[t]
            BY <2>0, <2>b
      <2>2. ShownIsStored'
            BY <2>1 DEF IInv, ShownIsStored
      <2>3. FiledRight'
            BY <2>1 DEF IInv, FiledRight, Thing
      <2>4. QED
            BY <2>1, <2>2, <2>3
<1>5. QED
      BY <1>2, <1>3, <1>4

\* The analysis of a process that stores it, and the task it is for.
LEMMA SaveKept ==
    ASSUME IInv, NEW p \in Processes, Save(p)
    PROVE  IInv'
<1>1. proc[p].pc = "save" /\ UNCHANGED <<kind, jobs, dedupe, crashes>>
      BY DEF Save
<1>2. /\ proc[p].yield \in Analyses /\ proc[p].yield.of = proc[p].stamp
      /\ proc[p].key \in Keys /\ (p \in Jobs => proc[p].at = p)
      /\ kind = "session" => proc[p].stamp = proc[p].key.thing
      /\ p \notin Jobs => p \in Clients
      BY <1>1, ProcessParts DEF Fit, Asleeps, Processes
<1>3. CASE CanStore(p, resource)
      <2> DEFINE stage == IF kind = "standup" THEN "digest" ELSE Finished(p)
      <2>1. /\ resource' = Stored(p, resource) /\ stored' = stored \cup {proc[p].yield}
            /\ Goto(p, stage)
            BY <1>3 DEF Save
      <2>2. stored \subseteq stored' /\ proc[p].yield \in stored'
            BY <2>1
      <2>3. kind = "session" => proc[p].yield.of = resource.stamp
            BY <1>2, <1>3 DEF CanStore, Thing
      <2>4. resource' \in Resources /\ ShownIsStored' /\ FiledRight'
            BY <1>1, <1>2, <2>1, <2>2, <2>3, StoredIsRight
      <2>5. PICK l \in Locals : Fit(p, l, kind, stored') /\ Moves(p, l)
            <3>1. CASE stage = "over"
                  <4>1. /\ Asleep("over") \in Locals /\ Asleep("over").pc = "over"
                        /\ Fit(p, Asleep("over"), kind, stored')
                        BY AsleepFits
                  <4>2. Moves(p, Asleep("over"))
                        BY <1>1, <2>1, <3>1, <4>1 DEF Moves, Goto, Become
                  <4>3. QED
                        BY <4>1, <4>2
            <3>2. CASE stage # "over"
                  <4> DEFINE l == [proc[p] EXCEPT !.pc = stage]
                  <4>1. /\ (stage = "digest" /\ kind = "standup") \/ (stage = "done" /\ p \in Jobs)
                        /\ stage \in RequestStages \cup RunnerStages
                        BY <3>2 DEF Finished, RequestStages, RunnerStages
                  <4> HIDE DEF stage
                  <4>2. /\ l \in Locals /\ l.pc = stage /\ l.yield = proc[p].yield
                        /\ l.key = proc[p].key /\ l.stamp = proc[p].stamp /\ l.at = proc[p].at
                        BY <4>1, ProcessParts DEF Locals
                  <4>3. Fit(p, l, kind, stored')
                        <5> HIDE DEF l
                        <5>1. QED
                              BY <1>2, <2>2, <4>1, <4>2
                              DEF Fit, Asleeps, Holding, RequestStages, RunnerStages
                  <4>4. Moves(p, l)
                        BY <1>1, <2>1, <4>1, <4>2 DEF Moves, Goto, Become
                  <4>5. QED
                        BY <4>2, <4>3, <4>4
            <3>3. QED
                  BY <3>1, <3>2
      <2>6. /\ proc' \in [Processes -> Locals] /\ ProcessesFit' /\ Handed'
            /\ \A j \in Jobs : proc[j].pc \in Resting => proc'[j].pc \in Resting
            BY <1>1, <2>2, <2>5, OneMoves
      <2>7. DoneAtEnd' /\ ResultIffDone' /\ DoneIsStored'
            BY <1>1, <2>2, <2>6, JobsKept
      <2>8. stored' \subseteq Analyses
            BY <1>2, <2>1 DEF IInv, TypeOK
      <2>9. QED
            BY <1>1, <2>4, <2>6, <2>7, <2>8 DEF IInv, TypeOK
<1>4. CASE ~CanStore(p, resource)
      <2>1. /\ UNCHANGED <<kind, resource, jobs, dedupe, stored, crashes>>
            /\ dedupe' \in [Keys -> Jobs \cup {None}] /\ crashes' \in Nat
            /\ Goto(p, IF p \in Jobs THEN "failed" ELSE "over")
            BY <1>4 DEF Save, IInv, TypeOK
      <2>2. CASE p \in Jobs
            BY <1>1, <2>1, <2>2, RunnerGoes
      <2>3. CASE p \notin Jobs
            BY <1>1, <2>1, <2>3, EndMove
      <2>4. QED
            BY <2>2, <2>3
<1>5. QED
      BY <1>3, <1>4

\* A process that has stored its analysis finishes, or marks it sent.
LEMMA AfterSave ==
    ASSUME IInv, NEW p \in Processes, NEW stage \in {"mark", Finished(p)}, Goto(p, stage),
           proc[p].pc \in {"digest", "mark"}
    PROVE  \E l \in Locals : Fit(p, l, kind, stored) /\ Moves(p, l)
<1>1. /\ kind = "standup" /\ proc[p].yield \in stored /\ proc[p].key \in Keys
      /\ p \in Jobs => proc[p].at = p
      BY ProcessParts DEF Fit, Asleeps
<1>2. CASE stage = "over"
      <2>1. /\ Asleep("over") \in Locals /\ Asleep("over").pc = "over"
            /\ Fit(p, Asleep("over"), kind, stored)
            BY AsleepFits
      <2>2. Moves(p, Asleep("over"))
            BY <1>2, <2>1 DEF Moves, Goto, Become
      <2>3. QED
            BY <2>1, <2>2
<1>3. CASE stage # "over"
      <2> DEFINE l == [proc[p] EXCEPT !.pc = stage]
      <2>1. /\ stage = "mark" \/ (stage = "done" /\ p \in Jobs)
            /\ stage \in RequestStages \cup RunnerStages
            BY <1>3 DEF Finished, RequestStages, RunnerStages
      <2>2. /\ l \in Locals /\ l.pc = stage /\ l.yield = proc[p].yield
            /\ l.key = proc[p].key /\ l.stamp = proc[p].stamp /\ l.at = proc[p].at
            BY <2>1, ProcessParts DEF Locals
      <2>3. Moves(p, l)
            BY <2>1, <2>2 DEF Moves, Goto, Become
      <2> HIDE DEF l
      <2>4. Fit(p, l, kind, stored)
            BY <1>1, <2>1, <2>2 DEF Fit, Asleeps, Holding, RequestStages, RunnerStages
      <2>5. QED
            BY <2>2, <2>3, <2>4
<1>4. QED
      BY <1>2, <1>3

LEMMA DigestKept ==
    ASSUME IInv, NEW p \in Processes, Digest(p)
    PROVE  IInv'
<1>1. PICK stage \in {"mark", Finished(p)} : Goto(p, stage)
      BY DEF Digest
<1>2. PICK l \in Locals : Fit(p, l, kind, stored) /\ Moves(p, l)
      BY <1>1, AfterSave DEF Digest
<1>3. /\ UNCHANGED <<kind, resource, jobs, stored>> /\ crashes' \in Nat
      /\ dedupe' \in [Keys -> Jobs \cup {None}]
      BY DEF Digest, IInv, TypeOK
<1>4. QED
      BY <1>2, <1>3, QuietMove

LEMMA MarkSentKept ==
    ASSUME IInv, NEW p \in Processes, MarkSent(p)
    PROVE  IInv'
<1>1. /\ proc[p].pc = "mark" /\ UNCHANGED <<kind, jobs, dedupe, stored, crashes>>
      /\ resource' = Stored(p, resource) /\ Goto(p, Finished(p))
      BY DEF MarkSent
<1>2. kind = "standup" /\ proc[p].yield \in stored /\ proc[p].yield \in Analyses
      BY <1>1, ProcessParts DEF Fit, IInv, TypeOK
<1>3. PICK l \in Locals : Fit(p, l, kind, stored) /\ Moves(p, l)
      BY <1>1, AfterSave
<1>4. stored \subseteq stored' /\ Fit(p, l, kind, stored') /\ proc[p].yield \in stored'
      BY <1>1, <1>2, <1>3
<1>5. /\ proc' \in [Processes -> Locals] /\ ProcessesFit' /\ Handed'
      /\ \A j \in Jobs : proc[j].pc \in Resting => proc'[j].pc \in Resting
      BY <1>1, <1>3, <1>4, OneMoves
<1>6. resource' \in Resources /\ ShownIsStored' /\ FiledRight'
      BY <1>1, <1>2, <1>4, StoredIsRight
<1>7. DoneAtEnd' /\ ResultIffDone' /\ DoneIsStored'
      BY <1>1, <1>4, <1>5, JobsKept
<1>8. QED
      BY <1>1, <1>5, <1>6, <1>7 DEF IInv, TypeOK

LEMMA CrashKept ==
    ASSUME IInv, NEW p \in Processes, Crash(p)
    PROVE  IInv'
<1>1. /\ UNCHANGED <<kind, resource, jobs, dedupe, stored>> /\ crashes' \in Nat
      /\ Goto(p, "over") /\ dedupe' \in [Keys -> Jobs \cup {None}]
      /\ proc[p].pc \notin {"over", "created"}
      BY DEF Crash, IInv, TypeOK
<1>2. QED
      BY <1>1, EndMove

-----------------------------------------------------------------------------
(* What else happens.                                                      *)

\* The processes stay where they are.
LEMMA NobodyMoves ==
    ASSUME IInv, UNCHANGED <<kind, proc, stored>>
    PROVE  ProcessesFit' /\ Handed'
BY DEF IInv, ProcessesFit, Handed

LEMMA ResourceStepKept ==
    ASSUME IInv, MoveOn \/ Delete
    PROVE  IInv'
<1>1. UNCHANGED <<kind, jobs, dedupe, proc, stored, crashes>>
      BY DEF MoveOn, Delete
<1>2. /\ resource' \in Resources /\ resource'.filed = resource.filed
      /\ resource'.shown = resource.shown
      <2>1. resource \in Resources
            BY DEF IInv, TypeOK
      <2>2. ASSUME resource.stamp < MaxStamp PROVE resource.stamp + 1 \in Stamps
            BY <2>1, <2>2, AiJobsAssumption DEF Resources, Stamps
      <2>3. CASE MoveOn
            BY <2>1, <2>2, <2>3 DEF MoveOn, Resources
      <2>4. CASE Delete
            BY <2>1, <2>4 DEF Delete, Resources
      <2>5. QED
            BY <2>3, <2>4
<1>3. ShownIsStored' /\ FiledRight'
      BY <1>1, <1>2, TouchedResource
<1>4. DoneAtEnd' /\ ResultIffDone' /\ DoneIsStored' /\ ProcessesFit' /\ Handed'
      BY <1>1, JobsKept, NobodyMoves
<1>5. QED
      BY <1>1, <1>2, <1>3, <1>4 DEF IInv, TypeOK

\* Redis ages and expires documents and keys.
LEMMA ExpiryKept ==
    ASSUME IInv,
           \/ \E j \in Jobs : Age(j) \/ Expire(j)
           \/ \E k \in Keys : ExpireDedupe(k)
    PROVE  IInv'
<1>1. UNCHANGED <<kind, resource, proc, stored, crashes>>
      BY DEF Age, Expire, ExpireDedupe
<1>2. ProcessesFit' /\ Handed' /\ ShownIsStored' /\ FiledRight'
      BY <1>1, NobodyMoves, ResourceKept
<1>3. ASSUME NEW j \in Jobs, Age(j)
      PROVE  IInv'
      <2>1. jobs[j] \in Documents /\ jobs[j].status \in {"queued", "running"}
            BY <1>3 DEF Age, Active, IInv, TypeOK
      <2> DEFINE d == [jobs[j] EXCEPT !.old = TRUE]
      <2>2. d \in Documents /\ d.status = jobs[j].status /\ d.result = jobs[j].result
            BY <2>1 DEF Documents
      <2>3. jobs' = [jobs EXCEPT ![j] = d]
            BY <1>3 DEF Age, IInv, TypeOK
      <2> HIDE DEF d
      <2>4. /\ jobs' \in [Jobs -> Documents \cup {None}]
            /\ \A i \in Jobs : jobs'[i] = IF i = j THEN d ELSE jobs[i]
            BY <2>2, <2>3 DEF IInv, TypeOK
      <2>5. jobs[j] # None
            BY <1>3 DEF Age, Active
      <2>6. DoneAtEnd' /\ ResultIffDone' /\ DoneIsStored'
            BY <1>1, <2>1, <2>2, <2>4, <2>5 DEF IInv, DoneAtEnd, ResultIffDone, DoneIsStored
      <2>7. QED
            BY <1>1, <1>2, <1>3, <2>4, <2>6 DEF IInv, TypeOK, Age
<1>4. ASSUME NEW j \in Jobs, Expire(j)
      PROVE  IInv'
      <2>1. /\ jobs' \in [Jobs -> Documents \cup {None}]
            /\ \A i \in Jobs : jobs'[i] = IF i = j THEN None ELSE jobs[i]
            BY <1>4 DEF Expire, IInv, TypeOK
      <2>2. DoneAtEnd' /\ ResultIffDone' /\ DoneIsStored'
            BY <1>1, <2>1 DEF IInv, DoneAtEnd, ResultIffDone, DoneIsStored
      <2>3. QED
            BY <1>1, <1>2, <1>4, <2>1, <2>2 DEF IInv, TypeOK, Expire
<1>5. ASSUME NEW k \in Keys, ExpireDedupe(k)
      PROVE  IInv'
      <2>1. jobs' = jobs /\ dedupe' \in [Keys -> Jobs \cup {None}]
            BY <1>5 DEF ExpireDedupe, IInv, TypeOK
      <2>2. DoneAtEnd' /\ ResultIffDone' /\ DoneIsStored'
            BY <1>1, <2>1, JobsKept
      <2>3. QED
            BY <1>1, <1>2, <2>1, <2>2 DEF IInv, TypeOK
<1>6. QED
      BY <1>3, <1>4, <1>5

-----------------------------------------------------------------------------
(* Theorems.                                                               *)

LEMMA InitKept == Init => IInv
<1> SUFFICES ASSUME Init PROVE IInv
    OBVIOUS
<1>1. 0 \in Stamps /\ 0 \in Things
      BY AiJobsAssumption DEF Stamps, Things
<1>2. resource \in Resources /\ resource.filed = {} /\ \A t \in Things : resource.shown[t] = None
      BY <1>1 DEF Init, Resources
<1>3. /\ jobs \in [Jobs -> Documents \cup {None}] /\ \A j \in Jobs : jobs[j] = None
      /\ dedupe \in [Keys -> Jobs \cup {None}] /\ stored \subseteq Analyses /\ crashes \in Nat
      BY DEF Init
<1>4. \A stage \in {"unused", "idle"} : Asleep(stage) \in Locals /\ Asleep(stage).pc = stage
      BY <1>1 DEF Asleep, Locals, RequestStages, RunnerStages
<1>5. /\ proc \in [Processes -> Locals]
      /\ \A p \in Processes : proc[p].pc = IF p \in Jobs THEN "unused" ELSE "idle"
      BY <1>4 DEF Init
<1>6. ProcessesFit
      BY <1>5 DEF ProcessesFit, Fit, Asleeps, Holding, RequestStages, RunnerStages
<1>7. Handed
      BY <1>5, AiJobsAssumption DEF Handed, Processes
<1>8. DoneAtEnd /\ ShownIsStored /\ FiledRight /\ ResultIffDone /\ DoneIsStored
      BY <1>2, <1>3 DEF DoneAtEnd, ShownIsStored, FiledRight, ResultIffDone, DoneIsStored
<1>9. kind \in Kinds
      BY DEF Init
<1>10. QED
      BY <1>2, <1>3, <1>5, <1>6, <1>7, <1>8, <1>9 DEF IInv, TypeOK

\* What any process does.
LEMMA ProcessStepKept ==
    ASSUME IInv, NEW p \in Processes,
           \/ UpdateRead(p) \/ UpdateWrite(p) \/ Release(p)
           \/ Generate(p) \/ Save(p) \/ Digest(p) \/ MarkSent(p) \/ Crash(p)
    PROVE  IInv'
BY ReadKept, WriteKept, ReleaseKept, GenerateKept, SaveKept, DigestKept, MarkSentKept, CrashKept

LEMMA NextKept ==
    ASSUME IInv, [Next]_vars
    PROVE  IInv'
<1>1. CASE UNCHANGED vars
      <2>1. UNCHANGED <<kind, resource, jobs, dedupe, proc, stored, crashes>>
            BY <1>1 DEF vars
      <2>2. ProcessesFit' /\ Handed' /\ ShownIsStored' /\ FiledRight'
            BY <2>1, NobodyMoves, ResourceKept
      <2>3. DoneAtEnd' /\ ResultIffDone' /\ DoneIsStored'
            BY <2>1, JobsKept
      <2>4. QED
            BY <2>1, <2>2, <2>3 DEF IInv, TypeOK
<1>2. ASSUME NEW c \in Clients,
             \/ AnalyzeBoard(c) \/ AnalyzeRetro(c) \/ AnalyzeStandup(c)
             \/ AnalyzeTask(c) \/ Publish(c)
      PROVE  IInv'
      <2>1. CASE Publish(c)
            BY <2>1, PublishKept
      <2>2. CASE \E refresh \in BOOLEAN : Ask(c, refresh)
            BY <2>2, AskKept
      <2>3. QED
            BY <1>2, <2>1, <2>2 DEF AnalyzeBoard, AnalyzeRetro, AnalyzeStandup, AnalyzeTask
<1>3. ASSUME NEW c \in Clients,
             \/ Look(c) \/ Check(c) \/ Create(c) \/ Point(c) \/ Spawn(c)
             \/ PollBoard(c) \/ PollRetro(c) \/ PollStandup(c) \/ PollTask(c) \/ Drop(c)
      PROVE  IInv'
      <2>1. CASE Poll(c) \/ PollStale(c)
            BY <2>1, PollsKept
      <2>2. CASE Look(c) \/ Check(c) \/ Create(c) \/ Point(c) \/ Spawn(c) \/ Drop(c)
            BY <2>2, LookKept, CheckKept, CreateKept, PointKept, SpawnKept, DropKept
      <2>3. QED
            BY <1>3, <2>1, <2>2 DEF PollBoard, PollRetro, PollStandup, PollTask
<1>4. ASSUME NEW c \in Clients, Answer(c)
      PROVE  IInv'
      BY <1>4, ProcessStepKept DEF Answer, RunJob, Processes
<1>5. ASSUME NEW j \in Jobs, Run(j)
      PROVE  IInv'
      <2>1. CASE Build(j)
            BY <2>1, BuildKept
      <2>2. CASE Repair(j)
            BY <2>2, RepairKept
      <2>3. CASE RunJob(j) \/ Generate(j) \/ Save(j) \/ Digest(j) \/ MarkSent(j)
            BY <2>3, ProcessStepKept DEF RunJob, Processes
      <2>4. QED
            BY <1>5, <2>1, <2>2, <2>3 DEF Run, RunBoardJob, RunRetroJob, RunTaskJob, RunStandupJob
<1>6. ASSUME NEW p \in Processes, Crash(p)
      PROVE  IInv'
      BY <1>6, CrashKept
<1>7. CASE \/ \E j \in Jobs : Age(j) \/ Expire(j)
           \/ \E k \in Keys : ExpireDedupe(k)
      BY <1>7, ExpiryKept
<1>8. CASE MoveOn \/ Delete
      BY <1>8, ResourceStepKept
<1>9. QED
      BY <1>1, <1>2, <1>3, <1>4, <1>5, <1>6, <1>7, <1>8, Zenon DEF Next

\* Between its commands a process keeps what makes its next one right: its own
\* job, the task its key is for, and an analysis that is stored before the job
\* is called done.
THEOREM JobsInductive == Spec => []IInv
BY InitKept, NextKept, PTL DEF Spec

\* However the resource moves on while models are at work, an analysis is found
\* only under the snapshot or the task it was generated from.
THEOREM AnalysesAreFiledRight == Spec => []FiledRight
<1>1. IInv => FiledRight
      BY DEF IInv
<1>2. QED
      BY <1>1, JobsInductive, PTL

\* Whoever reads a document in one command and writes it back in another, a
\* result is found exactly in a job that is done.
THEOREM ResultsAreOfDoneJobs == Spec => []ResultIffDone
<1>1. IInv => ResultIffDone
      BY DEF IInv
<1>2. QED
      BY <1>1, JobsInductive, PTL

\* A job is called done only after its analysis has been stored.
THEOREM DoneJobsAreStored == Spec => []DoneIsStored
<1>1. IInv => DoneIsStored
      BY DEF IInv
<1>2. QED
      BY <1>1, JobsInductive, PTL
=============================================================================
