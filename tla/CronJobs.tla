------------------------------ MODULE CronJobs ------------------------------
(***************************************************************************)
(* One cron job: its CronJob row, the repeatable schedule BullMQ keeps for *)
(* it in Redis, its runs, and the processes that keep them together:       *)
(*                                                                         *)
(*   requests       create, patch, delete and trigger the job, and add a   *)
(*                  job to the cron queue afterwards (routes/cron.ts);     *)
(*   control jobs   register the schedule of the row or tear it down       *)
(*                  (reconcileScheduler in worker/src/processors/cron.ts); *)
(*   fire jobs      start a run on the node (fireCronRun);                 *)
(*   result         handlers close the run and roll the row forward        *)
(*                  (applyCronRunResult in command-result.service.ts).     *)
(*                                                                         *)
(* The control jobs of a cron job share one job id, and BullMQ ignores a   *)
(* job whose id it still knows; it knows the last 200 that ended.          *)
(* Commands are executed as CommandDelivery promises: at most once, and    *)
(* the report may be lost, late or repeated.                               *)
(***************************************************************************)
EXTENDS Integers, FiniteSets

CONSTANTS
    Requests,       \* requests to the API
    Runs,           \* firings, and the CronRun rows they create
    Shared,         \* the job id `cron-<id>`
    Ends,           \* how a run may end
    MaxFaults       \* bound on crashes, failed statements, repeated reports

ASSUME SharedAssumption == Shared \notin Requests
ASSUME EndsAssumption == Ends \subseteq {"success", "failed", "timeout"}
ASSUME FaultAssumption == MaxFaults \in Nat

VARIABLES
    \* the CronJob row
    status,      \* "none" before it exists
    schedule,    \* the pattern, as the number of times it was set
    deleted,     \* deletedAt is set
    \* requests
    request,     \* request[q]: what q found the row for, or has still to do
    \* the cron queue
    control,     \* control[j]: the control job with id j
    found,       \* found[j]: the schedule it is about to register, 0 for none
    scheduled,   \* the schedule registered in Redis, 0 for none
    fire,        \* fire[r]: where the fire job of r stands
    \* CronRun rows and the node
    run,         \* run[r]: status of the row
    commanded,   \* commanded[r]: the RUN_JOB command exists
    outcome,     \* outcome[r]: how the container of r ended (history)
    \* result handlers
    result,      \* result[r]: where the handler of the report of r stands
    keep,        \* keep[r]: it found the job paused
    \* history and bounds
    strayed,     \* something that may part the schedule from the row has happened
    overtaken,   \* a result handler had looked at the row before the fire job of its run set it
    faults

rowVars    == <<status, schedule, deleted>>
queueVars  == <<control, found, scheduled>>
runVars    == <<run, commanded, outcome>>
resultVars == <<result, keep, overtaken>>
vars == <<rowVars, request, queueVars, fire, runVars, resultVars, strayed, faults>>

\* A triggered run is added under an id of its own.
Controls == Requests \union {Shared}

Fault == faults < MaxFaults /\ faults' = faults + 1

-----------------------------------------------------------------------------
Init ==
    /\ status = "none"
    /\ schedule = 0
    /\ deleted = FALSE
    /\ request = [q \in Requests |-> "idle"]
    /\ control = [j \in Controls |-> "unknown"]
    /\ found = [j \in Controls |-> 0]
    /\ scheduled = 0
    /\ fire = [r \in Runs |-> "idle"]
    /\ run = [r \in Runs |-> "none"]
    /\ commanded = [r \in Runs |-> FALSE]
    /\ outcome = [r \in Runs |-> "none"]
    /\ result = [r \in Runs |-> "idle"]
    /\ keep = [r \in Runs |-> FALSE]
    /\ strayed = FALSE
    /\ overtaken = FALSE
    /\ faults = 0

-----------------------------------------------------------------------------
(* Requests *)

Goto(q, from, to) ==
    /\ request[q] = from
    /\ request' = [request EXCEPT ![q] = to]
    /\ UNCHANGED <<queueVars, fire, runVars, resultVars, faults>>

Create(q) ==
    /\ status = "none"
    /\ Goto(q, "idle", "enqueue")
    /\ status' = "active"
    /\ schedule' = 1
    /\ UNCHANGED <<deleted, strayed>>

\* cronWithWorkspace: the row exists and is not deleted.
Find(q) ==
    /\ status /= "none" /\ ~deleted
    /\ \E what \in {"patch", "delete", "trigger"} : Goto(q, "idle", what)
    /\ UNCHANGED <<rowVars, strayed>>

\* A new schedule or the same, and a pause, a resumption or neither.
Patch(q) ==
    /\ Goto(q, "patch", "enqueue")
    /\ schedule' \in {schedule, schedule + 1}
    /\ status' \in {status, "paused", "active"}
    /\ UNCHANGED <<deleted, strayed>>

\* Mutant: the worker is not asked to drop the schedule.
DeleteOnly(q) ==
    /\ Goto(q, "delete", "done")
    /\ deleted' = TRUE
    /\ status' = "paused"
    /\ UNCHANGED <<schedule, strayed>>

Delete(q) ==
    /\ Goto(q, "delete", "enqueue")
    /\ deleted' = TRUE
    /\ status' = "paused"
    /\ UNCHANGED <<schedule, strayed>>

\* queues.cron.add after the write, under the shared id.
Enqueue(q) ==
    /\ request[q] = "enqueue"
    /\ request' = [request EXCEPT ![q] = "done"]
    /\ IF control[Shared] = "unknown"
       THEN control' = [control EXCEPT ![Shared] = "waiting"] /\ UNCHANGED strayed
       ELSE strayed' = TRUE /\ UNCHANGED control
    /\ UNCHANGED <<rowVars, found, scheduled, fire, runVars, resultVars, faults>>

\* "Run now": the data of the job is the same as that of a control job.
Trigger(q) ==
    /\ request[q] = "trigger"
    /\ request' = [request EXCEPT ![q] = "done"]
    /\ control' = [control EXCEPT ![q] = "waiting"]
    /\ UNCHANGED <<rowVars, found, scheduled, fire, runVars, resultVars, strayed, faults>>

RequestDies(q) ==
    /\ request[q] \notin {"idle", "done"}
    /\ Fault
    /\ request' = [request EXCEPT ![q] = "done"]
    /\ UNCHANGED <<rowVars, queueVars, fire, runVars, resultVars, strayed>>

-----------------------------------------------------------------------------
(* Control jobs: reconcileScheduler *)

\* Mutant: a paused job keeps its schedule.
ControlReadPaused(j) ==
    /\ control[j] = "waiting"
    /\ control' = [control EXCEPT ![j] = "decided"]
    /\ found' = [found EXCEPT ![j] = IF deleted THEN 0 ELSE schedule]
    /\ strayed' = (strayed \/ status = "running" \/ \E k \in Controls : control[k] = "decided")
    /\ UNCHANGED <<rowVars, request, scheduled, fire, runVars, resultVars, faults>>

\* findUnique.  A job whose run is under way is `running`, not `active`, and
\* loses its schedule.  Of two control jobs that overlap, the one that read
\* first may write last.
ControlRead(j) ==
    /\ control[j] = "waiting"
    /\ control' = [control EXCEPT ![j] = "decided"]
    /\ found' = [found EXCEPT ![j] = IF status = "active" /\ ~deleted THEN schedule ELSE 0]
    /\ strayed' = (strayed \/ status = "running" \/ \E k \in Controls : control[k] = "decided")
    /\ UNCHANGED <<rowVars, request, scheduled, fire, runVars, resultVars, faults>>

\* The schedule is registered, or the scheduler removed; the job is kept.
ControlApply(j) ==
    /\ control[j] = "decided"
    /\ control' = [control EXCEPT ![j] = "kept"]
    /\ scheduled' = found[j]
    /\ found' = [found EXCEPT ![j] = 0]
    /\ UNCHANGED <<rowVars, request, fire, runVars, resultVars, strayed, faults>>

\* Two hundred others have ended since.
Forget(j) ==
    /\ control[j] = "kept"
    /\ control' = [control EXCEPT ![j] = "unknown"]
    /\ UNCHANGED <<rowVars, request, found, scheduled, fire, runVars, resultVars, strayed, faults>>

\* The job fails, and is kept as well, or stalls and starts over.
ControlFails(j) ==
    /\ control[j] \in {"waiting", "decided"}
    /\ Fault
    /\ \E c \in {"waiting", "kept"} : control' = [control EXCEPT ![j] = c]
    /\ found' = [found EXCEPT ![j] = 0]
    /\ UNCHANGED <<rowVars, request, scheduled, fire, runVars, resultVars, strayed>>

-----------------------------------------------------------------------------
(* Fire jobs: fireCronRun *)

Advance(r, from, to) ==
    /\ fire[r] = from
    /\ fire' = [fire EXCEPT ![r] = to]
    /\ UNCHANGED <<request, queueVars, result, keep>>

\* The schedule triggers.
Due(r) ==
    /\ scheduled /= 0
    /\ Advance(r, "idle", "due")
    /\ UNCHANGED <<rowVars, runVars, overtaken, strayed, faults>>

\* Mutant: only the status is looked at, and a deleted job may have one again.
FireReadStatus(r) ==
    /\ \E next \in {"create", "ended"} :
          /\ (next = "ended") <=> (status = "paused")
          /\ Advance(r, "due", next)
    /\ UNCHANGED <<rowVars, runVars, overtaken, strayed, faults>>

\* findUnique: a deleted or paused job does not run.
FireRead(r) ==
    /\ \E next \in {"create", "ended"} :
          /\ (next = "ended") <=> (deleted \/ status = "paused")
          /\ Advance(r, "due", next)
    /\ UNCHANGED <<rowVars, runVars, overtaken, strayed, faults>>

FireCreate(r) ==
    /\ Advance(r, "create", "dispatch")
    /\ run' = [run EXCEPT ![r] = "running"]
    /\ UNCHANGED <<rowVars, commanded, outcome, overtaken, strayed, faults>>

\* createSignedCommand: the node may execute it from now on.
FireDispatch(r) ==
    /\ Advance(r, "dispatch", "mark")
    /\ commanded' = [commanded EXCEPT ![r] = TRUE]
    /\ UNCHANGED <<rowVars, run, outcome, overtaken, strayed, faults>>

\* The row is running, whatever became of it and of the run meanwhile: a pause
\* is overwritten too.
FireMark(r) ==
    /\ Advance(r, "mark", "ended")
    /\ status' = "running"
    /\ overtaken' = (overtaken \/ (outcome[r] /= "none" /\ result[r] \in {"roll", "idle"}))
    /\ strayed' = (strayed \/ status = "paused")
    /\ UNCHANGED <<schedule, deleted, runVars, faults>>

\* A statement fails and the job with it, or the job stalls and another worker
\* fires it again, which is another run.
FireFails(r) ==
    /\ fire[r] \in {"due", "create", "dispatch", "mark"}
    /\ Fault
    /\ \/ fire' = [fire EXCEPT ![r] = "ended"]
       \/ \E s \in Runs : fire[s] = "idle" /\ fire' = [fire EXCEPT ![r] = "ended", ![s] = "due"]
    /\ UNCHANGED <<rowVars, request, queueVars, runVars, resultVars, strayed>>

-----------------------------------------------------------------------------
(* The node, and the reports of how a run ended. One whose command the agent got
   unsigned, and refused, ends as one that failed. *)

Finish(r, o) ==
    /\ commanded[r] /\ outcome[r] = "none"
    /\ outcome' = [outcome EXCEPT ![r] = o]
    /\ result' = [result EXCEPT ![r] = "close"]
    /\ UNCHANGED <<rowVars, request, queueVars, fire, run, commanded, keep, overtaken, strayed,
                   faults>>

\* The report is lost with the agent.
FinishUnheard(r, o) ==
    /\ commanded[r] /\ outcome[r] = "none"
    /\ Fault
    /\ outcome' = [outcome EXCEPT ![r] = o]
    /\ UNCHANGED <<rowVars, request, queueVars, fire, run, commanded, resultVars, strayed>>

\* A copy of a report that the agent thought unanswered.
ReportAgain(r) ==
    /\ outcome[r] /= "none" /\ result[r] = "idle"
    /\ Fault
    /\ result' = [result EXCEPT ![r] = "close"]
    /\ UNCHANGED <<rowVars, request, queueVars, fire, runVars, keep, overtaken, strayed>>

-----------------------------------------------------------------------------
(* Result handlers: applyCronRunResult *)

Handle(r, from, to) ==
    /\ result[r] = from
    /\ result' = [result EXCEPT ![r] = to]
    /\ UNCHANGED <<request, queueVars, fire, commanded, outcome, faults>>

\* Mutant: cronRunStatus takes what did not fail for a success.
ResultCloseTwo(r) ==
    /\ Handle(r, "close", "look")
    /\ run' = [run EXCEPT ![r] = IF outcome[r] = "failed" THEN "failed" ELSE "success"]
    /\ UNCHANGED <<rowVars, keep, overtaken, strayed>>

\* upsert of the run.
ResultClose(r) ==
    /\ Handle(r, "close", "look")
    /\ run' = [run EXCEPT ![r] = outcome[r]]
    /\ UNCHANGED <<rowVars, keep, overtaken, strayed>>

ResultLook(r) ==
    /\ Handle(r, "look", "roll")
    /\ keep' = [keep EXCEPT ![r] = (status = "paused")]
    /\ UNCHANGED <<rowVars, run, overtaken, strayed>>

\* Mutant: the summary is rolled forward, the status is left to the worker.
ResultRollSummary(r) ==
    /\ Handle(r, "roll", "idle")
    /\ keep' = [keep EXCEPT ![r] = FALSE]
    /\ UNCHANGED <<rowVars, run, overtaken, strayed>>

\* Mutant: the job fails with its run.
ResultRollFailed(r) ==
    /\ Handle(r, "roll", "idle")
    /\ status' = IF keep[r] THEN status ELSE IF run[r] = "success" THEN "active" ELSE "failed"
    /\ strayed' = (strayed \/ (status = "paused" /\ ~keep[r]))
    /\ keep' = [keep EXCEPT ![r] = FALSE]
    /\ UNCHANGED <<schedule, deleted, run, overtaken>>

\* updateMany: active again, unless it was found paused; a pause since then is
\* overwritten.
ResultRoll(r) ==
    /\ Handle(r, "roll", "idle")
    /\ status' = IF keep[r] THEN status ELSE "active"
    /\ strayed' = (strayed \/ (status = "paused" /\ ~keep[r]))
    /\ keep' = [keep EXCEPT ![r] = FALSE]
    /\ UNCHANGED <<schedule, deleted, run, overtaken>>

\* The agent is not answered and reports again.
ResultDies(r) ==
    /\ result[r] /= "idle"
    /\ Fault
    /\ result' = [result EXCEPT ![r] = "close"]
    /\ keep' = [keep EXCEPT ![r] = FALSE]
    /\ UNCHANGED <<rowVars, request, queueVars, fire, runVars, overtaken, strayed>>

-----------------------------------------------------------------------------
RequestStep(q) == Patch(q) \/ Delete(q) \/ Enqueue(q) \/ Trigger(q)

ControlStep(j) == ControlRead(j) \/ ControlApply(j)

FireStep(r) == FireRead(r) \/ FireCreate(r) \/ FireDispatch(r) \/ FireMark(r)

ResultStep(r) == ResultClose(r) \/ ResultLook(r) \/ ResultRoll(r)

Next ==
    \/ \E q \in Requests : Create(q) \/ Find(q) \/ RequestStep(q) \/ RequestDies(q)
    \/ \E j \in Controls : ControlStep(j) \/ Forget(j) \/ ControlFails(j)
    \/ \E r \in Runs :
          \/ Due(r) \/ FireStep(r) \/ FireFails(r)
          \/ \E o \in Ends : Finish(r, o) \/ FinishUnheard(r, o)
          \/ ReportAgain(r) \/ ResultStep(r) \/ ResultDies(r)

Spec == Init /\ [][Next]_vars

\* Handlers and jobs that have begun go on, and queued jobs begin.  When a
\* schedule triggers and how long a container runs is left open.
FairSpec ==
    /\ Spec
    /\ \A q \in Requests : WF_vars(RequestStep(q))
    /\ \A j \in Controls : WF_vars(ControlStep(j))
    /\ \A r \in Runs : WF_vars(FireStep(r)) /\ WF_vars(ResultStep(r))

-----------------------------------------------------------------------------
(* Properties *)

\* The row, the queue and the processes are in the states the code puts them in;
\* `failed`, which the schema allows the job too, is not among them.
TypeOK ==
    /\ status \in {"none", "active", "paused", "running"}
    /\ schedule \in Nat
    /\ deleted \in BOOLEAN
    /\ request \in [Requests -> {"idle", "patch", "delete", "trigger", "enqueue", "done"}]
    /\ control \in [Controls -> {"unknown", "waiting", "decided", "kept"}]
    /\ found \in [Controls -> Nat]
    /\ scheduled \in Nat
    /\ fire \in [Runs -> {"idle", "due", "create", "dispatch", "mark", "ended"}]
    /\ run \in [Runs -> Ends \union {"none", "running"}]
    /\ commanded \in [Runs -> BOOLEAN]
    /\ outcome \in [Runs -> Ends \union {"none"}]
    /\ result \in [Runs -> {"idle", "close", "look", "roll"}]
    /\ keep \in [Runs -> BOOLEAN]
    /\ strayed \in BOOLEAN
    /\ overtaken \in BOOLEAN
    /\ faults \in 0..MaxFaults

\* A run that is recorded as over ended that way on the node, whatever was
\* reported twice, late or never, and it was never started anew.
RunTruthful == \A r \in Runs : run[r] \in Ends => run[r] = outcome[r]

\* A run of the job is being started, executed or reported.
Busy(r) ==
    \/ fire[r] \in {"create", "dispatch", "mark"}
    \/ commanded[r] /\ outcome[r] = "none"
    \/ result[r] /= "idle"

\* The row says `running` only while a run is under way, although the fire jobs
\* and result handlers of runs that overlap write it in any order.  Two things
\* break it: something failed, or the result of a run looked at the row before
\* the fire job of this run had set it.
RunningMeansBusy ==
    status = "running" => overtaken \/ faults > 0 \/ \E r \in Runs : Busy(r)

\* No fire job is past its look at the row, and the row is deleted.
Retired == deleted /\ \A r \in Runs : fire[r] \notin {"create", "dispatch"}

\* A deleted job dispatches nothing once the fire jobs that had found it alive
\* have: a schedule that was left behind, or a result that set the row active
\* again, starts no run.
RetiredDispatchesNothing == [][Retired => Retired' /\ commanded' = commanded]_vars

\* Nobody is on the way to change the row or the schedule.
Quiet ==
    /\ \A q \in Requests : request[q] /= "enqueue"
    /\ \A j \in Controls : control[j] \notin {"waiting", "decided"}
    /\ \A r \in Runs : ~Busy(r)

\* At rest, the schedule in Redis is the one of the row: the pattern of an active
\* job, none for a job that is paused or deleted.  What breaks it, apart from a
\* failure, is one of four things: a control job was not added because its id was
\* known, found the job running, or overlapped another one, or a pause was
\* overwritten.
ScheduleFollowsRow ==
    Quiet /\ ~strayed /\ faults = 0 /\ status /= "running" =>
        scheduled = (IF status = "active" /\ ~deleted THEN schedule ELSE 0)

-----------------------------------------------------------------------------
(* What the comments and docs/API.md say, and the code does not do *)

\* "Trigger an immediate run": a request to run the job now makes it due.
TriggerFires == \A q \in Requests : request[q] = "trigger" ~> \E r \in Runs : fire[r] /= "idle"

=============================================================================
