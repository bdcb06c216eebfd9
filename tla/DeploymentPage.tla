--------------------------- MODULE DeploymentPage ---------------------------
(***************************************************************************)
(* What a user who watches a deployment sees of it, on its page or from    *)
(* the command line.                                                       *)
(*                                                                         *)
(* The deploy job (processors/deploy.ts) takes the eight stages of the run *)
(* as far as the command to the node; the reports of the node              *)
(* (command-result.service.ts) close the last three, and the safety net    *)
(* (processors/healthcheck.ts) ends a deployment that is not reported.     *)
(* They write rows and publish events to Redis, one by one; the hub hands  *)
(* an event to the pages whose stream is open (hub.ts, events.ts). The     *)
(* page reads the rows and the log once, opens its stream beside that, and *)
(* reads the rows again at every event of status (deployment-detail.tsx).  *)
(* The command `yourstack deploy` only listens, until an event says that   *)
(* the deployment has ended (cli/src/commands/deploy.ts).                  *)
(*                                                                         *)
(* Lines are numbered as they are listed; that two written at once may     *)
(* take the same number is left out, and so is all that DeploymentLifecycle*)
(* says of the app and of other deployments.                               *)
(***************************************************************************)
EXTENDS Integers, Sequences, Faults

CONSTANTS
    LogLimit,       \* lines a read of the log answers
    LiveLimit,      \* lines the page keeps beside a new one of those its stream has brought
    MaxWire         \* bound on the events on their way

ASSUME PageAssumption == LogLimit \in Nat \ {0} /\ LiveLimit \in Nat \ {0} /\ MaxWire \in Nat \ {0}

\* test, for which checkout and install are like it, build, package, deploy,
\* healthcheck, finalize
Stages == 1 .. 6
Package == 3
Deploy == 4

VARIABLES
    status,     \* Deployment.status
    run,        \* PipelineRun.status, "none" before it is created
    stages,     \* stages[i]: PipelineStage.status
    log,        \* the lines stored, by who wrote them
    wire,       \* the events published and not yet at the hub: of a status, or of a line
    worker,     \* the deploy job: where it stands, and its stage
    node,       \* the command and the handler of its reports: where, next stage, success
    net,        \* the safety net
    watcher,    \* who watches: the page or the command
    stream,     \* its event stream: "none" before it starts, "off", "on", or "closed"
    verdict,    \* the status the command ends with
    reading,    \* the page's request for the rows: where it stands, what was read still holds
    view,       \* the rows on the page: what is shown still holds
    listed,     \* the page has read the log
    logs,       \* the lines it has read
    liveLines,  \* the lines its stream has brought
    \* history
    missed,     \* an event of status passed the page by since it last read, or one of
                \* the end the command
    unheard     \* a line passed the page by

pipelineVars == <<status, run, stages, log, wire, worker, node, net>>
pageVars == <<watcher, stream, verdict, reading, view, listed, logs, liveLines, missed, unheard>>
vars == <<pipelineVars, pageVars, faults>>

Ends == {"running", "failed"}
Fresh2 == [deployment |-> TRUE, run |-> TRUE]
NoReading == [at |-> "none", read |-> Fresh2]

Init ==
    /\ status = "queued" /\ run = "none" /\ stages = [i \in Stages |-> "none"]
    /\ log = <<>> /\ wire = <<>>
    /\ worker = [at |-> "queued", stage |-> 1]
    /\ node = [at |-> "none", stage |-> Deploy, success |-> FALSE]
    /\ net = "none"
    /\ watcher \in {"page", "command"} /\ verdict = "none"
    /\ stream = "none" /\ reading = NoReading /\ view = Fresh2
    /\ listed = FALSE /\ logs = {} /\ liveLines = <<>> /\ missed = FALSE /\ unheard = FALSE
    /\ faults = 0

\* appendDeploymentLog: the row, then the event.
AppendLine(who) ==
    /\ Len(wire) < MaxWire
    /\ log' = Append(log, who)
    /\ wire' = Append(wire, <<"line", Len(log) + 1>>)

PublishStatus(s) == Len(wire) < MaxWire /\ wire' = Append(wire, <<"status", s>>)

-----------------------------------------------------------------------------
(* The deploy job, the only attempt. An error after the run was created is    *)
(* caught: the run and the deployment fail, the stages that were to come stay. *)

WorkerAt(from, to) == worker.at = from /\ worker' = to

CreateRun ==
    /\ \/ /\ WorkerAt("queued", [worker EXCEPT !.at = "created"])
          /\ run' = "running" /\ stages' = [i \in Stages |-> "pending"]
       \/ /\ WorkerAt("queued", [worker EXCEPT !.at = "fail"])     \* the app has no node
          /\ UNCHANGED <<run, stages>>
    /\ UNCHANGED <<status, log, wire, node, net, faults>>

MarkBuilding ==
    /\ WorkerAt("created", [worker EXCEPT !.at = "greet"])
    /\ status' = "building"
    /\ UNCHANGED <<run, stages, log, wire, node, net, faults>>

\* One line stands for all the job writes before the command.
Greet ==
    /\ WorkerAt("greet", [worker EXCEPT !.at = "start"])
    /\ AppendLine("worker")
    /\ UNCHANGED <<status, run, stages, node, net, faults>>

StartStage ==
    /\ WorkerAt("start", [worker EXCEPT !.at = CASE worker.stage = Package -> "store" [] worker.stage = Deploy -> "dispatch" [] OTHER -> "finish"])
    /\ stages' = [stages EXCEPT ![worker.stage] = "running"]
    /\ UNCHANGED <<status, run, log, wire, node, net, faults>>

StoreSpec ==
    /\ WorkerAt("store", [worker EXCEPT !.at = "finish"])
    /\ status' = "deploying"
    /\ UNCHANGED <<run, stages, log, wire, node, net, faults>>

\* After the tests the specification is built, which may throw.
FinishStage ==
    /\ \E next \in {"start"} \union (IF worker.stage = 1 THEN {"caught"} ELSE {}) :
        WorkerAt("finish", [at |-> next, stage |-> worker.stage + 1])
    /\ stages' = [stages EXCEPT ![worker.stage] = "succeeded"]
    /\ UNCHANGED <<status, run, log, wire, node, net, faults>>

StageFails ==
    /\ worker.at \in {"store", "finish"} /\ Fault
    /\ worker' = [worker EXCEPT !.at = "caught"]
    /\ stages' = [stages EXCEPT ![worker.stage] = "failed"]
    /\ UNCHANGED <<status, run, log, wire, node, net>>

DispatchCommand ==
    /\ WorkerAt("dispatch", [worker EXCEPT !.at = "announce"])
    /\ node' = [node EXCEPT !.at = "asked"]
    /\ UNCHANGED <<status, run, stages, log, wire, net, faults>>

AnnounceDeploy ==
    /\ WorkerAt("announce", [worker EXCEPT !.at = "schedule"])
    /\ PublishStatus("deploying")
    /\ UNCHANGED <<status, run, stages, log, node, net, faults>>

ScheduleNet ==
    /\ WorkerAt("schedule", [worker EXCEPT !.at = "done"])
    /\ net' = "waiting"
    /\ UNCHANGED <<status, run, stages, log, wire, node, faults>>

WorkerThrows ==
    /\ worker.at \in {"created", "greet", "start", "dispatch", "announce", "schedule"} /\ Fault
    /\ worker' = [worker EXCEPT !.at = IF @ \in {"created", "greet"} THEN "dead" ELSE "caught"]
    /\ UNCHANGED <<status, run, stages, log, wire, node, net>>

LogError ==
    /\ WorkerAt("caught", [worker EXCEPT !.at = "failRun"])
    /\ AppendLine("error")
    /\ UNCHANGED <<status, run, stages, node, net, faults>>

FailRun ==
    /\ WorkerAt("failRun", [worker EXCEPT !.at = "fail"])
    /\ run' = "failed"
    /\ UNCHANGED <<status, stages, log, wire, node, net, faults>>

FailDeployment ==
    /\ WorkerAt("fail", [worker EXCEPT !.at = "tell"])
    /\ status' = "failed"
    /\ UNCHANGED <<run, stages, log, wire, node, net, faults>>

TellFailure ==
    /\ WorkerAt("tell", [worker EXCEPT !.at = "failed"])
    /\ PublishStatus("failed")
    /\ UNCHANGED <<status, run, stages, log, node, net, faults>>

\* A second start of a stalled job meets the unique index of the run, and ends.
DeployJobDies ==
    /\ worker.at \notin {"queued", "done", "failed", "dead"} /\ Fault
    /\ worker' = [worker EXCEPT !.at = "dead"]
    /\ UNCHANGED <<status, run, stages, log, wire, node, net>>

-----------------------------------------------------------------------------
(* The node and the handlers of what it sends *)

NodeAt(from, to) == node.at = from /\ node' = to

ReportRunning ==
    /\ NodeAt("asked", [node EXCEPT !.at = "started"])
    /\ status' = "deploying"
    /\ UNCHANGED <<run, stages, log, wire, worker, net, faults>>

PublishRunning ==
    /\ NodeAt("started", [node EXCEPT !.at = "building"])
    /\ PublishStatus("deploying")
    /\ UNCHANGED <<status, run, stages, log, worker, net, faults>>

\* The agent gives this report up, and works all the same.
GiveUpRunning ==
    /\ node.at \in {"asked", "started"} /\ Fault
    /\ node' = [node EXCEPT !.at = "building"]
    /\ UNCHANGED <<status, run, stages, log, wire, worker, net>>

\* Once the image is there its lines are sent, which one stands for. A batch whose
\* answer is lost is sent again, and stored again.
PostLogs ==
    /\ \/ NodeAt("building", [node EXCEPT !.at = "built"]) /\ UNCHANGED faults
       \/ NodeAt("building", node) /\ Fault
    /\ AppendLine("node")
    /\ UNCHANGED <<status, run, stages, worker, net>>

\* Without an image there is nothing but the failure.
ReportResult ==
    /\ \/ /\ NodeAt("built", [node EXCEPT !.at = "close", !.success = TRUE])
          /\ status' = "running"
       \/ /\ node.at \in {"building", "built"} /\ node' = [node EXCEPT !.at = "explain"]
          /\ status' = "failed"
    /\ UNCHANGED <<run, stages, log, wire, worker, net, faults>>

\* The line that says why has a number after all others, and is not published.
LogFailure ==
    /\ NodeAt("explain", [node EXCEPT !.at = "close"])
    /\ log' = Append(log, "failure")
    /\ UNCHANGED <<status, run, stages, wire, worker, net, faults>>

CloseStage ==
    /\ NodeAt("close", [node EXCEPT !.stage = @ + 1])
    /\ node.stage \in Stages
    /\ stages' = [stages EXCEPT ![node.stage] =
                    IF node.success THEN "succeeded" ELSE IF node.stage = Deploy THEN "failed" ELSE "skipped"]
    /\ UNCHANGED <<status, run, log, wire, worker, net, faults>>

CloseRun ==
    /\ node.stage \notin Stages
    /\ NodeAt("close", [node EXCEPT !.at = "tell"])
    /\ run' = IF node.success THEN "succeeded" ELSE "failed"
    /\ UNCHANGED <<status, stages, log, wire, worker, net, faults>>

PublishResult ==
    /\ NodeAt("tell", [node EXCEPT !.at = "done"])
    /\ PublishStatus(IF node.success THEN "running" ELSE "failed")
    /\ UNCHANGED <<status, run, stages, log, worker, net, faults>>

\* The node stops, a report is lost, or the API dies in the handler.
NodeLost ==
    /\ node.at \notin {"none", "done", "lost"} /\ Fault
    /\ node' = [node EXCEPT !.at = "lost"]
    /\ UNCHANGED <<status, run, stages, log, wire, worker, net>>

-----------------------------------------------------------------------------
(* The safety net, which publishes its line and nothing else *)

NetAt(from, to) == net = from /\ net' = to

CheckDeployment ==
    /\ NetAt("waiting", IF status \in Ends THEN "done" ELSE "log")
    /\ UNCHANGED <<status, run, stages, log, wire, worker, node, faults>>

LogTimeout ==
    /\ NetAt("log", "fail")
    /\ AppendLine("net")
    /\ UNCHANGED <<status, run, stages, worker, node, faults>>

NetFails ==
    /\ NetAt("fail", "close")
    /\ status' = "failed"
    /\ UNCHANGED <<run, stages, log, wire, worker, node, faults>>

NetCloses ==
    /\ NetAt("close", "failed")
    /\ run' = IF run = "running" THEN "failed" ELSE run
    /\ UNCHANGED <<status, stages, log, wire, worker, node, faults>>

PipelineNext ==
    \/ CreateRun \/ MarkBuilding \/ Greet \/ StartStage \/ StoreSpec \/ FinishStage \/ StageFails
    \/ DispatchCommand \/ AnnounceDeploy \/ ScheduleNet
    \/ WorkerThrows \/ LogError \/ FailRun \/ FailDeployment \/ TellFailure \/ DeployJobDies
    \/ ReportRunning \/ PublishRunning \/ GiveUpRunning \/ PostLogs \/ ReportResult \/ LogFailure
    \/ CloseStage \/ CloseRun \/ PublishResult \/ NodeLost
    \/ CheckDeployment \/ LogTimeout \/ NetFails \/ NetCloses

-----------------------------------------------------------------------------
(* Who watches *)

\* What was read of rows that are written now no longer holds.
Hold(read) == [deployment |-> read.deployment /\ status' = status,
               run |-> read.run /\ run' = run /\ stages' = stages]

Pipeline ==
    /\ PipelineNext
    /\ view' = IF stream = "none" THEN view ELSE Hold(view)
    /\ reading' = IF reading.at = "half" THEN [reading EXCEPT !.read = Hold(@)] ELSE reading
    /\ UNCHANGED <<watcher, stream, verdict, listed, logs, liveLines, missed, unheard>>

\* The page reads at once.
StartWatching ==
    /\ stream = "none"
    /\ stream' = "off"
    /\ reading' = IF watcher = "page" THEN [NoReading EXCEPT !.at = "asked"] ELSE reading
    /\ UNCHANGED <<pipelineVars, watcher, verdict, view, listed, logs, liveLines, missed, unheard, faults>>

\* Opened or opened again, the stream starts with what is published next, and
\* the page does not read anew.
Subscribe ==
    /\ stream = "off"
    /\ stream' = "on"
    /\ UNCHANGED <<pipelineVars, watcher, verdict, reading, view, listed, logs, liveLines, missed, unheard, faults>>

\* The page's stream opens again, the command's does not.
LoseStream ==
    /\ stream = "on" /\ Fault
    /\ stream' = IF watcher = "page" THEN "off" ELSE "closed"
    /\ UNCHANGED <<pipelineVars, watcher, verdict, reading, view, listed, logs, liveLines, missed, unheard>>

\* The first lines, up to a limit.
ReadLogs ==
    /\ watcher = "page" /\ stream /= "none" /\ ~listed
    /\ listed' = TRUE
    /\ logs' = {p \in DOMAIN log : p <= LogLimit}
    /\ UNCHANGED <<pipelineVars, watcher, stream, verdict, reading, view, liveLines, missed, unheard, faults>>

ReadDeployment ==
    /\ reading.at = "asked"
    /\ reading' = [at |-> "half", read |-> Fresh2]
    /\ missed' = FALSE
    /\ UNCHANGED <<pipelineVars, watcher, stream, verdict, view, listed, logs, liveLines, unheard, faults>>

ReadRun ==
    /\ reading.at = "half"
    /\ view' = [reading.read EXCEPT !.run = TRUE]
    /\ reading' = NoReading
    /\ UNCHANGED <<pipelineVars, watcher, stream, verdict, listed, logs, liveLines, missed, unheard, faults>>

Arrives(kind) == wire /= <<>> /\ Head(wire)[1] = kind /\ wire' = Tail(wire)

\* Of more than LiveLimit lines the first is dropped before the next is added, one by
\* one, so that there is never one more to drop.
KeptLines == IF Len(liveLines) > LiveLimit THEN Tail(liveLines) ELSE liveLines

HearLine ==
    /\ stream = "on" /\ Arrives("line")
    /\ liveLines' = IF watcher = "page" THEN Append(KeptLines, Head(wire)[2]) ELSE liveLines
    /\ UNCHANGED <<status, run, stages, log, worker, node, net, watcher, stream, verdict, reading, view,
                   listed, logs, missed, unheard, faults>>

\* Mutant: a request under way is shared, as SWR does when it is not told to mutate.
AskShared == reading' = IF reading.at = "none" THEN [NoReading EXCEPT !.at = "asked"] ELSE reading

\* mutate() asks again and drops the answer to a request under way.
AskAgain == reading' = [NoReading EXCEPT !.at = "asked"]

HearStatus ==
    /\ stream = "on" /\ Arrives("status")
    /\ \/ watcher = "page" /\ AskAgain /\ UNCHANGED <<stream, verdict>>
       \/ /\ watcher = "command"
          /\ IF Head(wire)[2] \in Ends THEN stream' = "closed" /\ verdict' = Head(wire)[2]
             ELSE UNCHANGED <<stream, verdict>>
          /\ UNCHANGED reading
    /\ UNCHANGED <<status, run, stages, log, worker, node, net, watcher, view, listed, logs, liveLines, missed,
                   unheard, faults>>

\* The command looks at the row when its stream ended without an event of the end.
Reconcile ==
    /\ stream = "closed" /\ verdict = "none"
    /\ verdict' = status
    /\ UNCHANGED <<pipelineVars, watcher, stream, reading, view, listed, logs, liveLines, missed, unheard, faults>>

MissEvent ==
    /\ stream /= "on"
    /\ \/ Arrives("line") /\ unheard' = (watcher = "page") /\ UNCHANGED missed
       \/ /\ Arrives("status")
          /\ missed' = (missed \/ IF watcher = "page" THEN reading.at /= "asked" /\ stream = "off"
                                  ELSE Head(wire)[2] \in Ends)
          /\ UNCHANGED unheard
    /\ UNCHANGED <<status, run, stages, log, worker, node, net, watcher, stream, verdict, reading, view,
                   listed, logs, liveLines, faults>>

-----------------------------------------------------------------------------
Next ==
    \/ Pipeline
    \/ StartWatching \/ Subscribe \/ LoseStream \/ ReadLogs \/ ReadDeployment \/ ReadRun
    \/ HearLine \/ HearStatus \/ Reconcile \/ MissEvent

Spec == Init /\ [][Next]_vars

-----------------------------------------------------------------------------
(* Properties *)

TypeOK ==
    /\ status \in {"queued", "building", "deploying", "running", "failed"}
    /\ run \in {"none", "running", "succeeded", "failed"}
    /\ stages \in [Stages -> {"none", "pending", "running", "succeeded", "failed", "skipped"}]
    /\ log \in Seq({"worker", "node", "error", "failure", "net"})
    /\ wire \in Seq({"line"} \X (1 .. Len(log)) \union {"status"} \X {"deploying", "running", "failed"})
    /\ worker \in [at : {"queued", "created", "greet", "start", "store", "finish", "dispatch", "announce",
                         "schedule", "done", "caught", "failRun", "fail", "tell", "failed", "dead"}, stage : Stages]
    /\ node \in [at : {"none", "asked", "started", "building", "built", "explain", "close", "tell", "done", "lost"},
                 stage : Deploy .. 7, success : BOOLEAN]
    /\ net \in {"none", "waiting", "log", "fail", "close", "done", "failed"}
    /\ watcher \in {"page", "command"}
    /\ stream \in {"none", "off", "on", "closed"}
    /\ verdict \in {"none", "queued", "building", "deploying", "running", "failed"}
    /\ reading \in [at : {"none", "asked", "half"}, read : [deployment : BOOLEAN, run : BOOLEAN]]
    /\ view \in [deployment : BOOLEAN, run : BOOLEAN]
    /\ listed \in BOOLEAN
    /\ logs \subseteq DOMAIN log
    /\ liveLines \in Seq(1 .. Len(log))
    /\ missed \in BOOLEAN /\ unheard \in BOOLEAN

AtRest ==
    /\ worker.at \in {"done", "failed", "dead"} /\ node.at \in {"none", "done", "lost"}
    /\ net \in {"none", "done", "failed"}
    /\ wire = <<>>

Untold == net = "failed" \/ worker.at = "dead" \/ node.at = "lost"

\* A run that succeeded has no stage that did not. When nothing is under way, no stage
\* is left unfinished unless the job threw or nothing was reported.
StagesClosed ==
    /\ run = "succeeded" => \A i \in Stages : stages[i] = "succeeded"
    /\ AtRest => \A i \in Stages : stages[i] \in {"pending", "running"} =>
        worker.at \in {"failed", "dead"} \/ node.at = "lost"

Shown == logs \union {liveLines[i] : i \in DOMAIN liveLines}

\* The stream has brought line p, or would have, and LiveLimit later lines and one more
\* have taken its place.
Displaced(p) == Len(liveLines) > LiveLimit /\ p < liveLines[1]

\* Then a page that has read shows the deployment, its run and its stages as they are
\* stored, unless an event of status passed it by, the safety net wrote, or a process
\* died before it published; and a stored line is missing on it only if it says why the
\* node failed, a line passed the page by, or later ones have displaced it.
PageTellsTheEnd ==
    AtRest /\ watcher = "page" /\ listed /\ reading.at = "none" =>
        /\ view = Fresh2 \/ missed \/ Untold
        /\ \A p \in DOMAIN log \ Shown : unheard \/ log[p] = "failure" \/ Displaced(p)

\* The command listens for ever only if the end was published before it listened, or
\* never. A deployment it calls live was reported to run; one that it calls failed
\* has failed, unless the node reported success after the job had failed or died.
CommandTellsTheEnd ==
    watcher = "command" =>
        /\ AtRest /\ stream = "on" => missed \/ Untold
        /\ verdict = "running" => node.success
        /\ AtRest /\ verdict = "failed" => status = "failed" \/ worker.at \in {"failed", "dead"} \/ net = "failed"

\* Whoever watches a deployment learns how it ended and through which stages, but for
\* the causes that the three parts name.
WatchersLearnTheEnd == StagesClosed /\ PageTellsTheEnd /\ CommandTellsTheEnd
=============================================================================
