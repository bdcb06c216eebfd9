------------------------- MODULE DeploymentLifecycle -------------------------
(***************************************************************************)
(* The life of the deployments of an app, from the request to the report   *)
(* of the node, over the Deployment, App and PipelineRun rows that four    *)
(* kinds of process write without a lock of their own:                     *)
(*                                                                         *)
(*   the API        creates deployments (deployment.service.ts) and stops, *)
(*                  deletes and moves apps (routes/apps.ts);               *)
(*   deploy jobs    run the pipeline of one deployment and dispatch its    *)
(*                  command (worker/src/processors/deploy.ts), and so do   *)
(*                  rollback jobs (rollback.ts);                           *)
(*   healthcheck    jobs, five minutes after the dispatch, fail what has   *)
(*                  not settled (healthcheck.ts);                          *)
(*   result         handlers apply what the node reports                   *)
(*                  (command-result.service.ts).                           *)
(*                                                                         *)
(* An action is one database statement, or one transaction where no other  *)
(* process can tell its statements apart.  The transaction that finalizes  *)
(* a deployment is not such a one: Postgres runs it at READ COMMITTED, its *)
(* default, so it is modelled statement by statement, with the row lock of *)
(* the deployment it marks and with its writes unseen until it commits.    *)
(*                                                                         *)
(* The node is modelled by what CommandDelivery promises of it: a command  *)
(* is executed at most once, it may be lost, and each report may be        *)
(* repeated, delayed or lost.  A version is the rank of a deployment in    *)
(* the order of creation; nothing here reads it.                           *)
(***************************************************************************)
EXTENDS Integers, FiniteSets

CONSTANTS
    Apps,
    Deployments,    \* identities of the deployments that may be created
    AppOf,          \* the app of each
    NoDeployment,   \* currentDeploymentId is null
    MaxPerDay,      \* plan.maxDeploymentsPerDay
    MaxFaults,      \* bound on crashes, failed statements, lost answers
    MaxOperations   \* bound on what operators do to apps

ASSUME DeploymentsAssumption == NoDeployment \notin Deployments
ASSUME AppOfAssumption == AppOf \in [Deployments -> Apps]
ASSUME BoundsAssumption == MaxPerDay \in Nat /\ MaxFaults \in Nat /\ MaxOperations \in Nat

VARIABLES
    \* Deployment rows
    status,      \* status[d], "none" before the row exists
    snapshot,    \* snapshot[d]: specSnapshot is set
    birth,       \* birth[d]: the process that creates d
    usage,       \* the UsageRecord of the day
    \* App rows
    appStatus,
    current,     \* currentDeploymentId
    assigned,    \* nodeId is set
    deleted,     \* deletedAt is set
    \* PipelineRun rows
    run,         \* run[d]: status of the run of d, "none" before it exists
    \* workers
    job,         \* job[d][k]: where the k-th run of the deploy job stands
    net,         \* net[d]: the safety-net healthcheck job of d
    \* the node
    commands,    \* commands[d]: NodeCommand rows created for d
    exec,        \* exec[d]: the execution of the command of d
    outcome,     \* outcome[d]: how it ended (history)
    \* result handlers
    handler,     \* handler[d]: the handler of the final report of d
    scanned,     \* scanned[d]: rows its updateMany found running
    \* history and bounds
    overlapped,  \* apps that had two finalizing transactions open at once
    faults,
    operations

rowVars    == <<status, snapshot, birth, usage>>
appVars    == <<appStatus, current, assigned, deleted>>
workerVars == <<job, net>>
nodeVars   == <<commands, exec, outcome>>
apiVars    == <<handler, scanned, overlapped>>
bounds     == <<faults, operations>>
vars == <<rowVars, appVars, run, workerVars, nodeVars, apiVars, bounds>>

\* BullMQ runs a job again, once, when the lock of its worker lapses.
Attempts == {1, 2}

Statuses == {"none", "queued", "building", "deploying", "running", "failed",
             "superseded"}

\* TERMINAL_DEPLOYMENT_STATUSES; `stopped` and `rolled_back` are never written.
Terminal == {"running", "failed", "superseded"}

Fault == faults < MaxFaults /\ faults' = faults + 1 /\ UNCHANGED operations

Operation == operations < MaxOperations /\ operations' = operations + 1 /\ UNCHANGED faults

\* The transaction of d has written the row of d and not committed: any other
\* statement that writes this row waits.
Locked(d) == handler[d] \in {"marked", "scanned"}

SetStatus(d, s) ==
    /\ ~Locked(d)
    /\ status' = [status EXCEPT ![d] = s]

SetAppStatus(d, s) == appStatus' = [appStatus EXCEPT ![AppOf[d]] = s]

-----------------------------------------------------------------------------
Init ==
    /\ status = [d \in Deployments |-> "none"]
    /\ snapshot = [d \in Deployments |-> FALSE]
    /\ birth = [d \in Deployments |-> "unborn"]
    /\ usage = 0
    /\ appStatus = [a \in Apps |-> "idle"]
    /\ current = [a \in Apps |-> NoDeployment]
    /\ assigned = [a \in Apps |-> TRUE]
    /\ deleted = [a \in Apps |-> FALSE]
    /\ run = [d \in Deployments |-> "none"]
    /\ job = [d \in Deployments |-> [k \in Attempts |-> "idle"]]
    /\ net = [d \in Deployments |-> "none"]
    /\ commands = [d \in Deployments |-> 0]
    /\ exec = [d \in Deployments |-> "none"]
    /\ outcome = [d \in Deployments |-> "none"]
    /\ handler = [d \in Deployments |-> "idle"]
    /\ scanned = [d \in Deployments |-> {}]
    /\ overlapped = {}
    /\ faults = 0
    /\ operations = 0

-----------------------------------------------------------------------------
(* Creating a deployment *)

\* triggerDeployment reads the app and the usage of the day, outside of the
\* transaction that follows; createDeployment, on behalf of a push, reads the
\* app and no usage.
Admit(d) ==
    /\ birth[d] = "unborn"
    /\ assigned[AppOf[d]]
    /\ \/ ~deleted[AppOf[d]] /\ usage < MaxPerDay    \* request to the API
       \/ ~deleted[AppOf[d]]                         \* push
    /\ birth' = [birth EXCEPT ![d] = "admitted"]
    /\ UNCHANGED <<status, snapshot, usage, appVars, run, workerVars, nodeVars,
                   apiVars, bounds>>

\* The transaction: row, app and usage.
Create(d) ==
    /\ birth[d] = "admitted"
    /\ birth' = [birth EXCEPT ![d] = "created"]
    /\ status' = [status EXCEPT ![d] = "queued"]
    /\ usage' = usage + 1
    /\ SetAppStatus(d, "building")
    /\ UNCHANGED <<snapshot, current, assigned, deleted, run, workerVars,
                   nodeVars, apiVars, bounds>>

\* deployQueue.add, after the commit.
Enqueue(d) ==
    /\ birth[d] = "created"
    /\ birth' = [birth EXCEPT ![d] = "enqueued"]
    /\ UNCHANGED <<status, snapshot, usage, appVars, run, workerVars, nodeVars,
                   apiVars, bounds>>

\* The process that creates d dies, or its next step fails.
CreatorDies(d) ==
    /\ birth[d] \in {"admitted", "created", "rollback", "rollbackApp"}
    /\ Fault
    /\ birth' = [birth EXCEPT ![d] = "orphan"]
    /\ UNCHANGED <<status, snapshot, usage, appVars, run, workerVars, nodeVars,
                   apiVars>>

-----------------------------------------------------------------------------
(* The deploy job *)

Goto(d, k, pc) == job' = [job EXCEPT ![d][k] = pc]

\* findUnique of the deployment with its app.
Start(d, k) ==
    /\ birth[d] = "enqueued"
    /\ job[d][k] = "idle"
    /\ Goto(d, k, IF assigned[AppOf[d]] THEN "createRun" ELSE "failDeployment")
    /\ UNCHANGED <<rowVars, appVars, run, net, nodeVars, apiVars>>

\* A worker takes the job, or takes it again after the crash of the first.
Pick(d, k) ==
    /\ k = 1 \/ job[d][1] = "dead"
    /\ Start(d, k)
    /\ UNCHANGED bounds

\* The lock of the job lapses while its worker goes on.
Stall(d, k) ==
    /\ k = 2 /\ job[d][1] \notin {"idle", "ended", "dead"}
    /\ Start(d, k)
    /\ Fault
\* Mutant: the run is looked up first and taken over.
CreateRunUpsert(d, k) ==
    /\ job[d][k] = "createRun"
    /\ run' = [run EXCEPT ![d] = "running"]
    /\ Goto(d, k, "build")
    /\ UNCHANGED <<rowVars, appVars, net, nodeVars, apiVars, bounds>>

\* pipelineRun.create: deploymentId is unique, and a second run of the job
\* ends with the error, outside of the try block.
CreateRun(d, k) ==
    /\ job[d][k] = "createRun"
    /\ IF run[d] = "none"
       THEN /\ run' = [run EXCEPT ![d] = "running"]
            /\ Goto(d, k, "build")
       ELSE /\ UNCHANGED run
            /\ Goto(d, k, "ended")
    /\ UNCHANGED <<rowVars, appVars, net, nodeVars, apiVars, bounds>>

Build(d, k) ==
    /\ job[d][k] = "build"
    /\ SetStatus(d, "building")
    /\ Goto(d, k, "package")
    /\ UNCHANGED <<snapshot, birth, usage, appVars, run, net, nodeVars, apiVars,
                   bounds>>

Package(d, k) ==
    /\ job[d][k] = "package"
    /\ SetStatus(d, "deploying")
    /\ snapshot' = [snapshot EXCEPT ![d] = TRUE]
    /\ Goto(d, k, "dispatch")
    /\ UNCHANGED <<birth, usage, appVars, run, net, nodeVars, apiVars, bounds>>

\* createSignedCommand: CommandDelivery takes over.
Dispatch(d, k) ==
    /\ job[d][k] = "dispatch"
    /\ commands' = [commands EXCEPT ![d] = @ + 1]
    /\ Goto(d, k, "net")
    /\ UNCHANGED <<rowVars, appVars, run, net, exec, outcome, apiVars, bounds>>
\* Mutant: the job is not delayed, and is gone before the node can answer.
AddNetUndelayed(d, k) ==
    /\ job[d][k] = "net"
    /\ net' = [net EXCEPT ![d] = "done"]
    /\ Goto(d, k, "ended")
    /\ UNCHANGED <<rowVars, appVars, run, nodeVars, apiVars, bounds>>

\* The safety-net healthcheck job, delayed by five minutes.
AddNet(d, k) ==
    /\ job[d][k] = "net"
    /\ net' = [net EXCEPT ![d] = "due"]
    /\ Goto(d, k, "ended")
    /\ UNCHANGED <<rowVars, appVars, run, nodeVars, apiVars, bounds>>

\* A statement, the publish or the queue fails inside of the try block, which
\* begins after the first write of the deployment.  The command may already
\* have been dispatched.
JobThrows(d, k) ==
    /\ job[d][k] \in {"package", "dispatch", "net"}
    /\ Fault
    /\ Goto(d, k, "failRun")
    /\ UNCHANGED <<rowVars, appVars, run, net, nodeVars, apiVars>>

\* Outside of it, or in the catch block itself.
JobAborts(d, k) ==
    /\ job[d][k] \in {"createRun", "build", "failRun", "failDeployment", "failApp"}
    /\ Fault
    /\ Goto(d, k, "ended")
    /\ UNCHANGED <<rowVars, appVars, run, net, nodeVars, apiVars>>

\* The catch block: the run, the deployment, the app.
FailRun(d, k) ==
    /\ job[d][k] = "failRun"
    /\ run' = [run EXCEPT ![d] = "failed"]
    /\ Goto(d, k, "failDeployment")
    /\ UNCHANGED <<rowVars, appVars, net, nodeVars, apiVars, bounds>>

FailDeployment(d, k) ==
    /\ job[d][k] = "failDeployment"
    /\ SetStatus(d, "failed")
    /\ Goto(d, k, "failApp")
    /\ UNCHANGED <<snapshot, birth, usage, appVars, run, net, nodeVars, apiVars, bounds>>

FailApp(d, k) ==
    /\ job[d][k] = "failApp"
    /\ SetAppStatus(d, "failed")
    /\ Goto(d, k, "ended")
    /\ UNCHANGED <<rowVars, current, assigned, deleted, run, net, nodeVars, apiVars, bounds>>

WorkerDies(d, k) ==
    /\ job[d][k] \notin {"idle", "ended", "dead"}
    /\ Fault
    /\ Goto(d, k, "dead")
    /\ UNCHANGED <<rowVars, appVars, run, net, nodeVars, apiVars>>

-----------------------------------------------------------------------------
(* The safety net *)
\* Mutant: a deployment the node may be working on counts as settled.
NetReadsWaiting(d) ==
    /\ net[d] = "due"
    /\ net' = [net EXCEPT ![d] = IF status[d] \in Terminal \union {"deploying"} THEN "done"
                                                                         ELSE "seen"]
    /\ UNCHANGED <<rowVars, appVars, run, job, nodeVars, apiVars, bounds>>

\* findUnique: a deployment read in a terminal state is left alone.
NetReads(d) ==
    /\ net[d] = "due"
    /\ net' = [net EXCEPT ![d] = IF status[d] \in Terminal THEN "done" ELSE "seen"]
    /\ UNCHANGED <<rowVars, appVars, run, job, nodeVars, apiVars, bounds>>

\* The three writes, whatever happened since the read.
NetFailsDeployment(d) ==
    /\ net[d] = "seen"
    /\ SetStatus(d, "failed")
    /\ net' = [net EXCEPT ![d] = "app"]
    /\ UNCHANGED <<snapshot, birth, usage, appVars, run, job, nodeVars, apiVars, bounds>>

NetFailsApp(d) ==
    /\ net[d] = "app"
    /\ SetAppStatus(d, "failed")
    /\ net' = [net EXCEPT ![d] = "run"]
    /\ UNCHANGED <<rowVars, current, assigned, deleted, run, job, nodeVars, apiVars, bounds>>

NetFailsRun(d) ==
    /\ net[d] = "run"
    /\ run' = [run EXCEPT ![d] = IF @ = "running" THEN "failed" ELSE @]
    /\ net' = [net EXCEPT ![d] = "done"]
    /\ UNCHANGED <<rowVars, appVars, job, nodeVars, apiVars, bounds>>

\* A statement fails and the job with it (one attempt), or the worker dies and
\* the stalled job starts over.
NetDies(d) ==
    /\ net[d] \in {"due", "seen", "app", "run"}
    /\ Fault
    /\ \E n \in {"due", "dead"} : net' = [net EXCEPT ![d] = n]
    /\ UNCHANGED <<rowVars, appVars, run, job, nodeVars, apiVars>>

-----------------------------------------------------------------------------
(* The rollback job *)
\* Mutant: the row is created with the status the enum keeps for its target.
RollbackRowRolledBack(d) ==
    /\ birth[d] = "unborn"
    /\ assigned[AppOf[d]]
    /\ \E e \in Deployments \ {d} : AppOf[e] = AppOf[d] /\ snapshot[e]
    /\ birth' = [birth EXCEPT ![d] = "rollback"]
    /\ status' = [status EXCEPT ![d] = "rolled_back"]
    /\ snapshot' = [snapshot EXCEPT ![d] = TRUE]
    /\ UNCHANGED <<usage, appVars, run, workerVars, nodeVars, apiVars, bounds>>

\* The row of the rollback repeats the snapshot of an earlier deployment.  The
\* job looks for a node, and not at deletedAt; the route, before, looked at both.
RollbackRow(d) ==
    /\ birth[d] = "unborn"
    /\ assigned[AppOf[d]]
    /\ \E e \in Deployments \ {d} : AppOf[e] = AppOf[d] /\ snapshot[e]
    /\ birth' = [birth EXCEPT ![d] = "rollback"]
    /\ status' = [status EXCEPT ![d] = "deploying"]
    /\ snapshot' = [snapshot EXCEPT ![d] = TRUE]
    /\ UNCHANGED <<usage, appVars, run, workerVars, nodeVars, apiVars, bounds>>

RollbackApp(d) ==
    /\ birth[d] = "rollback"
    /\ birth' = [birth EXCEPT ![d] = "rollbackApp"]
    /\ SetAppStatus(d, "deploying")
    /\ UNCHANGED <<status, snapshot, usage, current, assigned, deleted, run, workerVars,
                   nodeVars, apiVars, bounds>>

\* The command; no pipeline run, and no safety-net job.
RollbackDispatch(d) ==
    /\ birth[d] = "rollbackApp"
    /\ birth' = [birth EXCEPT ![d] = "rolledBack"]
    /\ commands' = [commands EXCEPT ![d] = @ + 1]
    /\ UNCHANGED <<status, snapshot, usage, appVars, run, workerVars, exec, outcome,
                   apiVars, bounds>>

-----------------------------------------------------------------------------
(* What operators do to an app while deployments are under way *)

StopApp(a) ==
    /\ ~deleted[a] /\ assigned[a]
    /\ Operation
    /\ appStatus' = [appStatus EXCEPT ![a] = "stopped"]
    /\ UNCHANGED <<rowVars, current, assigned, deleted, run, workerVars, nodeVars, apiVars>>

DeleteApp(a) ==
    /\ ~deleted[a]
    /\ Operation
    /\ deleted' = [deleted EXCEPT ![a] = TRUE]
    /\ appStatus' = [appStatus EXCEPT ![a] = "stopped"]
    /\ UNCHANGED <<rowVars, current, assigned, run, workerVars, nodeVars, apiVars>>

\* Its node is removed; a patch assigns one.
MoveApp(a) ==
    /\ assigned[a] \/ ~deleted[a]
    /\ Operation
    /\ assigned' = [assigned EXCEPT ![a] = ~@]
    /\ UNCHANGED <<rowVars, appStatus, current, deleted, run, workerVars, nodeVars, apiVars>>

-----------------------------------------------------------------------------
(* The node, by the contract of CommandDelivery *)

\* It takes the command up.
Take(d) ==
    /\ commands[d] > 0 /\ exec[d] = "none"
    /\ exec' = [exec EXCEPT ![d] = "begin"]
    /\ UNCHANGED <<rowVars, appVars, run, workerVars, commands, outcome, apiVars, bounds>>

\* It refuses the command: the row carried no valid signature.
Refuse(d) ==
    /\ commands[d] > 0 /\ exec[d] = "none"
    /\ exec' = [exec EXCEPT ![d] = "report"]
    /\ outcome' = [outcome EXCEPT ![d] = "refused"]
    /\ UNCHANGED <<rowVars, appVars, run, workerVars, commands, apiVars, bounds>>

\* The report that it is running, applied by one update.
ReportRunning(d) ==
    /\ exec[d] = "begin"
    /\ exec' = [exec EXCEPT ![d] = "work"]
    /\ SetStatus(d, "deploying")
    /\ UNCHANGED <<snapshot, birth, usage, appVars, run, workerVars, commands, outcome,
                   apiVars, bounds>>

\* The agent gives this report up, and works all the same.
RunningUnreported(d) ==
    /\ exec[d] = "begin"
    /\ Fault
    /\ exec' = [exec EXCEPT ![d] = "work"]
    /\ UNCHANGED <<rowVars, appVars, run, workerVars, commands, outcome, apiVars>>

\* deploy_app returns: an unhealthy container is an error, so a success always
\* says healthy, or nothing of it.
Work(d) ==
    /\ exec[d] = "work"
    /\ exec' = [exec EXCEPT ![d] = "report"]
    /\ \E o \in {"ok", "bad"} : outcome' = [outcome EXCEPT ![d] = o]
    /\ UNCHANGED <<rowVars, appVars, run, workerVars, commands, apiVars, bounds>>

\* Claimed and never delivered, or the agent dies, or it gives up reporting.
NodeLoses(d) ==
    /\ commands[d] > 0 /\ exec[d] \in {"none", "begin", "work", "report"}
    /\ Fault
    /\ exec' = [exec EXCEPT ![d] = "lost"]
    /\ UNCHANGED <<rowVars, appVars, run, workerVars, commands, outcome, apiVars>>
\* Mutant: every terminal report finalizes.
ReportEndAlike(d) ==
    /\ exec[d] = "report" /\ handler[d] = "idle"
    /\ exec' = [exec EXCEPT ![d] = "reported"]
    /\ handler' = [handler EXCEPT ![d] = "mark"]
    /\ UNCHANGED <<rowVars, appVars, run, workerVars, commands, outcome, scanned, overlapped,
                   bounds>>

\* The report of the execution reaches the API, which begins to handle it.
ReportEnd(d) ==
    /\ exec[d] = "report" /\ handler[d] = "idle"
    /\ exec' = [exec EXCEPT ![d] = "reported"]
    /\ handler' = [handler EXCEPT ![d] = IF outcome[d] = "ok" THEN "mark" ELSE "fail"]
    /\ UNCHANGED <<rowVars, appVars, run, workerVars, commands, outcome, scanned, overlapped,
                   bounds>>

\* The agent heard no answer in time and sent a report again: the copy is
\* applied as late as it pleases the network.  A refused command never ran.
RunningAgain(d) ==
    /\ exec[d] \in {"work", "report", "reported"} /\ outcome[d] /= "refused"
    /\ Fault
    /\ SetStatus(d, "deploying")
    /\ UNCHANGED <<snapshot, birth, usage, appVars, run, workerVars, nodeVars, apiVars>>

EndAgain(d) ==
    /\ exec[d] = "reported" /\ handler[d] = "idle"
    /\ Fault
    /\ handler' = [handler EXCEPT ![d] = IF outcome[d] = "ok" THEN "mark" ELSE "fail"]
    /\ UNCHANGED <<rowVars, appVars, run, workerVars, nodeVars, scanned, overlapped>>

-----------------------------------------------------------------------------
(* The handler of the final report *)

Step(d, from, to) == handler[d] = from /\ handler' = [handler EXCEPT ![d] = to]

Siblings(d) == {e \in Deployments \ {d} : AppOf[e] = AppOf[d]}

\* The transaction begins with the update of the row of d: it takes the lock,
\* and nobody sees the write.
FinalizeMark(d) ==
    /\ Step(d, "mark", "marked")
    /\ overlapped' = IF \E e \in Siblings(d) : Locked(e) THEN overlapped \union {AppOf[d]}
                                                        ELSE overlapped
    /\ UNCHANGED <<rowVars, appVars, run, workerVars, nodeVars, scanned, bounds>>
\* Mutant: the others are superseded before the transaction, which then commits.
FinalizeScanEarly(d) ==
    /\ Step(d, "marked", "scanned")
    /\ \A e \in Siblings(d) : ~Locked(e)
    /\ status' = [e \in Deployments |->
                     IF e \in Siblings(d) /\ status[e] = "running" THEN "superseded" ELSE status[e]]
    /\ UNCHANGED <<snapshot, birth, usage, appVars, run, workerVars, nodeVars, scanned, overlapped,
                   bounds>>

\* updateMany finds the other running deployments among the committed rows.
FinalizeScan(d) ==
    /\ Step(d, "marked", "scanned")
    /\ scanned' = [scanned EXCEPT ![d] = {e \in Siblings(d) : status[e] = "running"}]
    /\ UNCHANGED <<rowVars, appVars, run, workerVars, nodeVars, overlapped, bounds>>
\* Mutant: nothing is superseded.
FinalizeCommitAlone(d) ==
    /\ Step(d, "scanned", "closeOk")
    /\ \A e \in scanned[d] : ~Locked(e)
    /\ status' = [status EXCEPT ![d] = "running"]
    /\ scanned' = [scanned EXCEPT ![d] = {}]
    /\ SetAppStatus(d, "running")
    /\ current' = [current EXCEPT ![AppOf[d]] = d]
    /\ assigned' = [assigned EXCEPT ![AppOf[d]] = TRUE]
    /\ UNCHANGED <<snapshot, birth, usage, deleted, run, workerVars, nodeVars, overlapped, bounds>>

\* Mutant: the rows it found are updated by their ids, whatever became of them.
FinalizeCommitStale(d) ==
    /\ Step(d, "scanned", "closeOk")
    /\ \A e \in scanned[d] : ~Locked(e)
    /\ status' = [e \in Deployments |-> IF e = d THEN "running"
                                        ELSE IF e \in scanned[d] THEN "superseded" ELSE status[e]]
    /\ scanned' = [scanned EXCEPT ![d] = {}]
    /\ SetAppStatus(d, "running")
    /\ current' = [current EXCEPT ![AppOf[d]] = d]
    /\ assigned' = [assigned EXCEPT ![AppOf[d]] = TRUE]
    /\ UNCHANGED <<snapshot, birth, usage, deleted, run, workerVars, nodeVars, overlapped, bounds>>

\* It waits for the rows that are locked, looks at them again, updates those
\* that still match; then the app, and the commit.
FinalizeCommit(d) ==
    /\ Step(d, "scanned", "closeOk")
    /\ \A e \in scanned[d] : ~Locked(e)
    /\ status' = [e \in Deployments |->
                     IF e = d THEN "running"
                     ELSE IF e \in scanned[d] /\ status[e] = "running" THEN "superseded"
                     ELSE status[e]]
    /\ scanned' = [scanned EXCEPT ![d] = {}]
    /\ SetAppStatus(d, "running")
    /\ current' = [current EXCEPT ![AppOf[d]] = d]
    /\ assigned' = [assigned EXCEPT ![AppOf[d]] = TRUE]
    /\ UNCHANGED <<snapshot, birth, usage, deleted, run, workerVars, nodeVars, overlapped, bounds>>

\* failDeploy: the deployment, then the app, of its own.
FailDeploy(d) ==
    /\ Step(d, "fail", "failApp")
    /\ SetStatus(d, "failed")
    /\ UNCHANGED <<snapshot, birth, usage, appVars, run, workerVars, nodeVars, scanned,
                   overlapped, bounds>>

FailDeployApp(d) ==
    /\ Step(d, "failApp", "closeBad")
    /\ SetAppStatus(d, "failed")
    /\ UNCHANGED <<rowVars, current, assigned, deleted, run, workerVars, nodeVars, scanned,
                   overlapped, bounds>>

\* Mutant: the stages tell success from failure, the run does not.
ClosePipelineRunDone(d) ==
    /\ \E r \in {"closeOk", "closeBad"} :
          /\ Step(d, r, "idle")
          /\ run' = [run EXCEPT ![d] = IF @ = "none" THEN @ ELSE "succeeded"]
    /\ UNCHANGED <<rowVars, appVars, workerVars, nodeVars, scanned, overlapped, bounds>>

\* closePipelineRun: a rollback has no run.
ClosePipelineRun(d) ==
    /\ \E r \in {"closeOk", "closeBad"} :
          /\ Step(d, r, "idle")
          /\ run' = [run EXCEPT ![d] = IF @ = "none" THEN @
                                       ELSE IF r = "closeOk" THEN "succeeded" ELSE "failed"]
    /\ UNCHANGED <<rowVars, appVars, workerVars, nodeVars, scanned, overlapped, bounds>>

\* The process dies, a statement fails or the transaction exceeds its time: an
\* open transaction is rolled back, and the agent, unanswered, reports again.
HandlerDies(d) ==
    /\ handler[d] /= "idle"
    /\ Fault
    /\ handler' = [handler EXCEPT ![d] = "idle"]
    /\ scanned' = [scanned EXCEPT ![d] = {}]
    /\ exec' = [exec EXCEPT ![d] = "report"]
    /\ UNCHANGED <<rowVars, appVars, run, workerVars, commands, outcome, overlapped>>

\* Two transactions wait for each other: Postgres rolls one back.
Deadlock(d) ==
    /\ \E e \in scanned[d] : d \in scanned[e]
    /\ handler' = [handler EXCEPT ![d] = "idle"]
    /\ scanned' = [scanned EXCEPT ![d] = {}]
    /\ exec' = [exec EXCEPT ![d] = "report"]
    /\ UNCHANGED <<rowVars, appVars, run, workerVars, commands, outcome, overlapped, bounds>>

-----------------------------------------------------------------------------
\* What a process that is up does next, each at a single point of its code.
DeployJobStep(d, k) ==
    \/ Pick(d, k) \/ CreateRun(d, k) \/ Build(d, k) \/ Package(d, k) \/ Dispatch(d, k)
    \/ AddNet(d, k) \/ FailRun(d, k) \/ FailDeployment(d, k) \/ FailApp(d, k)

HandlerStep(d) ==
    \/ FinalizeMark(d) \/ FinalizeScan(d) \/ FinalizeCommit(d) \/ Deadlock(d)
    \/ FailDeploy(d) \/ FailDeployApp(d) \/ ClosePipelineRun(d)

Creation(d) == Admit(d) \/ Create(d) \/ Enqueue(d) \/ CreatorDies(d)

DeployJob(d) == \E k \in Attempts :
    DeployJobStep(d, k) \/ Stall(d, k) \/ JobThrows(d, k) \/ JobAborts(d, k)
    \/ WorkerDies(d, k)

NetStep(d) == NetReads(d) \/ NetFailsDeployment(d) \/ NetFailsApp(d) \/ NetFailsRun(d)

SafetyNetJob(d) == NetStep(d) \/ NetDies(d)

RollbackJob(d) == RollbackRow(d) \/ RollbackApp(d) \/ RollbackDispatch(d)

Operator(a) == StopApp(a) \/ DeleteApp(a) \/ MoveApp(a)

Node(d) ==
    \/ Take(d) \/ Refuse(d) \/ ReportRunning(d) \/ RunningUnreported(d) \/ Work(d)
    \/ NodeLoses(d) \/ ReportEnd(d) \/ RunningAgain(d) \/ EndAgain(d)

Handler(d) == HandlerStep(d) \/ HandlerDies(d)

Next ==
    \/ \E d \in Deployments :
          \/ Creation(d) \/ DeployJob(d) \/ SafetyNetJob(d) \/ RollbackJob(d)
          \/ Node(d) \/ Handler(d)
    \/ \E a \in Apps : Operator(a)

Spec == Init /\ [][Next]_vars

\* A process that is up goes on: BullMQ runs due jobs, a Node.js handler
\* resumes after each await.  The node and the network owe nothing.
FairSpec ==
    /\ Spec
    /\ \A d \in Deployments :
          /\ WF_vars(Enqueue(d))
          /\ WF_vars(RollbackApp(d) \/ RollbackDispatch(d))
          /\ WF_vars(NetStep(d))
          /\ WF_vars(HandlerStep(d))
          /\ \A k \in Attempts : WF_vars(DeployJobStep(d, k))

-----------------------------------------------------------------------------
(* Properties *)

JobPoints == {"idle", "createRun", "build", "package", "dispatch", "net", "failRun",
              "failDeployment", "failApp", "ended", "dead"}

HandlerPoints == {"idle", "mark", "marked", "scanned", "closeOk", "fail", "failApp", "closeBad"}

\* The rows and the processes are in the states the code knows.
TypeOK ==
    /\ status \in [Deployments -> Statuses]
    /\ snapshot \in [Deployments -> BOOLEAN]
    /\ birth \in [Deployments -> {"unborn", "admitted", "created", "enqueued", "orphan",
                                  "rollback", "rollbackApp", "rolledBack"}]
    /\ usage \in Nat
    /\ appStatus \in [Apps -> {"idle", "building", "deploying", "running", "stopped", "failed"}]
    /\ current \in [Apps -> Deployments \union {NoDeployment}]
    /\ assigned \in [Apps -> BOOLEAN]
    /\ deleted \in [Apps -> BOOLEAN]
    /\ run \in [Deployments -> {"none", "running", "succeeded", "failed"}]
    /\ job \in [Deployments -> [Attempts -> JobPoints]]
    /\ net \in [Deployments -> {"none", "due", "seen", "app", "run", "done", "dead"}]
    /\ commands \in [Deployments -> Nat]
    /\ exec \in [Deployments -> {"none", "begin", "work", "report", "reported", "lost"}]
    /\ outcome \in [Deployments -> {"none", "ok", "bad", "refused"}]
    /\ handler \in [Deployments -> HandlerPoints]
    /\ scanned \in [Deployments -> SUBSET Deployments]
    /\ overlapped \subseteq Apps
    /\ faults \in Nat
    /\ operations \in Nat

\* As long as no two finalizing transactions of an app were open at once, at
\* most one of its deployments is running, and the app points at it: crashes,
\* repeated reports, stalled jobs and the safety net do not change that.
RunningIsCurrent ==
    \A d \in Deployments :
        status[d] = "running" /\ AppOf[d] \notin overlapped => current[AppOf[d]] = d

\* The deployment an app points at is one of its own that the node executed
\* with success, whatever was reported twice, late or never.
CurrentSucceeded ==
    \A a \in Apps :
        current[a] /= NoDeployment => AppOf[current[a]] = a /\ outcome[current[a]] = "ok"

\* A deploy job that runs twice, the one run after the other or both at once,
\* dispatches one command: the unique deploymentId of the run decides.
DispatchedOnce == \A d \in Deployments : commands[d] <= 1

\* A pipeline run is recorded as succeeded only for a deployment the node
\* executed with success, whoever else closes runs.
RunOutcomeTrue == \A d \in Deployments : run[d] = "succeeded" => outcome[d] = "ok"

\* A running deployment is superseded only in the step that makes another one of
\* its app the running and the current one: no reader sees the app between.
HandOver ==
    [][\A d \in Deployments :
          status[d] = "running" /\ status'[d] = "superseded" =>
              \E e \in Siblings(d) : status'[e] = "running" /\ current'[AppOf[d]] = e]_vars

\* A deployment with a safety-net job settles, unless the job itself is lost.
SafetyNet ==
    \A d \in Deployments : net[d] = "due" ~> status[d] \in Terminal \/ net[d] = "dead"

\* A deployment that is queued settles, node or no node, unless something fails
\* on the way.
DeploySettles ==
    \A d \in Deployments : status[d] = "queued" ~> status[d] \in Terminal \/ faults > 0

-----------------------------------------------------------------------------
(* What it promises *)

\* What a status tells a reader.
Told(s) ==
    IF s \in {"queued", "building", "deploying"} THEN "pending"
    ELSE IF s = "running" THEN "live" ELSE IF s = "superseded" THEN "replaced" ELSE s

Contract == INSTANCE DeploymentContract WITH
    executed <- outcome,
    told <- [d \in Deployments |-> Told(status[d])],
    serving <- current,
    ran <- run,
    contested <- overlapped

\* The rows, whoever writes them and whatever fails, keep the contract: an app changes
\* over in one step, to a deployment that succeeded, and no run is reopened.
DeploymentsKeepContract == Contract!CSpec

-----------------------------------------------------------------------------
(* What the comments and the documents say, and the code does not do *)

\* "Supersede any other running deployment for this app": an app never has two
\* running deployments.
OneRunning ==
    \A d, e \in Deployments :
        status[d] = "running" /\ status[e] = "running" /\ AppOf[d] = AppOf[e] => d = e

\* "When the node DID report, the deployment is already terminal and this is a
\* no-op": a deployment whose success the node has reported, and that is the
\* running and current one by that report, is never failed by its safety net.
NetSparesReported ==
    [][\A d \in Deployments :
          net[d] = "seen" /\ net'[d] = "app" =>
              ~(exec[d] = "reported" /\ status[d] = "running" /\ current[AppOf[d]] = d)]_vars

=============================================================================
