--------------------------- MODULE ManagedResources ---------------------------
(***************************************************************************)
(* One managed resource (a database, a bucket, a function or a load        *)
(* balancer): its row, the jobs of its queue and its container on the node.*)
(*                                                                         *)
(*   requests   write the row and add a job afterwards (routes/databases,  *)
(*              storage, functions and loadbalancers);                     *)
(*   jobs       read the row and write a signed command (the processors of *)
(*              the worker; each queue runs four jobs at a time);          *)
(*   commands   run on the node, each in a task of its own, and replace,   *)
(*              stop or remove the container by its name (resources.rs);   *)
(*   reports    set the status of the row (applyResourceResult).           *)
(*                                                                         *)
(* A command is executed as CommandDelivery promises: at most once, and    *)
(* its report may be lost or applied twice. There is a node for it, and a  *)
(* load balancer has targets: without them a job returns at once. The      *)
(* spare instances of a function and its invocations, which touch neither  *)
(* the row nor the container of this name, are left out.                   *)
(***************************************************************************)
EXTENDS Integers

CONSTANTS
    MaxTasks,   \* bound on requests with their jobs, and second attempts of jobs
    Kinds,      \* the kinds of resource there may be
    MaxFaults   \* bound on crashes, failed steps, lost and repeated reports

ASSUME TaskAssumption == MaxTasks \in Nat
ASSUME KindAssumption == Kinds \subseteq {"database", "bucket", "function", "loadbalancer"}
ASSUME FaultAssumption == MaxFaults \in Nat

VARIABLES
    \* the row
    kind,
    status,     \* "none" before it exists
    deleted,    \* deletedAt is set
    \* requests, jobs and commands
    action,     \* action[t]: what t asks for
    stage,      \* stage[t]: how far it is
    \* the node
    box,        \* the container with the name of the resource
    \* history and bounds
    mixed,      \* something was asked for before all that was asked earlier had ended, or
                \* a command was refused
    faults

vars == <<kind, status, deleted, action, stage, box, mixed, faults>>

Tasks == 1 .. MaxTasks

Up == IF kind = "database" THEN "running" ELSE "active"
Transient == {"provisioning", "deploying", "backing_up"}

AgentStages == {"command", "replaced", "created"}
Ended == {"idle", "done"}
Quiet == \A t \in Tasks : stage[t] \in Ended

\* Tasks are numbered in the order in which they come up.
New(t) == stage[t] = "idle" /\ \A u \in Tasks : u < t => stage[u] /= "idle"

Fault == faults < MaxFaults /\ faults' = faults + 1

Init ==
    /\ kind \in Kinds
    /\ status = "none"
    /\ deleted = FALSE
    /\ action = [t \in Tasks |-> "none"]
    /\ stage = [t \in Tasks |-> "idle"]
    /\ box = "none"
    /\ mixed = FALSE
    /\ faults = 0

-----------------------------------------------------------------------------
(* Requests: the row is written, queue.add comes next. *)

Ask(t, a) ==
    /\ New(t)
    /\ action' = [action EXCEPT ![t] = a]
    /\ stage' = [stage EXCEPT ![t] = "add"]
    /\ mixed' = (mixed \/ ~Quiet)
    /\ UNCHANGED <<kind, box, faults>>

Create(t, k, first) ==
    /\ kind = k /\ status = "none"
    /\ Ask(t, "provision")
    /\ status' = first
    /\ UNCHANGED deleted

CreateDatabase(t) == Create(t, "database", "provisioning")
CreateBucket(t) == Create(t, "bucket", "provisioning")
CreateFunction(t) == Create(t, "function", "deploying")
CreateLoadBalancer(t) == Create(t, "loadbalancer", "provisioning")

\* The row is found and not deleted.
Found(k) == kind = k /\ status /= "none" /\ ~deleted

\* POST /databases/:id/{stop,start,backup}: a start is a provision.
ActOnDatabase(t) ==
    /\ Found("database")
    /\ \E a \in {"stop", "provision", "backup"} : Ask(t, a)
    /\ UNCHANGED <<status, deleted>>

Reconcile(t) ==
    /\ Found("loadbalancer")
    /\ Ask(t, "provision")
    /\ UNCHANGED <<status, deleted>>

Delete(t, k, last) ==
    /\ Found(k)
    /\ Ask(t, "remove")
    /\ deleted' = TRUE
    /\ status' = last

DeleteDatabase(t) == Delete(t, "database", "stopped")
DeleteBucket(t) == Delete(t, "bucket", status)
DeleteFunction(t) == Delete(t, "function", status)
DeleteLoadBalancer(t) == Delete(t, "loadbalancer", "failed")

Goto(t, to) == stage' = [stage EXCEPT ![t] = to]

AddJob(t) ==
    /\ stage[t] = "add"
    /\ Goto(t, "job")
    /\ UNCHANGED <<kind, status, deleted, action, box, mixed, faults>>

RequestDies(t) ==
    /\ stage[t] = "add"
    /\ Fault
    /\ Goto(t, "done")
    /\ UNCHANGED <<kind, status, deleted, action, box, mixed>>

-----------------------------------------------------------------------------
(* Jobs *)

\* Mutant: a deleted row is left alone whatever its kind.
ReadLiving(t) ==
    /\ stage[t] = "job"
    /\ Goto(t, IF deleted THEN "done" ELSE "read")
    /\ UNCHANGED <<kind, status, deleted, action, box, mixed, faults>>

\* The worker reads the row. A deleted load balancer is left alone.
Read(t) ==
    /\ stage[t] = "job"
    /\ Goto(t, IF kind = "loadbalancer" /\ deleted THEN "done" ELSE "read")
    /\ UNCHANGED <<kind, status, deleted, action, box, mixed, faults>>

\* It writes the command, and for some actions the status of the row before.
Dispatch(t, k, now) ==
    /\ kind = k
    /\ stage[t] = "read"
    /\ Goto(t, "command")
    /\ status' = now
    /\ UNCHANGED <<kind, deleted, action, box, mixed, faults>>

DispatchDatabase(t) ==
    Dispatch(t, "database", IF action[t] = "backup" THEN "backing_up" ELSE status)

DispatchBucket(t) == Dispatch(t, "bucket", status)
DispatchFunction(t) == Dispatch(t, "function", status)
DispatchLoadBalancer(t) == Dispatch(t, "loadbalancer", "provisioning")

\* A worker that dies before the command is written leaves the job to a second
\* attempt; one that dies afterwards leaves a second job for the same action.
WorkerDies(t) ==
    /\ Fault
    /\ \/ stage[t] = "read" /\ Goto(t, "job") /\ UNCHANGED action
       \/ /\ stage[t] = "command"
          /\ \E u \in Tasks : /\ New(u)
                              /\ Goto(u, "job")
                              /\ action' = [action EXCEPT ![u] = action[t]]
    /\ UNCHANGED <<kind, status, deleted, box, mixed>>

-----------------------------------------------------------------------------
(* The node *)

Step(t, a, from, to) ==
    /\ action[t] = a
    /\ stage[t] = from
    /\ Goto(t, to)
    /\ UNCHANGED <<kind, status, deleted, action, mixed, faults>>

\* run_container removes what has the name, creates and starts, all by name.
Replace(t) ==
    /\ Step(t, "provision", "command", "replaced")
    /\ box' = "none"

\* Before it: the network and the volume; the volume; the source and the image, which
\* the spare instances share; the Caddyfile. None of it touches what is there.
ProvisionDatabase(t) == kind = "database" /\ Replace(t)
ProvisionStorage(t) == kind = "bucket" /\ Replace(t)
DeployFunction(t) == kind = "function" /\ Replace(t)
ProvisionLb(t) == kind = "loadbalancer" /\ Replace(t)

CreateBox(t) ==
    /\ Step(t, "provision", "replaced", IF box = "none" THEN "created" ELSE "failed")
    /\ box' = IF box = "none" THEN "created" ELSE box

StartBox(t) ==
    /\ Step(t, "provision", "created", IF box = "none" THEN "failed" ELSE "succeeded")
    /\ box' = IF box = "none" THEN "none" ELSE "running"

\* Mutant: a database that runs is left alone.
StopIdleBox(t) ==
    /\ Step(t, "stop", "command", IF box = "none" THEN "failed" ELSE "succeeded")
    /\ UNCHANGED box

StopBox(t) ==
    /\ Step(t, "stop", "command", IF box = "none" THEN "failed" ELSE "succeeded")
    /\ box' = IF box = "running" THEN "stopped" ELSE box

RemoveBox(t, k, end) ==
    /\ kind = k
    /\ Step(t, "remove", "command", end)
    /\ box' = "none"

\* Docker refuses to remove by its name what is not there.
EndOfRemoval == IF box = "none" THEN "failed" ELSE "succeeded"

RemoveDatabase(t) == RemoveBox(t, "database", EndOfRemoval)
RemoveStorage(t) == RemoveBox(t, "bucket", EndOfRemoval)

\* By label too, which does not mind. (No job gets as far as REMOVE_LB: see Read.)
RemoveFunction(t) == RemoveBox(t, "function", "succeeded")

Backup(t) ==
    /\ Step(t, "backup", "command", IF box = "running" THEN "succeeded" ELSE "failed")
    /\ UNCHANGED box

\* Claimed before it is signed, a command is reported failed and not executed.
RefuseCommand(t) ==
    /\ stage[t] = "command"
    /\ Goto(t, "failed")
    /\ mixed' = TRUE
    /\ UNCHANGED <<kind, status, deleted, action, box, faults>>

\* Docker, the build or the timeout ends the command where it is.
CommandFails(t) ==
    /\ stage[t] \in AgentStages
    /\ Fault
    /\ Goto(t, "failed")
    /\ UNCHANGED <<kind, status, deleted, action, box, mixed>>

\* The agent dies with all it was doing; nothing is reported of it.
AgentDies ==
    /\ \E t \in Tasks : stage[t] \in {"replaced", "created", "succeeded", "failed"}
    /\ Fault
    /\ stage' = [t \in Tasks |-> IF stage[t] \in {"replaced", "created", "succeeded", "failed"}
                                 THEN "done" ELSE stage[t]]
    /\ UNCHANGED <<kind, status, deleted, action, box, mixed>>

-----------------------------------------------------------------------------
(* Reports: deletedAt is not looked at, and a backup leaves the row running. *)

\* Mutant: the status of the command is written into the row.
CommandStatus(t) == stage[t]

StatusAfter(t) ==
    CASE action[t] = "provision" -> IF stage[t] = "succeeded" THEN Up ELSE "failed"
      [] action[t] = "stop"      -> IF stage[t] = "succeeded" THEN "stopped" ELSE "failed"
      [] action[t] = "backup"    -> "running"
      [] OTHER                   -> status

Report(t) ==
    /\ stage[t] \in {"succeeded", "failed"}
    /\ Goto(t, "done")
    /\ status' = StatusAfter(t)
    /\ UNCHANGED <<kind, deleted, action, box, mixed, faults>>

\* The answer to a report is lost, so it is sent again; or all attempts fail.
ReportUnanswered(t) ==
    /\ stage[t] \in {"succeeded", "failed"}
    /\ Fault
    /\ \/ status' = StatusAfter(t) /\ UNCHANGED stage
       \/ Goto(t, "done") /\ UNCHANGED status
    /\ UNCHANGED <<kind, deleted, action, box, mixed>>

-----------------------------------------------------------------------------
Request(t) ==
    \/ CreateDatabase(t) \/ CreateBucket(t) \/ CreateFunction(t) \/ CreateLoadBalancer(t)
    \/ ActOnDatabase(t) \/ Reconcile(t)
    \/ DeleteDatabase(t) \/ DeleteBucket(t) \/ DeleteFunction(t) \/ DeleteLoadBalancer(t)

DispatchAny(t) ==
    DispatchDatabase(t) \/ DispatchBucket(t) \/ DispatchFunction(t) \/ DispatchLoadBalancer(t)

Work(t) ==
    \/ AddJob(t) \/ Read(t) \/ DispatchAny(t)
    \/ ProvisionDatabase(t) \/ ProvisionStorage(t) \/ DeployFunction(t) \/ ProvisionLb(t)
    \/ CreateBox(t) \/ StartBox(t) \/ StopBox(t) \/ Backup(t)
    \/ RemoveDatabase(t) \/ RemoveStorage(t) \/ RemoveFunction(t)
    \/ Report(t)

Break(t) == RequestDies(t) \/ WorkerDies(t) \/ CommandFails(t) \/ ReportUnanswered(t)

Next == AgentDies \/ \E t \in Tasks : Request(t) \/ Work(t) \/ RefuseCommand(t) \/ Break(t)

Spec == Init /\ [][Next]_vars

\* Something of what is under way goes on; nobody has to ask for anything.
Fairness == WF_vars(\E t \in Tasks : Work(t))
FairSpec == Spec /\ Fairness

-----------------------------------------------------------------------------
(* Properties *)

TypeOK ==
    /\ kind \in Kinds
    /\ status \in Transient \union {"none", "running", "active", "stopped", "failed"}
    /\ deleted \in BOOLEAN
    /\ action \in [Tasks -> {"none", "provision", "stop", "backup", "remove"}]
    /\ stage \in [Tasks -> AgentStages \union Ended
                           \union {"add", "job", "read", "succeeded", "failed"}]
    /\ box \in {"none", "created", "running", "stopped"}
    /\ mixed \in BOOLEAN
    /\ faults \in 0 .. MaxFaults

Undisturbed == ~mixed /\ faults = 0

\* When nothing is under way, the status of a row tells what the container does, unless
\* requests overlapped, a command was refused or something failed. The one exception is the code's own: a
\* backup of a stopped database, which fails, leaves the row "running".
StatusHasCause ==
    Quiet /\ Undisturbed /\ status /= "none" /\ ~deleted =>
        \/ status = Up /\ box = "running"
        \/ status = "stopped" /\ box = "stopped"
        \/ status = "running" /\ box = "stopped" /\ \E t \in Tasks : action[t] = "backup"

\* A container outlives its deleted resource only if requests overlapped, a command was
\* refused or something failed, or if it is a load balancer's, which no job ever removes.
OrphanHasCause ==
    Quiet /\ Undisturbed /\ deleted /\ kind /= "loadbalancer" => box = "none"

\* A row does not stay "provisioning", "deploying" or "backing_up" unless something failed:
\* whatever overlaps, the last to write the row is a report.
TransientEnds == status \in Transient ~> status \notin Transient \/ faults > 0

=============================================================================
