------------------------------ MODULE Triggers ------------------------------
(***************************************************************************)
(* What creates deployments, for the apps of one workspace wired to one    *)
(* branch, during one day:                                                 *)
(*                                                                         *)
(*   deliveries  of the classic webhook: stored once per delivery id,      *)
(*               queued, and processed by a job that creates a deployment  *)
(*               of every app (routes/webhooks.ts, processors/webhook.ts); *)
(*   pushes      of the GitHub App: the request deploys every app          *)
(*               (handlePush in routes/webhooks.ts);                       *)
(*   users       ask to deploy one app (triggerDeployment).                *)
(*                                                                         *)
(* Pushes and users are held to the daily limit of the plan; deliveries    *)
(* are not. A transaction reads the last version of the app and inserts    *)
(* the next at READ COMMITTED: of two that overlap, the unique index       *)
(* [appId, version] lets one through and the other throws.                 *)
(***************************************************************************)
EXTENDS Integers, FiniteSets, Faults

CONSTANTS
    Deliveries, Pushes, Users,
    Apps, NoApp,    \* the apps wired to the pushed branch
    Placed,         \* those with a node
    MaxPerDay,      \* maxDeploymentsPerDay of the plan
    MaxMakers       \* bound on the deliveries, pushes and users that act

ASSUME PlacedAssumption ==
    /\ Placed \subseteq Apps /\ Placed /= {} /\ NoApp \notin Apps
    /\ MaxPerDay \in Nat /\ MaxMakers \in Nat
ASSUME MakerAssumption ==
    Deliveries \intersect (Pushes \union Users) = {} /\ Pushes \intersect Users = {}

VARIABLES
    at,         \* at[m]: where maker m stands
    left,       \* left[m]: the apps its loop has still to visit
    app,        \* app[m]: the app it is at, if any
    seen,       \* seen[m]: the last version its transaction read
    processed,  \* processed[d]: flag of the stored delivery
    version,    \* version[a]: the last version of the app's deployments
    usage,      \* the deployments counted today
    queued,     \* the deployments <<a, v>> whose deploy job was added
    \* history
    made,       \* made[m][a]: deployments of a that m created
    died,       \* died[m]: workers that died in the job of m
    over        \* over[m]: those of m, held to the limit, created at or over it

triggerVars == <<at, left, app, seen, processed, version, usage, queued, made, died, over>>
loopVars == <<processed, version, usage, queued, made, died, over>>

ApiMakers == Pushes \union Users
Makers == Deliveries \union ApiMakers

TriggersInit ==
    /\ at = [m \in Makers |-> "idle"]
    /\ left = [m \in Makers |-> {}]
    /\ app = [m \in Makers |-> NoApp]
    /\ seen = [m \in Makers |-> 0]
    /\ processed = [d \in Deliveries |-> FALSE]
    /\ version = [a \in Apps |-> 0]
    /\ usage = 0
    /\ queued = {}
    /\ made = [m \in Makers |-> [a \in Apps |-> 0]]
    /\ died = [d \in Deliveries |-> 0]
    /\ over = [m \in ApiMakers |-> 0]

Step(m, from, to) ==
    /\ at[m] = from
    /\ at' = [at EXCEPT ![m] = to]

Begin(m, to) ==
    /\ Cardinality({n \in Makers : at[n] /= "idle"}) < MaxMakers
    /\ Step(m, "idle", to)

\* m is through with its app, or has not come to it.
LeaveApp(m) ==
    /\ app' = [app EXCEPT ![m] = NoApp]
    /\ seen' = [seen EXCEPT ![m] = 0]

-----------------------------------------------------------------------------
(* The classic webhook *)

\* A delivery id that is already stored is answered as a duplicate.
Store(d) ==
    /\ Begin(d, "stored")
    /\ UNCHANGED <<left, app, seen, loopVars, faults>>

AddDelivery(d) ==
    /\ Step(d, "stored", "waiting")
    /\ UNCHANGED <<left, app, seen, loopVars, faults>>

StartDelivery(d) ==
    /\ Step(d, "waiting", IF processed[d] THEN "done" ELSE "next")
    /\ left' = [left EXCEPT ![d] = Apps]
    /\ UNCHANGED <<app, seen, loopVars, faults>>

\* Mutant: an exception leaves the delivery unprocessed, and BullMQ tries it again.
RetryThrown(d) ==
    /\ at' = [at EXCEPT ![d] = IF at[d] = "thrown" THEN "waiting" ELSE "done"]
    /\ \/ at[d] = "next" /\ left[d] = {} /\ processed' = [processed EXCEPT ![d] = TRUE]
       \/ at[d] = "thrown" /\ UNCHANGED processed
    /\ LeaveApp(d)
    /\ UNCHANGED <<left, version, usage, queued, made, died, over, faults>>

\* The loop is over, or it was left by an exception: `finally` sets the flag.
FinishDelivery(d) ==
    /\ \/ at[d] = "next" /\ left[d] = {}
       \/ at[d] = "thrown"
    /\ at' = [at EXCEPT ![d] = "done"]
    /\ processed' = [processed EXCEPT ![d] = TRUE]
    /\ LeaveApp(d)
    /\ UNCHANGED <<left, version, usage, queued, made, died, over, faults>>

\* A stalled job is started once more, from the first app.
WorkerDies(d) ==
    /\ at[d] \in {"next", "read", "insert", "enqueue", "thrown"}
    /\ Fault
    /\ at' = [at EXCEPT ![d] = IF died[d] = 0 THEN "waiting" ELSE "lost"]
    /\ died' = [died EXCEPT ![d] = @ + 1]
    /\ LeaveApp(d)
    /\ UNCHANGED <<left, processed, version, usage, queued, made, over>>

-----------------------------------------------------------------------------
(* Pushes and users *)

StartPush(p) ==
    /\ Begin(p, "next")
    /\ left' = [left EXCEPT ![p] = Apps]
    /\ UNCHANGED <<app, seen, loopVars, faults>>

StartUser(u) ==
    /\ Begin(u, "admit")
    /\ \E a \in Apps : app' = [app EXCEPT ![u] = a]
    /\ UNCHANGED <<left, seen, loopVars, faults>>

\* A failure of one app is logged, and the next one is visited.
FinishRequest(m) ==
    /\ \/ at[m] = "next" /\ left[m] = {} /\ at' = [at EXCEPT ![m] = "done"]
       \/ Step(m, "thrown", "next")
    /\ LeaveApp(m)
    /\ UNCHANGED <<left, loopVars, faults>>

RequestDies(m) ==
    /\ \/ m \in ApiMakers /\ at[m] \notin {"idle", "done", "lost"}
       \/ at[m] = "stored"
    /\ Fault
    /\ at' = [at EXCEPT ![m] = "lost"]
    /\ LeaveApp(m)
    /\ UNCHANGED <<left, loopVars>>

\* The node and the day's usage are looked at outside of the transaction.
Admit(m) ==
    /\ Step(m, "admit", IF app[m] \in Placed /\ usage < MaxPerDay THEN "read" ELSE "thrown")
    /\ UNCHANGED <<left, app, seen, loopVars, faults>>

-----------------------------------------------------------------------------
(* Creation of a deployment *)

\* Mutant: an app without a node ends the loop of the worker.
VisitUntilUnplaced(m) ==
    /\ at[m] = "next"
    /\ \E a \in left[m] :
        /\ app' = [app EXCEPT ![m] = a]
        /\ left' = [left EXCEPT ![m] = @ \ {a}]
        /\ at' = [at EXCEPT ![m] = IF m \in ApiMakers THEN "admit"
                                   ELSE IF a \in Placed THEN "read" ELSE "thrown"]
    /\ UNCHANGED <<seen, loopVars, faults>>

\* The worker passes over an app without a node.
Visit(m) ==
    /\ at[m] = "next"
    /\ \E a \in left[m] :
        /\ app' = [app EXCEPT ![m] = a]
        /\ left' = [left EXCEPT ![m] = @ \ {a}]
        /\ at' = [at EXCEPT ![m] = IF m \in ApiMakers THEN "admit"
                                   ELSE IF a \in Placed THEN "read" ELSE "next"]
    /\ UNCHANGED <<seen, loopVars, faults>>

ReadVersion(m) ==
    /\ Step(m, "read", "insert")
    /\ seen' = [seen EXCEPT ![m] = version[app[m]]]
    /\ UNCHANGED <<left, app, loopVars, faults>>

\* The deployment, the app's status and the count are written together.
Insert(m) ==
    LET a == app[m] IN
    /\ Step(m, "insert", "enqueue")
    /\ version[a] = seen[m]
    /\ version' = [version EXCEPT ![a] = @ + 1]
    /\ usage' = usage + 1
    /\ made' = [made EXCEPT ![m][a] = @ + 1]
    /\ over' = [n \in ApiMakers |-> over[n] + IF n = m /\ usage >= MaxPerDay THEN 1 ELSE 0]
    /\ UNCHANGED <<left, app, seen, processed, queued, died, faults>>

Conflict(m) ==
    /\ Step(m, "insert", "thrown")
    /\ version[app[m]] /= seen[m]
    /\ LeaveApp(m)
    /\ UNCHANGED <<left, loopVars, faults>>

Enqueue(m) ==
    /\ Step(m, "enqueue", "next")
    /\ queued' = queued \union {<<app[m], seen[m] + 1>>}
    /\ LeaveApp(m)
    /\ UNCHANGED <<left, processed, version, usage, made, died, over, faults>>

\* A statement, the transaction or queue.add fails.
CreationFails(m) ==
    /\ at[m] \in {"admit", "read", "insert", "enqueue"}
    /\ Fault
    /\ at' = [at EXCEPT ![m] = "thrown"]
    /\ LeaveApp(m)
    /\ UNCHANGED <<left, loopVars>>

-----------------------------------------------------------------------------
TriggersNext ==
    \/ \E d \in Deliveries :
        \/ Store(d) \/ AddDelivery(d) \/ StartDelivery(d) \/ FinishDelivery(d) \/ WorkerDies(d)
    \/ \E p \in Pushes : StartPush(p)
    \/ \E u \in Users : StartUser(u)
    \/ \E m \in ApiMakers : FinishRequest(m) \/ Admit(m)
    \/ \E m \in Makers :
        \/ Visit(m) \/ ReadVersion(m) \/ Insert(m) \/ Conflict(m) \/ Enqueue(m)
        \/ CreationFails(m) \/ RequestDies(m)

TriggersSpec == TriggersInit /\ faults = 0 /\ [][TriggersNext]_<<triggerVars, faults>>

-----------------------------------------------------------------------------
(* Properties *)

TriggersTypeOK ==
    /\ at \in [Makers -> {"idle", "stored", "waiting", "next", "admit", "read", "insert",
                          "enqueue", "thrown", "done", "lost"}]
    /\ left \in [Makers -> SUBSET Apps]
    /\ app \in [Makers -> Apps \union {NoApp}]
    /\ seen \in [Makers -> Nat]
    /\ processed \in [Deliveries -> BOOLEAN]
    /\ version \in [Apps -> Nat]
    /\ usage \in Nat
    /\ queued \subseteq Apps \X (Nat \ {0})
    /\ made \in [Makers -> [Apps -> Nat]]
    /\ died \in [Deliveries -> Nat]
    /\ over \in [ApiMakers -> Nat]

\* A delivery deploys an app once, and once more for every worker that died in its job,
\* however often GitHub delivers it; a push and a user deploy it at most once, and
\* overrun the daily limit by at most the one deployment they were admitted for before
\* others were counted.
DeploysOnce ==
    /\ \A m \in Makers, a \in Apps :
        made[m][a] <= 1 + IF m \in Deliveries THEN died[m] ELSE 0
    /\ \A m \in ApiMakers : over[m] <= 1

Versions == UNION {{a} \X (1..version[a]) : a \in Apps}
Unqueued == Versions \ queued
Enqueuing == {m \in Makers : at[m] = "enqueue"}

\* A delivery or a push that ends without a deployment of some app that has a node was
\* overlapped by someone else's deployment or met a failure; a push may also have met
\* the daily limit. A deployment that never gets a job cost a failure each.
MissHasCause ==
    /\ \A m \in Deliveries \union Pushes, a \in Placed :
        at[m] = "done" /\ made[m][a] = 0 =>
            \/ faults > 0
            \/ \E n \in Makers \ {m}, b \in Placed : made[n][b] > 0
            \/ m \in Pushes /\ usage >= MaxPerDay
    /\ Cardinality(Unqueued) <= faults + Cardinality(Enqueuing)
=============================================================================
