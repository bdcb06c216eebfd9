# YourStack, specified

YourStack is a self-hosted deployment platform: a control plane (a Fastify API
and BullMQ workers over Postgres and Redis) and, on every machine that runs
applications, an agent written in Rust.  This directory specifies in TLA+ how
the parts work together: which process writes which row when, what is lost when
one of them dies, and what the rest makes of it.  TLC checks the modules on
small instances; TLAPS proves the central theorems for every instance.

## 1. The system

    browser, CLI, git  ->  API  ->  Postgres  <-  workers (BullMQ on Redis)
                            ^
                            |  HTTP, always opened by the agent
                          agent (one per node)  ->  Docker, Caddy

Nothing here holds a lock across two database statements.  Each route handler
and each job is a sequence of statements with an `await` between them, and
every other process may run in between.  That is where most of the hazards in
`PROJECT.json` come from.

| Component | State | Operations | Talks to | Hard | What makes it correct |
|---|---|---|---|---|---|
| Command dispatch and delivery (`command.service.ts`, `worker/lib/command.ts`, `routes/agent.ts`, `agent/daemon.rs`) | `NodeCommand` rows; what the agent has in hand | create, sign, claim, verify, execute, report | every component dispatches through it | rows are read and marked, created and signed in two statements; requests time out and are repeated; the agent restarts | executed at most once, only if signed; the row never says more than what happened; queued commands leave the queue |
| Deployment lifecycle (`deployment.service.ts`, `processors/deploy.ts`, `healthcheck.ts`, `rollback.ts`, `command-result.service.ts`, `routes/apps.ts`) | `Deployment`, `App`, `PipelineRun` rows; three kinds of jobs | create, build, dispatch, settle, roll back, stop, delete, move | delivery; node removal | four kinds of writers without a lock; jobs that stall and run twice; reports that repeat | one running deployment, the current one; it succeeded on the node; one command per deployment; everything settles |
| Pipeline stages and logs, realtime hub (`processors/deploy.ts`, `command-result.service.ts`, `realtime/hub.ts`, `use-sse.ts`, the CLI's `deploy`) | `PipelineStage`, `DeploymentLog` rows; events in Redis; what a page shows | open, close, append, publish, read again | deployment lifecycle | rows are read before the stream is open; a stream reconnects and asks for nothing; who closes the stages of a run that fails | whoever watches learns how it ended; no stage left unfinished |
| Node lifecycle (`routes/agent.ts`, `routes/nodes.ts`, `maintenance.ts`) | `Node`, `NodeJoinToken` rows | register, heartbeat, sweep, drain, remove | placement, delivery | the sweep decides on what it read before | a silent node goes offline, a live one comes back; tokens are used once |
| Cron jobs (`routes/cron.ts`, `processors/cron.ts`, `applyCronRunResult`) | `CronJob`, `CronRun` rows; the repeatable schedule in Redis | create, patch, delete, run now, fire, result | delivery | status is written by four processes from stale reads | schedule follows the row; a run says what happened |
| Git webhooks, GitHub App (`routes/webhooks.ts`, `processors/webhook.ts`, `github-app.ts`) | `GitWebhook`, `GithubInstallation` rows | receive, queue, process; link, sync | deployment lifecycle | a crash between store and queue; a failure in the middle of the apps; events of an installation out of order | one deployment per app and push, none missed without a cause; the link is what GitHub has |
| Autoscaling (`processors/autoscale.ts`, `routes/scaling.ts`) | `ScalingPolicy` rows, `App.replicas` | evaluate, scale, report | delivery, metrics | read-then-write of the replica count | count within bounds, cooldown kept |
| Managed resources (databases, buckets, functions, load balancers, runners) | a row with a status each | provision, stop, backup, report, remove | delivery | removal while a provision is under way; repeated jobs and reports | status agrees with the node; no orphan; nothing stays transient |
| Firewalls (`routes/firewalls.ts`, `processors/firewall.ts`) | a row with a status, one table per node | apply to many nodes, patch, remove | delivery | one status for many reports; a job id that is still known; one table for all firewalls | active means enforced |
| Domains (`routes/domains.ts`, `processors/domain.ts`) | `Domain` rows, routes in Caddy | add, verify, route, remove | delivery, deploys | verification retries against removal; two ways to a route | only verified domains are routed, to the container of the last deploy |
| Containers and images on the node (`executor.rs`, `docker.rs`, `resources.rs`) | Docker's containers, images, build directories | deploy, roll back, restart, stop, remove, run a job, prune | Docker | concurrent executors share a container's name and an image's tag; two timeouts per job | the container is the one that was asked for last, and runs the code its release names; jobs end as reported |
| Permissions (`rbac.ts`, `auth.ts`, `organizations.ts`, `workspaces.ts`) | members, teams, grants; sessions and tokens | invite, change role, remove, grant, suspend; find who asks and its role | every route | the guard of the last owner counts, then writes; a role is read in four places while others write them | there is always an owner; who acts had the role, who is turned away had not |
| Secrets (`routes/secrets.ts`, `lib/secrets.ts`) | `Secret` rows | write, update, delete, resolve | deploys | nulls in a unique index | the value written last reaches the app |
| Placement, templates, blueprint (`routes/blueprint.ts`) | none of its own | plan, apply, export | all resources | an apply repeated, or at once with another | nothing twice, everything there |
| Web, CLI, MCP server | the builder's canvas; pages | draw, plan, apply, watch | API | answers that arrive after the page moved on | what is confirmed is what was shown; the YAML stands for the canvas |
| Audit; metrics and log ingestion; infrastructure | see `PROJECT.json` | | | | |

What is not modelled, with the reason, is in section 8.

## 2. The modules

| Module | Models | Composed with |
|---|---|---|
| `CommandContract` | what the control plane and a node promise one another about commands, without rows, polls or reports | |
| `CommandDelivery` | how a command gets to the node and its result back | implements `CommandContract` |
| `DeploymentContract` | what the control plane promises of deployments, without jobs, transactions, crashes or repeated reports | |
| `DeploymentLifecycle`, `MCDeploymentLifecycle` | deployments, their jobs, the safety net, reports, acts of operators | assumes of the node what `CommandContract` promises; implements `DeploymentContract` |
| `NodeLifecycle` | join tokens, registration, heartbeat, sweep, drain, disable, remove | |
| `CronJobs`, `MCCronJobs` | one cron job: row, schedule in Redis, runs, results | assumes `CommandContract` |
| `Autoscaling`, `MCAutoscaling` | one app's policy: evaluations, cooldown, scaling on the node, reports | assumes `CommandContract` |
| `ManagedResources` | one database, bucket, function or load balancer from request to report | assumes `CommandContract` |
| `Triggers` | what creates deployments: webhook deliveries, pushes, users; the daily limit; versions | `MCControlPlane` |
| `Installations` | the link between an installation of the GitHub App and a workspace | `MCControlPlane` |
| `Firewalls` | firewalls, their jobs and commands, the one table of each node | `MCControlPlane` |
| `Domains` | domains, their verification, the two ways to a route | `MCControlPlane` |
| `Blueprint` | applying a blueprint again and at once | `MCControlPlane` |
| `Members` | members of an organization and a workspace | `MCControlPlane` |
| `Access` | one person: session, token, roles, teams and grants, and a request that reads them | `MCControlPlane` |
| `Secrets` | one key of an app and its project, and what the app gets | `MCControlPlane` |
| `NodeContainers` | the commands of one app on its one container | `MCControlPlane` |
| `NodeJobs` | runs of jobs on a node under two timeouts | `MCControlPlane` |
| `Releases` | which code a deployment or a rollback runs | `MCControlPlane` |
| `DeploymentPage` | stages, log, events and who watches them | `MCDashboard` |
| `Builder` | canvas, YAML, import and plan | `MCDashboard` |
| `Faults` | the one bounded supply of faults of the composed modules | |
| `MCControlPlane`, `MCDashboard` | parts that share no row; TLC explores each alone, since their product would say nothing more | |
| `*Proofs` | theorems about the module they are named after | |
| `ControlPlaneProofs` | theorems about the parts that live in the API: `Secrets`, `Members`, `Triggers`, `Access`, `Installations`, `Blueprint`; and about `Builder` | with `NodeProofs`: theorems about `MCControlPlane` and `MCDashboard` |
| `NodeProofs` | theorems about the parts that end at a node: `NodeJobs`, `NodeContainers`, `Releases`, `Firewalls`, `Domains`; and about `DeploymentPage`, which watches it | |

In all of them an action is one database statement, or one transaction where
nobody can tell its statements apart, or one step of the agent.  What a process
keeps in local variables across an `await` is a variable of the module.  A crash
(`...Dies`), a failing statement, a lost answer is an action of its own and costs
one of `MaxFaults`.  Variables marked *history* in the modules are read by
properties only; the code has no such state.  Definitions whose comment begins
with *Mutant* are plausible mistakes: no specification uses them, and for each
property of a run one of them, put in the place of the action that follows it,
makes TLC find the property violated.

### 2.1 CommandDelivery

| State | In the code |
|---|---|
| `status`, `signed`, `issuedAt` | the columns of `NodeCommand`; `signed` is whether `signature` is not `''` |
| `dispatch[c]` | how far `createSignedCommand` (worker) or `createCommand` (API) is: the row is created, then signed |
| `pc[r]`, `read[r]`, `valid[r]` | a `GET /agent/commands` handler: where it stands, the rows it has read, those that were signed then |
| `awaits`, `inHand`, `inHandValid`, `task` | the agent's process: the poll it waits for, the envelopes it has received, what it does with each |
| `late` | reports the agent has stopped waiting for and the API may still apply |

`CreateRow`, `SignRow` are the two writes of a dispatcher.  `HeartbeatThenPoll`,
`PollAgain`, `PollGivenUp` are the agent's client; `ClaimRead`, `ClaimMark`,
`Answer` are `claimCommands`, whose long poll looks a second time.  `Spawn` and
`Reject` are `verify_command`'s two results, `Finish` is the executor, `Report`
and its variants are the report with its retries, `ApplyLate` a report that
arrives after the agent gave it up.  `AgentDies` forgets what the agent holds.

Abstracted: the payload, the signature (a row is signed or not) and the clock (a
request may time out at any moment).  The agent's polls follow one another; it
begins a new one only when it has given the last one up.

### 2.2 DeploymentLifecycle

| State | In the code |
|---|---|
| `status`, `snapshot`, `run` | `Deployment.status`, `specSnapshot`, `PipelineRun.status` |
| `appStatus`, `current`, `assigned`, `deleted` | `App.status`, `currentDeploymentId`, `nodeId`, `deletedAt` |
| `birth[d]` | how far `createDeployment` or `processRollback` is |
| `job[d][k]` | the `k`-th time BullMQ runs the deploy job |
| `net[d]` | the delayed `healthcheck` job |
| `commands`, `exec`, `outcome` | the command of `d` and its execution |
| `handler[d]`, `scanned[d]` | `applyCommandResult` for the final report, statement by statement |

The transaction in `finalizeSuccessfulDeploy` runs at Postgres' default isolation
level, READ COMMITTED, and is therefore not one action: `FinalizeMark` takes the
lock of the deployment it marks running, `FinalizeScan` reads which siblings are
running *and committed*, `FinalizeCommit` makes everything visible.  Statements
on a locked row wait (`Locked`).  Two transactions that wait for one another are
`Deadlock`: Postgres aborts one and the agent has to report again.

`deploy_app` makes an unhealthy container an error and the API treats a success
that says unhealthy as a failure, so work that was done has two outcomes; a third,
`refused`, is that of a command the agent turns away before any work.  An agent whose
report that it runs is never answered works all the same (`RunningUnreported`).  Not in
the module: stages and logs of a pipeline run,
`RESTART_APP`, which writes no row, and version numbers.

### 2.3 NodeLifecycle

| State | In the code |
|---|---|
| `token[t]`, `reg[n]`, `with[n]` | `NodeJoinToken`, and `POST /agent/register` between its check and its transaction |
| `status`, `age`, `credential`, `disabled`, `deleted` | columns of `Node`; `age` is the age of `lastHeartbeatAt` in three grades |
| `beats[n]` | heartbeats the API has authenticated and not yet applied |
| `requests[n]` | operators' requests that have found the row and not yet written it |
| `sweep[s][n]` | what sweep `s` has decided to write, from its one read of all nodes |

`SweepRead` and `SweepWrite` are the `node_liveness` job of `maintenance.ts`,
one write per node;
`ApplyBeat` is the heartbeat's update; `Drain`, `SetDisabled`, `Remove` are the
three routes of `nodes.ts`.  Left out: labels, telemetry, the minting of tokens.

### 2.4 CronJobs

`control[j]` is the control job with id `j` (the requests of a cron job share
`cron-<id>`, a triggered run has an id of its own) and `found[j]` what
`reconcileScheduler` is about to register; `fire[r]`, `run[r]`, `result[r]` are
the fire job, the row and the result handler of run `r`.  `strayed` is history:
it is set where one of the four races named at `ScheduleFollowsRow` happens, and
nowhere else, so the property says that there is no fifth.

BullMQ is external.  Assumed of it: a job whose id it still knows, waiting or
among the last 200 that ended, is ignored; a stalled job is run once more; and
the id given to `add(..., { repeat, jobId })` and to `removeJobScheduler` names
the same schedule.  The last assumption is the code's, not ours; whether the
installed version of BullMQ makes it true cannot be seen in the repository.

### 2.5 Autoscaling

`eval[e]` and `seen[e]` are `processAutoscale` between its read, its decision and
its last write; `task[e]` and `listed[e]` are `scale_app` on the node, which
lists the containers once and then removes and creates; `Desired` is
`computeDesiredReplicas` in whole percentages.  `crossed` and `strayed` are
history: `crossed` holds the evaluations that another evaluation or a request met
between its read and its write, `strayed` says that the last scaling met
another one, was refused, timed out or went wrong on the node, or that the report of
an earlier one came after it.

A command that was claimed before it was signed is reported failed and not executed
(`ScaleRefuse`), and `Report` writes the count all the same, as
`command-result.service.ts:336` does.  A report that is sent again because its answer
was lost leaves a copy in `copies`, which may be applied at any later moment
(`ReportTwice`, `ReportLate`).

### 2.6 ManagedResources

One resource of any kind.  `status` and `deleted` are the columns of its row,
`action[t]` and `stage[t]` what the `t`-th request asks for and how far request,
job, command and report of it are, `box` the container with the resource's name.
Requests (`CreateDatabase`, ..., `DeleteLoadBalancer`) write the row and add the
job in the next step; `Read` and `Dispatch...` are the processors of the four
queues; `ProvisionDatabase`, `ProvisionStorage`, `DeployFunction`, `ProvisionLb`
prepare what the container needs and remove its predecessor, `CreateBox` and
`StartBox` are the rest of `run_container`; `Report` is `applyResourceResult`.  A
worker that dies leaves its job to a second attempt.  `mixed` is history:
something was asked for before all that was asked earlier had ended, or a command was
refused.  Left out:
runners (see section 8), invocations and spare instances of functions, dumps,
credentials.

### 2.7 Triggers and Installations

`at[m]` says where maker `m` (a delivery of the webhook, a push through the App, a
user) stands, `left[m]` which apps its loop has still to visit, `seen[m]` the
last version its transaction read.  `Store`, `AddDelivery`, `StartDelivery`,
`FinishDelivery` are the two halves of the classic webhook; `Admit` is the check
of the daily limit, outside of the transaction; `ReadVersion`, `Insert` and
`Conflict` are the transaction at READ COMMITTED and its unique index.  GitHub
delivers again what it was not answered.

`Installations` has what GitHub has (`hub`), the events of its changes, the
callback of the browser and the row (`link`).  `ReadLink` and `SyncLink` are the
two statements of `syncInstallation`.  `astray` is history: an event was lost,
handled out of order, beside another one or beside the callback.

### 2.8 Firewalls

`fw[f]` is the row, `job[f][a]` the job with the id `fw-<id>`, `todo[f]` what the
apply job has read, `table[n]` the one nftables table of a node.  `SendToNode`
writes one command per node, `Enforce` replaces the table, `RefuseFirewall` reports an
unsigned command failed and leaves the table alone, `ReportFirewall` sets the one status
of the firewall by the report of one node.  A node in `Broken` cannot enforce.

`AddFirewallJob` is ignored while BullMQ knows the id; that of a completed job it may
have forgotten (`removeOnComplete`, which keeps 200), whether or not the commands of
that job have been executed.  So the commands of two applies may be on their way to one
node and run in either order: a command carries the number of the `starts` of its job.
History: `cause[f]` collects why the status of `f` may say less than it seems to (it was
patched, its apply met commands of the one before, something was lost, a request to
apply was ignored), `declined[f]` the nodes that refused.

### 2.9 Domains

`domain[h]` is the status, `check[h][j]` the `j`-th verification with its attempts,
`route[h]` what Caddy does with the host.  There are two ways to a route:
`SendConfigure` and `ConfigureDomain` after a verification, and a deploy, which routes
the oldest verified domain.  DNS and Caddy are external.

The deploys of the app overlap: `deploys[d]` is where the `d`-th stands, and `port` the
one that brought the container there is.  `PickDomain` builds the specification of a
deploy, `PickSnapshot` takes that of an earlier one for a rollback; on the node come
`RunContainer`, `FindHealthy` and `RouteDeploy`, or `DeployFails` at any of them.
Between the last two another deploy may replace the container, and then the route leads
to a port where nothing listens any more; `behind[h]` is set where that happens.
`RefuseConfigure` is an unsigned command, at whose report nobody looks (`unheeded`).

### 2.10 Blueprint

`stage[a]`, `pos[a]`, `plan[a]` follow one `POST /blueprint/apply` through the
kinds of resources in their order: `ComputePlan` reads what exists, `CreateItem`
writes the row, `CompleteItem` is the second write of items that have one (the
job, the environment of an app).  `ItemConflicts` is a unique index of the
schema.  One item of each kind; `DeleteItem` deletes softly.

### 2.11 Members, Access and Secrets

`request[r]` is one request about a member between its statements: `ReadMember`,
`CountOwners` (the guard of the last owner), `WriteMember`.

`Access` follows one request of one person: `ResolveSession` and `ResolveToken` find
who asks, `ReadWorkspace`, `ReadOrgMember`, `ReadWorkspaceMember` and `ReadGrants` are
the four reads of `resolveMembership`, `RequireOrgRole` is the one of an organization's
routes, and `AssertPermission` compares.  Meanwhile others write what is read: roles,
teams, grants, suspension, sessions, tokens.  A write is one step, for its own checks
only refuse it.  `ask.moments` keeps what held at each moment of the request.

`Secrets` has the rows of one key of the environment with their scopes, and the job that
builds an environment (`ResolveEnv`, `SendEnv`).  `SetSecret` looks for the row it should
replace with empty strings where the columns are null and finds none, so it adds
one; `InjectSecrets` is the template's; `UpdateSecret` goes by the id.  Each row is under
the encryption key that was configured when it was written.  `ReplaceKey` is a platform
started with another one; nothing encrypts the rows anew, and `ResolveEnv` skips those it
cannot decrypt.  `env.rows` and `env.later` are the rows that counted when they were read
and when the command goes out: a value written between the two is not in it.

### 2.12 NodeContainers, NodeJobs, Releases

These three say what `CommandDelivery` leaves open: what a command does on a node
beside other commands.

`NodeContainers`: `task[o]` is where the task of the `o`-th command stands, `box`
the container with the app's name, `path` the deploy whose port the domain is
routed to.  Each call of Docker by name is an action of its own.

`NodeJobs`: `doing[r]`, `shell[r]`, `exit[r]` are the task, the container and the
job in it; `age` and `waited` are the clocks of the two timeouts, that of the
command (`CommandTimeout`) and that of the wait for the exit (`WaitLimit`).
`TimePasses` does not pass a timer that is due.  `PruneJobs`, `RestartAgent` and
`RebootNode` are the operator's requests that reach the containers of jobs.

`Releases`: `heads` are the branches at the Git host, `release[v]` the deployment
with its ref, recorded commit and image tag, `has[v]` what is in its build
directory, `image[t]` what the image with a tag was built from.  `Rollback` copies
ref and tag of its target; `CloneRepo` clones what the branch has by then;
`RunImage` finds the image by its tag.  `git` and `docker build` are processes of
their own: a command that times out leaves a build that still moves the tag
(`LateBuild`), while the end of the agent ends them (`NodeStops`).  An app with a
prebuilt image pulls it by one name (`PullImage`).  A rollback is one action,
since nothing it reads of its target changes later.

### 2.13 DeploymentPage and Builder

`DeploymentPage` follows one deployment from the deploy job to whoever watches it:
`worker`, `node`, `net` write `stages` and `log` and put events on the `wire`;
the hub hands them to a `stream` if it is open, and the page reads again at every
event of status (`AskAgain`, `ReadDeployment`, `ReadRun`).  It reads a limited number of
lines, and of those the stream brings it keeps the last ones (`KeptLines`; 801 in the
code, `LiveLimit` and one more here): what is older is `Displaced`.  `view` says which of what
the page shows still holds.  The command of the CLI listens only (`Reconcile` when
its stream ended).  An agent whose report of the start is never answered works all the
same (`GiveUpRunning`).  Two of the five stages before the dispatch stand for others
like them.

`Builder` has the canvas, the YAML typed beside it, the dialog and the requests on
their way.  `ToBlueprint` and `ToCanvas` are `stateToBlueprint` and `blueprintToState`:
names, targets and joins.  A node is one that relates to others, or a database for those
that do not.  Of a text the module keeps the blueprint and whether its lists are deeper
than their keys: `Printed` is what `toYaml` makes of a blueprint, `Indented` what a user
makes of the text, `Accepted` what `fromYaml` and `validateBlueprint` let pass.  A text as
it was printed is not among it, unless it has no list.  An open dialog covers the page for the
pointer.  It does not hold the focus (`dialog.tsx` has no focus trap), and a user who edits
the canvas under it with the keyboard is left out.

## 3. The runs

| Run | Instance | Shows |
|---|---|---|
| `command_delivery` | 2 commands, 2 polls at once, batches of 1, 2 faults | `AtMostOnce`; `QueueDrains` under fairness; `DeliveryKeepsContract`: the detailed specification implements `CommandContract` |
| `lifecycle` | 2 deployments of one app, 2 faults, the second in a handler | `RunningIsCurrent`, `CurrentSucceeded`, `HandOver`; `DeploymentsKeepContract`: the rows implement `DeploymentContract` |
| `lifecycle_liveness` | 1 deployment, 3 faults, 2 acts of operators | `DispatchedOnce`, `RunOutcomeTrue`, `SafetyNet`, `DeploySettles` |
| `one_running` | 2 deployments, no fault | `OneRunning` is violated |
| `net_spares_reported` | 1 deployment, no fault | `NetSparesReported` is violated |
| `nodes` | 2 nodes, 1 token, 1 sweep that repeats, 2 heartbeats on their way, 1 fault, 1 act | `TokenAdmitsOne`, `RemovedStaysGone`, `SilentEndsOffline`, `LiveComesBack` |
| `cron` | 3 requests, 2 runs, 1 fault | `RunTruthful`, `RunningMeansBusy`, `ScheduleFollowsRow`, `RetiredDispatchesNothing` |
| `trigger_fires` | 2 requests, 1 run, no fault | `TriggerFires` is violated |
| `autoscaling` | 2 evaluations, 2 requests, 3 policies, 3 loads, 1 fault | `NodeAgrees`, `CooldownKept`, `BoundsReached` |
| `resources` | a resource of any kind, 4 requests or second attempts, 1 fault | `StatusHasCause`, `OrphanHasCause`, `TransientEnds` |
| `control_plane` | eleven parts, each alone, 1 fault: 2 deliveries, 2 pushes and a user for 3 apps; 2 firewalls on 2 nodes, one broken, 4 requests and faults; 2 applies; 2 hosts, 2 verifications, 4 requests, deploys, changes of DNS and faults; 3 commands on a container; 3 requests about 2 people; 1 team and 2 writes beside a request; 3 writes of a secret, under two keys; 3 changes of an installation; 2 runs of jobs; 2 releases, 3 commits | `DeploysOnce`, `MissHasCause`, `EnforcedHasCause`, `AppliesConverge`, `RoutesLead`, `BoxFollowsOrders`, `OwnersRemain`, `LastValueReachesApp`, `LinkFollowsHub`, `JobsEndAsReported`, `RunsWhatItNames`, `AccessHasCause` |
| `dashboard` | two pages, each alone: a log of which 2 lines are read at once and 2 live ones kept, 2 events on their way, 5 clicks on a canvas, 1 fault | `WatchersLearnTheEnd`, `AppliesWhatItShows`, `YamlKeepsDrawing` |

The types of the six modules that have a proof module of their own, and of the parts of
`MCControlPlane`, are proved and not checked again.
`YamlKeepsDrawing` is `YamlKeepsCanvas` looked at only where the canvas moves.

**Why these bounds.** The hazards are pairwise: one claim beside another, one
finalizing transaction beside another, a writer that read before and another that
wrote since.  Two of each kind, and one more where a third party has to be there
(the request that creates the cron job, the command that clears what two others
left), reach each of them; a batch of one makes a claim leave a queued row behind
with two commands; a limit of one deployment a day is overrun by the second.  One
fault can strike at every point; two in delivery and three in the life of a single
deployment, so that a retry or a second run can fail as well.  Where two
deployments meet the second fault strikes a handler (`SecondInHandler`), since that is where
they meet and comparing each step with the contract takes its time; all four properties
of that run are proved for any faults.  Many of the safety properties are also
proved without bounds (section 5).  The two releases of `Releases` are a deployment
and a rollback to it, or two deployments of a branch and of a pull request; a third
one only adds company of the same two kinds.  Nodes, deployments, requests and
runs are interchangeable; symmetry is used in runs without liveness properties only.
In `autoscaling` and `control_plane` an `ACTION_CONSTRAINT` (`FirstComesFirst`) does what
symmetry would: of requests, deliveries, pushes, firewalls or hosts that differ in nothing
the one that comes first is always the same.  No fairness is of one of them, so
what is left out is a renaming of what is looked at.

`CHECK_DEADLOCK FALSE` is set where the system may have finished: all commands
reported, all deployments settled, no policy enabled, all clicks made.

## 4. Fairness

Weak fairness, with the reason at the formula, is assumed of what the code itself
keeps going: a handler or a job that has begun resumes after each `await`, BullMQ
runs what is due, repeatable jobs repeat, the agent's process is restarted by its
supervisor.  Nothing is assumed of the network, of operators or of the commands
on a node: a report may never come, and `SafetyNet` and `DeploySettles` hold
nevertheless.

`TransientEnds` asks least: something of what is under way goes on, whichever it is.

Three assumptions are stronger, and each belongs to one property.
`QueueDrains`: the agent keeps sending heartbeats.  `LiveComesBack`: a
heartbeat of an agent that is up gets through now and then (it is repeated five
times every fifteen seconds).  `BoundsReached`: metrics are measured again and
again, which is strong fairness of `EvalDecide`, since an evaluation without
metrics ends and the next one begins; and a command that reached the node, if not
lost, gets done.  Faults are bounded, so every liveness property is a statement
about what happens once they have stopped.

## 5. What is proved

TLAPS checks the theorems for every value of the constants that satisfies the
named assumptions: arbitrary sets of commands, deployments, nodes, evaluations,
any number of overlapping handlers, any number of faults.

**CommandDelivery** (`CommandDeliveryProofs`).  `AtMostOnce` is not inductive.
`IInv` adds who can still deliver a command: only the one poll the agent waits
for (`HandInv`), and what an answer holds has left `queued`, so that no later
claim reads it (`PollInv`).  A command the agent has dealt with is therefore
neither in hand nor in that answer.  From `IInv` follow `TypeCorrect`,
`ExecutedAtMostOnce`, `ExecutedOnlySigned`, `RecordStaysTrue`, and
`DeliveryImplementsContract`: each action maps to an action of
`CommandContract` or to a stutter, under the mapping `Contract`.

**DeploymentLifecycle** (`DeploymentLifecycleProofs`).  `JobInv` says that at most
one run of a deploy job gets past the unique index of the pipeline run, and
before a command exists: `OneCommandPerDeployment`.  `OutcomeInv` ties what is
recorded, and what a handler is about to record, to an execution that is over:
`CurrentDeploymentSucceeded`, `RecordedRunIsTrue`.  `FinalInv` says that a
finalizing transaction alone with its app has read every running sibling, because
each of them had been committed: `RunningDeploymentIsCurrent`, and with it
`SupersededByHandOver`.  `RowInv` says that whoever writes a row finds it there, the
deployment before its jobs and reports and the run before its end, and that a node ends
a command once.  With it every step is one of `DeploymentContract` or a stutter:
`LifecycleKeepsContract`.  The step that has to be looked at is `FinalizeCommit`, which
must replace all that is live and then change over, in one.

**NodeLifecycle** (`NodeLifecycleProofs`).  `TokenInv`: two registrations that
hold one token raced for it: `OneNodePerToken`.  `RowInv`: whoever is about to
write a row found it registered, and a removed row has no credential:
`RemovalIsFinal`.

**CronJobs** (`CronJobsProofs`).  `RunInv` puts what happens to a run in order:
its row, its command, its outcome, a report.  A row can therefore not be created
anew over a result, and a result is the outcome: `RecordedRunEnded`.
`DeletedStaysQuiet` needs no more than that `deletedAt` is never cleared and that
every fire job looks at it first.

**Autoscaling** (`AutoscalingProofs`).  About the decision, for every target,
policy, count and load: `DesiredWithin` and `DesiredMonotone`, by the properties
of the rounded quotient (`CeilDivProperty`, `CeilDivBound`, `CeilDivMonotone`).
`CrossInv` says which evaluations may find the cooldown started under them:
`OneScalingPerCooldown`.  `ScaleInv` follows the one scaling that is under way
when the last one met no other, from the list to the report:
`NodeRunsTheCount`.

`RowInv` and `ScheduleInv` say what each request, job and handler that is on its way
will write: `RunningIsBusy`, because whoever leaves the row at `running` is the fire
job of a run that is not over, or was overtaken; `ScheduleIsKept`, because a row that
was changed has a control job that will read it, unless one of the four races struck.

**ManagedResources** (`ManagedResourcesProofs`).  `StatusIsTold` and `NoOrphan`: at
rest the row tells what the container does, and a deleted resource has none.
Neither is inductive.  While nothing overlaps and nothing fails one task at most is
under way (`Solo`); `UnderWay` says, by what it was asked to do, how far it can be
and what it has done to the container; `Rest` is what it finds and what it
leaves.

**The parts of `MCControlPlane` and `MCDashboard`** (`ControlPlaneProofs`,
`NodeProofs`).  Each theorem is about the specification of one part
(`SecretsSpec`, ...), for every set of users, apps, hosts, nodes, runs, and any
number of requests, writes and faults.  None of the properties is inductive.

| Theorem | Property | What the invariant adds, and why |
|---|---|---|
| `LastValueArrives` | `LastValueReachesApp` | what a job holds that has resolved its environment, against the rows it read: it is the value written last of them, or one of them could not be decrypted, or it is the value of one of several (`ResolvedInv`) |
| `OwnersStay` | `OwnersRemain` | no request names the founder's role in an organization; in a workspace whoever is about to write found another owner, and nobody wrote since (`WorkspaceInv`) |
| `MakersDeployOnce` | `DeploysOnce` | an app still before a maker in this pass of its loop was not made in this pass (`MadeOnce`) |
| `MissesHaveCauses` | `MissHasCause` | what is neither made nor before it was taken by somebody, or failed (`MissInv`); who is about to add a job stands for one version each (`QueueInv`) |
| `AccessHasReasons` | `AccessHasCause` | what has been read was so at a moment of the request; a role put together from four reads is at least that of the last moment if nothing rose, at most that of some moment if nothing fell (`ReadInv`) |
| `LinksFollowHubs` | `LinkFollowsHub` | what none of the events on their way tells of is in the row as it is at GitHub, and in what the callback and the handlers hold (`HubInv`, `OrderInv`, `CallbackInv`, `LinkInv`) |
| `AppliesDoConverge` | `AppliesConverge` | what an apply alone has before it is not there (`AloneInv`), what it passed is (`PassedInv`); rows without their second write are as many as applies about to make it, and failures (`LackInv`) |
| `ConfirmedAsShown` | `AppliesWhatItShows` | under the dialog of a plan only an import moves the canvas (`PlanInv`) |
| `JobsEnd` | `JobsEndAsReported` | where the task of a run stands says what has become of its container (`JobStands`) |
| `BoxIsAsOrdered` | `BoxFollowsOrders` | whoever finds no container was overtaken by a deploy that is about to create one (`CrossedInv`); of commands that do not cross, one at most is under way (`OneByOneInv`) |
| `ReleasesRunWhatTheyName` | `RunsWhatItNames` | two releases on the node together have met, so nobody moves a tag between a build and its container (`MetInv`, `ImageInv`); of two that never met the later one fetched later (`BoxesInv`) |
| `FirewallsSayWhatIs` | `EnforcedHasCause` | while the row is as the last apply read it and its commands met no others, each node is yet to be sent to, has its one command, is unable or refused, or enforces what the row says, and whichever is through has made the status (`EnforcingInv`); a row that is being applied has a report to come (`ApplyingInv`) |
| `DomainsAreRouted` | `RoutesLead` | a host that is routed, or on its way to be, was pointed to the node (`PointedInv`); the route that the deploy of the container made stands, or a command or a deploy from behind came since (`LeadsInv`); what is not decided is being verified, and what is sent arrives or is refused (`RoutedInv`) |
| `WatchersAreTold` | `WatchersLearnTheEnd` | a row that is written is followed by an event, or its writer is lost or the safety net (`PageInv` with `Coming`); what an event says is so (`SaidInv`); lines come in their order, so what a page has dropped is older than what it keeps (`LinesInv`); who still writes which stage (`PipeStageInv`) |

`Coming` counts the reports that are still to come as well, for an agent that was never
answered works on.

**The parts together** (the end of `ControlPlaneProofs`).  A step of `MCControlPlane` is
a step of the part that moves, or of `MCDashboard` one of the page the user is on, and
leaves the others as they began (`OnePartMoves`, `OnePageMoves`).  Hence a behaviour of
the whole is one of that part's own specification, of which the theorem above holds:
`PartsAreTyped`, `PartsKeepPromises`, `PagesKeepPromises`.  What had to be seen is that
the parts meet in one place, the count of faults: a part that waits holds its promise
whatever the others have used up of them.

The invariants were checked by TLC on the instances of the runs before they were
proved.  The assumptions on the constants are those of the modules: the sets of
applies and of people are finite, the tasks of `Triggers` are of one kind each, the
first change of an installation is its creation and names a repository, a team is not
called like the two other sources of a role, bounds are natural numbers.  About the
roles of a workspace and an organization `RoleFacts` is proved for itself: they are
ordered, and a greater one permits no less.

Some of the properties proved are in no run, since the proof covers more than a
run would: `OnlySignedRuns` and `RecordIsTrue` of `CommandDelivery`,
`DesiredMonotone`, `PartsTypeOK`, and `TypeOK` of the six modules with a proof module of
their own.

**Only model-checked**, and why:

- what is temporal under fairness (`QueueDrains`, `SafetyNet`, `DeploySettles`,
  `SilentEndsOffline`, `LiveComesBack`, `BoundsReached`, `TransientEnds`), which is
  beyond the prover;
- `YamlKeepsDrawing`: the two conversions of `Builder` fold over sequences, and what
  they do for every canvas would need induction over data.

## 6. What the checks found

Three statements of the comments or the documents are refuted by a run, without a
fault in any of them.

| Property | Said by | The code |
|---|---|---|
| `OneRunning` | `command-result.service.ts:89` | two transactions that finalize deployments of one app do not see one another; both stay running |
| `NetSparesReported` | `healthcheck.ts:9` | the status is read first and written unconditionally: a deployment reported in between is failed, and its app with it |
| `TriggerFires` | `routes/cron.ts:181`, `API.md:391` | the job that is added is a control job and fires nothing |

The properties that hold name the cases they except: `overlapped` in
`RunningIsCurrent`, `raced` in `TokenAdmitsOne` and `OwnersRemain`, `strayed` and
`overtaken` in `CronJobs`, `crossed` and `strayed` in `Autoscaling`, `mixed` in
`ManagedResources` and `Builder`, `cause` and `declined` in `Firewalls`, `behind` and
`unheeded` in `Domains`, `astray` in `Installations`, `met` in `Releases`, `missed`,
`unheard` and `Displaced` in `DeploymentPage`; in `Secrets` a write under way, a row that
cannot be decrypted, and a key with several rows.  Each of these exceptions is a race or a gap the code has, set
only in the step where it happens, and the counterexample without it is short.

While translating, more statements were met that the code does not keep.  They are
built into the models as the code has them, and no run of their own refutes them.

*Deployments.*
- `ARCHITECTURE.md:217` says every deployment has its safety net; `rollback.ts`
  enqueues none, and a rollback that is never reported stays deploying.
- `README.md:483` says "Rollbacks from immutable spec snapshots".  The snapshot
  names the branch: the node clones what the branch has by then and builds it over
  the image of the target (`spec.ts:27-28`, `rollback.ts:54-72`, `docker.rs:289`).  A
  rollback of a branch deployment never runs older code; only one to a named
  commit does (`RunsWhatItNames`).  The image that could be run again is not.
- A rollback takes the ports of the snapshot and `PORT` of the app as it is now
  (`rollback.ts:57`); after the app's port changed, the probe asks the old one.
- `webhook.ts:39-63`: a pull request is deployed into the app itself; the container
  has the app's name, so the preview replaces what is live.
- `ARCHITECTURE.md:194` says a rollback leaves `rolled_back` on the target; no
  statement writes this status.
- `webhook.ts:9-10` speaks of every matching app; a version that another deployment
  took throws, leaves the loop, and the delivery is marked processed (`webhook.ts:67`).
- `ARCHITECTURE.md:240-241` says the stages after a failed one are skipped; those
  of a run whose job threw stay pending.
- The CLI's `deploy` says it streams "until it finishes" (`deploy.ts:12`); if the end is
  published before it listens, it never does.  A page whose stream opens again reads
  nothing again.  The command may call a deployment failed that is running: its
  stream is lost, it reads the row that the job has just failed, and the node, whose
  command the job had dispatched before it failed, then reports success.

*Nodes and resources.*
- `ARCHITECTURE.md:92`: a drained node is online again with its next heartbeat.
- A load balancer's container is never removed: its row is deleted before its
  remove job runs, and the job returns at a deleted row (`loadbalancer.ts:44`).
- A command that an agent claims before it is signed is reported failed and never
  executed.  The report of a scaling sets the count all the same
  (`command-result.service.ts:336`), of a `CONFIGURE_DOMAIN` nobody looks at it.
- A firewall is applied again to no effect while BullMQ knows the id of its last
  job, and the table of a deleted one is never flushed (`firewall.ts:51`).
- The report of a backup sets a stopped database to running
  (`command-result.service.ts:287`).
- A bucket's console is published at 9001 whatever `console_port` says
  (`resources.rs:517-550`).
- `cron.ts:108-111` gives the command a buffer so that the job's timeout comes first;
  a pull longer than the buffer turns that around, and the container is left
  running.  A job whose program cannot start leaves its container, against
  `resources.rs:1278`.
- `node.ts:107` of the CLI says "Prune unused Docker images/build cache"; containers
  that are not up, those of stopped apps included, go always.
- `resources.rs:1736-1738` says systemd swaps the new binary in; the unit has no
  `ExecStartPre`, its `ProtectSystem=strict` leaves `/usr/local/bin` read-only, and
  `install.sh` looks for a unit of another name.  A reboot is reported as done
  before `shutdown` may be refused.
- The unit says in lines 21-22 that the agent gets a moment to report results; it
  drops its tasks and returns, or, told to stop during a heartbeat or a poll, does
  not notice (`daemon.rs:316`).

*The rest.*
- A blueprint's cron jobs are stored and never scheduled (`README.md:103`).
- `CONFIGURE_DOMAIN` routes a host to the container's port on the host, where
  nothing of the app listens (`domain.ts:54`).
- Deploys of an app overlap; one that was found healthy routes its domain to its own
  port, be its container replaced by then or not (`executor.rs:290`).
- `API.md:68`: the guard of the last owner counts before it writes.
- `API.md:125` and `template.service.ts:278`: a secret that exists is replaced, or
  skipped; the lookup compares null columns with `''`, finds nothing and adds a row.
  Secrets of an environment reach no app (`worker/src/lib/secrets.ts:4`).  One that
  cannot be decrypted is skipped without a word (`secrets.ts:26`): the app gets the
  value of its project, or none.
- `README.md:104` speaks of a two-way sync to `yourstack.yaml`.  `toYaml` prints a list at
  the indentation of its key (`yaml.ts:79`), and `fromYaml` takes for its value only lines
  that are deeper (`yaml.ts:205-206`), which makes it null, and `blueprintSchema` wants a
  list (`blueprint.ts:97`).  The text the builder shows of any canvas with a node on it is
  refused as an invalid blueprint when it is applied as it stands; with its lists indented
  it gives the same blueprint (`YamlKeepsDrawing`).
- The page of a deployment keeps 801 of the lines its stream brings
  (`deployment-detail.tsx:52`); of a longer build, those before them that it had not read
  are shown nowhere until it is opened again.
- The builder: a plan or an import that answers late shows one blueprint and applies
  another; typed YAML that was not applied is not planned; default names repeat
  after a deletion; the export gives addresses where the canvas wants names, so
  imported balancers are joined to nothing.

## 7. Plan

Done: every component of section 1 but those of section 8; the theorems of section 5.

Next, in this order:

1. **Refinement of the node**: that `NodeContainers` implements what
   `DeploymentLifecycle` assumes of the execution of a command.
2. **Editing pages**: the page of a firewall and the settings keep a draft beside what
   SWR reads again; a change of status takes the draft away, and the settings write
   back fields as they were read.

## 8. What is not modelled

- **The exchange with GitHub at a login, the audit log, encryption and hashing**: single
  rows and cryptography; there is no protocol to check.
- **Runners**: their provisioning always ends at the same early return (a
  placeholder token), so there is nothing to interleave.
- **Metrics and log ingestion**: rows in, aggregates out.  `Autoscaling` takes the
  average as an input.
- **Placement**: a choice by a score; no state of its own.
- **The other pages of the dashboard, the other commands of the CLI, the MCP
  server**: they show rows and send one request each, whose effect is modelled where
  the API handles it.
- **DTOs, type declarations, schemas of requests, protocol structs, generated
  clients, infrastructure**: declarations.  Together with the markup of the pages
  they are most of the repository's lines, which is why the modelled definitions
  stand for some 13 % of them and no more: what is left has no control flow to model.
- **Details inside modelled parts**: named at the end of each part of section 2 and in
  `PROJECT.json`.
- **Postgres, Redis, BullMQ, Docker, Caddy, Git, GitHub, DNS**: external; modelled by
  how the code uses them, under the assumptions named in section 2.
