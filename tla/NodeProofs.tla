----------------------------- MODULE NodeProofs -----------------------------
(***************************************************************************)
(* What becomes of what a node was told: its jobs, its containers, the     *)
(* releases it builds, its firewall and its routes, and what who watches a *)
(* deployment sees of it; proved of each part alone for every value of its *)
(* constants.                                                              *)
(***************************************************************************)
EXTENDS NodeJobs, NodeContainers, Releases, Firewalls, Domains, DeploymentPage, TLAPS

-----------------------------------------------------------------------------
(* Jobs. Where the task of a run stands says what has become of its        *)
(* container, as long as Docker did what it was asked to do.               *)

RunsOut(r) == waited[r] = WaitLimit \/ r \in pruned

JobStands(r) ==
    /\ shell[r] = "running" => exit[r] = "none"
    /\ doing[r] \in {"none", "pull", "create"} => shell[r] = "absent" /\ exit[r] = "none"
    /\ doing[r] = "start" => shell[r] \in {"absent", "created"} /\ exit[r] = "none"
    /\ doing[r] = "wait" =>
        shell[r] \in {"running", "exited", "absent"} /\ (shell[r] = "absent" => r \in pruned)
    /\ doing[r] = "tidy" => shell[r] \in {"exited", "absent"} /\ exit[r] = "zero"
    /\ doing[r] = "tidy_failed" =>
        /\ shell[r] = "running" => waited[r] = WaitLimit
        /\ exit[r] = "zero" => RunsOut(r)
    /\ doing[r] = "succeeded" => shell[r] = "absent" /\ exit[r] = "zero"
    /\ doing[r] = "failed" =>
        shell[r] \in {"absent", "created"} /\ (exit[r] = "zero" => RunsOut(r))
    /\ doing[r] = "timed_out" => age[r] = CommandTimeout

JobsInv == JobsTypeOK /\ (faults = 0 => \A r \in Runs : JobStands(r))

\* Each step of a run leaves the other runs as they are and its own container as the
\* new place of its task says.
LEMMA RunKeeps ==
    ASSUME JobsInv, faults \in Nat, NEW r \in Runs,
           \/ TakeUpJob(r) \/ PullJobImage(r) \/ CreateJob(r) \/ StartJob(r) \/ JobExits(r)
           \/ SeeExit(r) \/ Overrun(r) \/ TidyUp(r) \/ CommandTimesOut(r)
    PROVE  JobsInv'
<1> USE JobAssumption DEF JobsInv, JobsTypeOK, Reported
<1>1. CASE TakeUpJob(r)
  BY <1>1 DEF TakeUpJob, JobMoves, JobStands, RunsOut
<1>2. CASE PullJobImage(r)
  BY <1>2 DEF PullJobImage, JobMoves, JobStands, RunsOut
<1>3. CASE CreateJob(r)
  BY <1>3 DEF CreateJob, JobMoves, JobStands, RunsOut
<1>4. CASE StartJob(r)
  BY <1>4 DEF StartJob, JobMoves, JobStands, RunsOut
<1>5. CASE JobExits(r)
  BY <1>5 DEF JobExits, JobStands, RunsOut
<1>6. CASE SeeExit(r)
  BY <1>6 DEF SeeExit, JobMoves, Fault, JobStands, RunsOut
<1>7. CASE Overrun(r)
  BY <1>7 DEF Overrun, JobMoves, JobStands, RunsOut
<1>8. CASE TidyUp(r)
  BY <1>8 DEF TidyUp, JobMoves, Removed, Fault, JobStands, RunsOut
<1>9. CASE CommandTimesOut(r)
  BY <1>9 DEF CommandTimesOut, AtWork, JobStands, RunsOut
<1> QED
  BY <1>1, <1>2, <1>3, <1>4, <1>5, <1>6, <1>7, <1>8, <1>9

\* So do the clocks, and what an operator asks of the node.
LEMMA NodeKeeps ==
    ASSUME JobsInv, faults \in Nat, TimePasses \/ PruneJobs \/ RestartAgent \/ RebootNode
    PROVE  JobsInv'
<1> USE JobAssumption DEF JobsInv, JobsTypeOK, Reported
<1>1. CASE TimePasses
  BY <1>1 DEF TimePasses, AtWork, JobStands, RunsOut, CommandTimeout, WaitLimit
<1>2. CASE PruneJobs
  BY <1>2 DEF PruneJobs, JobStands, RunsOut
<1>3. CASE RestartAgent
  BY <1>3 DEF RestartAgent, AtWork, JobStands, RunsOut
<1>4. CASE RebootNode
  BY <1>4 DEF RebootNode, AtWork, JobStands, RunsOut
<1> QED
  BY <1>1, <1>2, <1>3, <1>4

\* It holds of a job and of its container at every moment.
LEMMA JobsKept == JobsSpec => [](JobsInv /\ faults \in Nat)
<1> DEFINE Inv == JobsInv /\ faults \in Nat
<1>1. JobsInit /\ faults = 0 => Inv
  BY JobAssumption DEF JobsInit, JobsInv, JobsTypeOK, JobStands, Reported, CommandTimeout, WaitLimit
<1>2. Inv /\ [JobsNext]_<<jobVars, faults>> => Inv'
  <2> SUFFICES ASSUME Inv, [JobsNext]_<<jobVars, faults>> PROVE Inv'
    OBVIOUS
  <2>1. faults' \in Nat
    BY DEF JobsNext, TakeUpJob, PullJobImage, CreateJob, StartJob, JobExits, SeeExit, Overrun, TidyUp,
           CommandTimesOut, TimePasses, PruneJobs, RestartAgent, RebootNode, Fault
  <2>2. CASE JobsNext
    BY <2>1, <2>2, RunKeeps, NodeKeeps DEF JobsNext
  <2>3. CASE UNCHANGED <<jobVars, faults>>
    BY <2>3 DEF jobVars, JobsInv, JobsTypeOK, JobStands, RunsOut
  <2> QED
    BY <2>2, <2>3
<1> QED
  BY <1>1, <1>2, PTL DEF JobsSpec

\* A run of a job that was reported ended as reported, for every timeout and buffer, and
\* leaves a container behind only when the rest of the command took the whole buffer
\* (run_job in resources.rs under the timeouts of cron.ts).
THEOREM JobsEnd == JobsSpec => []JobsEndAsReported
<1>1. JobsInv /\ faults \in Nat => JobsEndAsReported
  BY JobAssumption DEF JobsInv, JobsTypeOK, JobStands, RunsOut, JobsEndAsReported, Reported,
                      CommandTimeout, WaitLimit
<1> QED
  BY JobsKept, <1>1, PTL

-----------------------------------------------------------------------------
(* Containers. Deploys and restarts that cross: whoever finds no container *)
(* was overtaken by a deploy that is about to create one, and a container  *)
(* that is not up has a deploy that is about to start something. Commands  *)
(* that do not cross: before its own container a deploy finds what the     *)
(* commands before it left, and the order of the names of Built, Gone and  *)
(* StillWith is that of BoxFollowsOrders.                                      *)

Kinds == {"deploy", "stop", "restart", "remove", "prune"}
DeployStages == {"prepare", "replace", "create", "start", "check", "route", "unbuilt"}
Ended == {"succeeded", "failed"}

\* What the task of a command can be doing.
TaskFits ==
    /\ \A o \in Orders :
        /\ task[o] = "none" <=> order[o] = "none"
        /\ task[o] \in DeployStages => order[o] = "deploy"
        /\ task[o] \in Kinds => order[o] = task[o]
    /\ \A p, o \in Orders : p < o /\ task[o] /= "none" => task[p] /= "none"

OnlyStarts == \A o \in Orders : order[o] \notin {"stop", "remove", "prune"}

CrossedInv ==
    OnlyStarts =>
        /\ box = NoBox /\ (\E o \in Orders : order[o] = "deploy" /\ task[o] \in Ended \union {"create", "start", "check", "route"})
            => \E o \in Orders : task[o] = "create"
        /\ box /= NoBox /\ ~box.up => \E o \in Orders : task[o] = "start"

Built == LastOf("deploy", Ended)
Did(o, k) == order[o] = k /\ task[o] = "succeeded" /\ o > Built
StillWith(o) == \E s \in 1 .. o - 1 : Did(s, "stop") /\ \A r \in s .. o - 1 : ~Did(r, "restart")
Gone == \E o \in Orders : Did(o, "remove") \/ (Did(o, "prune") /\ StillWith(o))

AsOrdered ==
    /\ box.of = IF Gone THEN 0 ELSE Built
    /\ box.up <=> box.of > 0 /\ ~StillWith(MaxOrders + 1)

OneByOneInv ==
    ~crossed =>
        /\ \A p, o \in Orders : p < o /\ task[o] /= "none" => task[p] \in Done
        /\ Built = 0 \/ (Built \in Orders /\ task[Built] \in Ended)
        /\ path = LastOf("deploy", {"succeeded"})
        /\ \A o \in Orders :
            /\ task[o] = "create" => box = NoBox
            /\ task[o] = "start" => box = [of |-> o, up |-> FALSE]
            /\ task[o] \in {"check", "route"} => box = [of |-> o, up |-> TRUE]
        /\ (\A o \in Orders : task[o] \notin {"create", "start", "check", "route"}) => AsOrdered

ContainersInv ==
    ContainersTypeOK /\ TaskFits /\ (faults = 0 => CrossedInv /\ OneByOneInv)

\* Every task and every container is one of an order.
LEMMA ContainersTypeKeeps ==
    ASSUME ContainersTypeOK, TaskFits, ContainersNext
    PROVE  ContainersTypeOK' /\ TaskFits'
<1> USE OrderAssumption DEF ContainersTypeOK, TaskFits, Orders, Done, Kinds, DeployStages, NoBox
<1>1. CASE \E o \in Orders : BeginTask(o)
  <2> PICK o \in Orders : BeginTask(o)
    BY <1>1
  <2>1. PICK k \in Kinds :
          /\ order' = [order EXCEPT ![o] = k]
          /\ task' = [task EXCEPT ![o] = IF k = "deploy" THEN "prepare" ELSE k]
    BY DEF BeginTask
  <2> QED
    BY <2>1 DEF BeginTask
<1>2. ASSUME NEW o \in Orders, task[o] /= "none", order' = order, crossed' = crossed,
             NEW to \in DeployStages \union Ended, task' = [task EXCEPT ![o] = to],
             to \in DeployStages => order[o] = "deploy",
             path' \in Orders \union {0}, box' \in [of : Orders \union {0}, up : BOOLEAN]
      PROVE  ContainersTypeOK' /\ TaskFits'
  <2>1. task'[o] = to /\ to /= "none" /\ to \notin Kinds /\ \A p \in Orders \ {o} : task'[p] = task[p]
    BY <1>2 DEF Ended
  <2>2. ContainersTypeOK'
    BY <1>2 DEF Ended
  <2>3. TaskFits'
    BY <1>2, <2>1
  <2> QED
    BY <2>2, <2>3
<1>3. ASSUME NEW o \in Orders,
             PrepareImage(o) \/ ReplaceContainer(o) \/ CreateContainer(o) \/ StartContainer(o)
      PROVE  ContainersTypeOK' /\ TaskFits'
  <2>1. PICK to \in DeployStages \union Ended : task' = [task EXCEPT ![o] = to]
    BY <1>3 DEF PrepareImage, ReplaceContainer, CreateContainer, StartContainer, Moves, Ended
  <2>2. task[o] \in DeployStages /\ order' = order /\ crossed' = crossed /\ path' = path
    BY <1>3 DEF PrepareImage, ReplaceContainer, CreateContainer, StartContainer, Moves
  <2>3. box' \in [of : Orders \union {0}, up : BOOLEAN]
    <3>1. \A b \in BOOLEAN : [box EXCEPT !.up = b] \in [of : Orders \union {0}, up : BOOLEAN]
      OBVIOUS
    <3>2. NoBox \in [of : Orders \union {0}, up : BOOLEAN]
      OBVIOUS
    <3>3. CASE PrepareImage(o) \/ ReplaceContainer(o) \/ CreateContainer(o)
      <4>1. [of |-> o, up |-> FALSE] \in [of : Orders \union {0}, up : BOOLEAN]
        OBVIOUS
      <4>2. box' = NoBox \/ box' = box \/ box' = [of |-> o, up |-> FALSE]
        BY <3>3 DEF PrepareImage, ReplaceContainer, CreateContainer
      <4> QED
        BY <3>2, <4>1, <4>2
    <3>4. CASE StartContainer(o)
      <4>1. box' = [box EXCEPT !.up = TRUE] \/ box' = [box EXCEPT !.up = FALSE]
        BY <3>4 DEF StartContainer
      <4> QED
        BY <3>1, <4>1
    <3> QED
      BY <1>3, <3>3, <3>4
  <2> QED
    BY <1>2, <2>1, <2>2, <2>3
<1>6. ASSUME NEW o \in Orders, CheckHealth(o) \/ RouteDomain(o)
      PROVE  ContainersTypeOK' /\ TaskFits'
  <2>1. PICK to \in DeployStages \union Ended : task' = [task EXCEPT ![o] = to]
    BY <1>6 DEF CheckHealth, RouteDomain, Moves, Ended
  <2>2. task[o] \in DeployStages /\ order' = order /\ crossed' = crossed /\ box' = box
    BY <1>6 DEF CheckHealth, RouteDomain, Moves
  <2>3. path' \in Orders \union {0}
    BY <1>6 DEF CheckHealth, RouteDomain
  <2> QED
    BY <1>2, <2>1, <2>2, <2>3
<1>7. ASSUME NEW o \in Orders,
             StopContainer(o) \/ RestartContainer(o) \/ RemoveContainer(o) \/ PruneContainers(o)
      PROVE  ContainersTypeOK' /\ TaskFits'
  <2>1. PICK to \in Ended : task' = [task EXCEPT ![o] = to]
    BY <1>7 DEF StopContainer, RestartContainer, RemoveContainer, PruneContainers, ActOnContainer,
                Moves, Ended
  <2>2. task[o] \in Kinds /\ order' = order /\ crossed' = crossed /\ path' = path
    BY <1>7 DEF StopContainer, RestartContainer, RemoveContainer, PruneContainers, ActOnContainer, Moves
  <2>3. box' \in [of : Orders \union {0}, up : BOOLEAN]
    <3>1. \A b \in BOOLEAN : [box EXCEPT !.up = b] \in [of : Orders \union {0}, up : BOOLEAN]
      OBVIOUS
    <3>2. NoBox \in [of : Orders \union {0}, up : BOOLEAN]
      OBVIOUS
    <3>3. CASE StopContainer(o) \/ RestartContainer(o)
      BY <3>1, <3>2, <3>3 DEF StopContainer, RestartContainer, ActOnContainer
    <3>4. CASE RemoveContainer(o) \/ PruneContainers(o)
      BY <3>2, <3>4 DEF RemoveContainer, PruneContainers, ActOnContainer
    <3> QED
      BY <1>7, <3>3, <3>4
  <2> QED
    BY <1>2, <2>1, <2>2, <2>3 DEF Ended
<1>4. CASE \E o \in Orders : BreakOff(o)
  BY <1>4 DEF BreakOff
<1>5. CASE AgentStops
  BY <1>5 DEF AgentStops
<1> QED
  BY <1>1, <1>2, <1>3, <1>4, <1>5, <1>6, <1>7 DEF ContainersNext

\* However deploys and restarts cross, one of them is still to fill in what is missing.
LEMMA CrossedKeeps ==
    ASSUME ContainersTypeOK, TaskFits, CrossedInv, ContainersNext, faults = 0, faults' = 0
    PROVE  CrossedInv'
<1> USE OrderAssumption DEF CrossedInv, OnlyStarts, Ended, NoBox, ContainersTypeOK, TaskFits,
                            Orders, Kinds, DeployStages
<1> SUFFICES ASSUME OnlyStarts' PROVE CrossedInv'
  OBVIOUS
<1>1. CASE \E o \in Orders : BeginTask(o)
  <2> PICK o \in Orders : BeginTask(o)
    BY <1>1
  <2>1. PICK k \in {"deploy", "restart"} :
          /\ order' = [order EXCEPT ![o] = k]
          /\ task' = [task EXCEPT ![o] = IF k = "deploy" THEN "prepare" ELSE k]
          /\ task[o] = "none" /\ box' = box
    BY DEF BeginTask
  <2>2. OnlyStarts
    BY <2>1
  <2> QED
    BY <2>1, <2>2
<1>2. ASSUME NEW o \in Orders, PrepareImage(o) PROVE CrossedInv'
  BY <1>2 DEF PrepareImage, Moves
<1>3. ASSUME NEW o \in Orders, ReplaceContainer(o) PROVE CrossedInv'
  BY <1>3 DEF ReplaceContainer, Moves, Fault
<1>4. ASSUME NEW o \in Orders, CreateContainer(o) PROVE CrossedInv'
  BY <1>4 DEF CreateContainer, Moves
<1>5. ASSUME NEW o \in Orders, StartContainer(o) PROVE CrossedInv'
  <2> USE <1>5 DEF StartContainer, Moves
  <2>1. order' = order /\ OnlyStarts
    OBVIOUS
  <2>2. CASE box = NoBox
    <3>1. PICK p \in Orders : task[p] = "create"
      BY <2>1, <2>2
    <3>2. task'[p] = "create" /\ box' = NoBox
      BY <2>2, <3>1
    <3> QED
      BY <3>2
  <2>3. CASE box /= NoBox
    <3>1. box' /= NoBox /\ box'.up
      BY <2>3
    <3> QED
      BY <3>1
  <2> QED
    BY <2>2, <2>3
<1>6. ASSUME NEW o \in Orders, CheckHealth(o) PROVE CrossedInv'
  BY <1>6 DEF CheckHealth, Moves
<1>7. ASSUME NEW o \in Orders, RouteDomain(o) PROVE CrossedInv'
  BY <1>7 DEF RouteDomain, Moves
<1>8. ASSUME NEW o \in Orders, RestartContainer(o) PROVE CrossedInv'
  BY <1>8 DEF RestartContainer, ActOnContainer, Moves
<1>9. ASSUME NEW o \in Orders, StopContainer(o) \/ RemoveContainer(o) \/ PruneContainers(o) PROVE CrossedInv'
  BY <1>9 DEF StopContainer, RemoveContainer, PruneContainers, ActOnContainer, Moves
<1>10. ~AgentStops /\ \A o \in Orders : ~BreakOff(o)
  BY DEF AgentStops, BreakOff, Fault
<1> QED
  BY <1>1, <1>2, <1>3, <1>4, <1>5, <1>6, <1>7, <1>8, <1>9, <1>10 DEF ContainersNext

-----------------------------------------------------------------------------
\* The latest of some orders is the one none of them is after.
LEMMA LatestIs ==
    ASSUME NEW S \in SUBSET Orders, NEW m \in S, \A p \in S : p <= m
    PROVE  Latest(S) = m
<1>1. \A o \in S : (\A p \in S : p <= o) => o = m
  BY OrderAssumption DEF Orders
<1> QED
  BY <1>1 DEF Latest

\* What a command that ends neither well nor as a deploy leaves alone.
LEMMA SameOutcomes ==
    ASSUME \A p \in Orders :
             /\ order'[p] = "deploy" /\ task'[p] \in Ended <=> order[p] = "deploy" /\ task[p] \in Ended
             /\ \A k \in Kinds : order'[p] = k /\ task'[p] = "succeeded" <=> order[p] = k /\ task[p] = "succeeded"
    PROVE  /\ Built' = Built
           /\ LastOf("deploy", {"succeeded"})' = LastOf("deploy", {"succeeded"})
           /\ box' = box => (AsOrdered' <=> AsOrdered)
<1>1. {o \in Orders : order'[o] = "deploy" /\ task'[o] \in Ended} = {o \in Orders : order[o] = "deploy" /\ task[o] \in Ended}
  OBVIOUS
<1>2. Built' = Built
  BY <1>1 DEF Built, LastOf
<1>3. {o \in Orders : order'[o] = "deploy" /\ task'[o] \in {"succeeded"}} = {o \in Orders : order[o] = "deploy" /\ task[o] \in {"succeeded"}}
  BY DEF Kinds
<1>4. LastOf("deploy", {"succeeded"})' = LastOf("deploy", {"succeeded"})
  BY <1>3 DEF LastOf
<1>5. \A o \in Orders, k \in Kinds : Did(o, k)' <=> Did(o, k)
  BY <1>2 DEF Did
<1>6. \A o \in 1 .. MaxOrders + 1 : StillWith(o)' <=> StillWith(o)
  BY <1>5, OrderAssumption DEF StillWith, Orders, Kinds
<1>7. Gone' <=> Gone
  BY <1>5, <1>6, OrderAssumption DEF Gone, Orders, Kinds
<1>8. MaxOrders + 1 \in 1 .. MaxOrders + 1
  BY OrderAssumption
<1> QED
  BY <1>2, <1>4, <1>6, <1>7, <1>8 DEF AsOrdered

\* Where no command crosses another, that which is under way is the last.
LEMMA OneUnderWay ==
    ASSUME ContainersTypeOK, TaskFits, OneByOneInv, ~crossed, NEW o \in Orders, task[o] \notin Done
    PROVE  \A p \in Orders : /\ p < o => task[p] \in Done
                             /\ p > o => task[p] = "none" /\ order[p] = "none"
<1> USE OrderAssumption DEF ContainersTypeOK, TaskFits, Orders, Done
<1>1. task[o] /= "none"
  OBVIOUS
<1> QED
  BY <1>1 DEF OneByOneInv

\* A deploy that ends, having had its image, is the one that counts, and nothing was
\* done after it.
LEMMA DeployCounts ==
    ASSUME ContainersTypeOK, TaskFits, OneByOneInv, ~crossed, NEW o \in Orders,
           task[o] \in {"check", "route"}, NEW e \in Ended,
           task' = [task EXCEPT ![o] = e], order' = order
    PROVE  /\ Built' = o
           /\ LastOf("deploy", {"succeeded"})' = IF e = "succeeded" THEN o ELSE LastOf("deploy", {"succeeded"})
           /\ ~Gone' /\ ~StillWith(MaxOrders + 1)'
<1> USE OrderAssumption DEF Ended
<1>0. order[o] = "deploy" /\ \A p \in Orders : p > o => task[p] = "none" /\ order[p] = "none"
  BY OneUnderWay DEF TaskFits, DeployStages, Done
<1>1. task'[o] = e /\ \A p \in Orders \ {o} : task'[p] = task[p]
  BY DEF ContainersTypeOK, Done
<1>2. Built' = o
  <2> DEFINE S == {p \in Orders : order'[p] = "deploy" /\ task'[p] \in Ended}
  <2>1. o \in S /\ \A p \in S : p <= o
    BY <1>0, <1>1 DEF Orders
  <2> HIDE DEF S
  <2>2. S \in SUBSET Orders
    BY DEF S
  <2>3. Latest(S) = o
    BY <2>1, <2>2, LatestIs
  <2> QED
    BY <2>3 DEF S, Built, LastOf
<1>3. ASSUME e = "succeeded" PROVE LastOf("deploy", {"succeeded"})' = o
  <2> DEFINE S == {p \in Orders : order'[p] = "deploy" /\ task'[p] \in {"succeeded"}}
  <2>1. o \in S /\ \A p \in S : p <= o
    BY <1>0, <1>1, <1>3 DEF Orders
  <2> HIDE DEF S
  <2>2. S \in SUBSET Orders
    BY DEF S
  <2>3. Latest(S) = o
    BY <2>1, <2>2, LatestIs
  <2> QED
    BY <2>3 DEF S, LastOf
<1>4. ASSUME e /= "succeeded" PROVE LastOf("deploy", {"succeeded"})' = LastOf("deploy", {"succeeded"})
  <2>1. {p \in Orders : order'[p] = "deploy" /\ task'[p] \in {"succeeded"}} = {p \in Orders : order[p] = "deploy" /\ task[p] \in {"succeeded"}}
    BY <1>1, <1>4
  <2> QED
    BY <2>1 DEF LastOf
<1>5. \A p \in Orders, k \in Kinds : ~Did(p, k)'
  BY <1>0, <1>2 DEF Did, Orders, Kinds
<1>6. ~Gone' /\ ~StillWith(MaxOrders + 1)'
  BY <1>5 DEF Gone, StillWith, Orders, Kinds
<1> QED
  BY <1>2, <1>3, <1>4, <1>6

\* What another command that ends well adds.
LEMMA OneMoreDone ==
    ASSUME ContainersTypeOK, TaskFits, OneByOneInv, ~crossed, NEW o \in Orders,
           task[o] \in Kinds, task' = [task EXCEPT ![o] = "succeeded"], order' = order
    PROVE  /\ order[o] = task[o] /\ order[o] /= "deploy"
           /\ Built' = Built
           /\ LastOf("deploy", {"succeeded"})' = LastOf("deploy", {"succeeded"})
           /\ \A p \in Orders, k \in Kinds : Did(p, k) => p < o
           /\ \A p \in Orders, k \in Kinds : Did(p, k)' <=> Did(p, k) \/ (p = o /\ k = order[o])
           /\ \A p \in 1 .. o : StillWith(p)' <=> StillWith(p)
           /\ StillWith(o) <=> StillWith(MaxOrders + 1)
           /\ Gone' <=> Gone \/ order[o] = "remove" \/ (order[o] = "prune" /\ StillWith(o))
<1> USE OrderAssumption DEF Orders
<1>0. /\ order[o] = task[o] /\ order[o] /= "deploy" /\ task[o] \notin Done
      /\ \A p \in Orders : p > o => task[p] = "none" /\ order[p] = "none"
  <2>1. order[o] = task[o] /\ task[o] /= "deploy" /\ task[o] \notin Done
    BY DEF TaskFits, Kinds, Done, ContainersTypeOK
  <2> QED
    BY <2>1, OneUnderWay
<1>1. task'[o] = "succeeded" /\ \A p \in Orders \ {o} : task'[p] = task[p]
  BY DEF ContainersTypeOK
<1>2. {p \in Orders : order'[p] = "deploy" /\ task'[p] \in Ended} = {p \in Orders : order[p] = "deploy" /\ task[p] \in Ended}
  BY <1>0, <1>1
<1>3. Built' = Built
  BY <1>2 DEF Built, LastOf
<1>4. {p \in Orders : order'[p] = "deploy" /\ task'[p] \in {"succeeded"}} = {p \in Orders : order[p] = "deploy" /\ task[p] \in {"succeeded"}}
  BY <1>0, <1>1
<1>5. LastOf("deploy", {"succeeded"})' = LastOf("deploy", {"succeeded"})
  BY <1>4 DEF LastOf
<1>6. Built \in Nat /\ Built < o
  <2>1. Built = 0 \/ (Built \in Orders /\ task[Built] \in Ended)
    BY DEF OneByOneInv
  <2>2. Built \in Orders /\ task[Built] \in Ended => Built < o
    BY <1>0 DEF Ended, Done
  <2> QED
    BY <2>1, <2>2
<1>7. \A p \in Orders, k \in Kinds : Did(p, k) => p < o
  BY <1>0 DEF Did, Kinds, Done
<1>8. \A p \in Orders, k \in Kinds : Did(p, k)' <=> Did(p, k) \/ (p = o /\ k = order[o])
  BY <1>0, <1>1, <1>3, <1>6 DEF Did, Done
<1>9. \A p \in 1 .. o : StillWith(p)' <=> StillWith(p)
  BY <1>8 DEF StillWith, Kinds
<1>10. StillWith(o) <=> StillWith(MaxOrders + 1)
  BY <1>7 DEF StillWith, Kinds
<1>11. Gone' <=> Gone \/ order[o] = "remove" \/ (order[o] = "prune" /\ StillWith(o))
  BY <1>7, <1>8, <1>9 DEF Gone, Kinds
<1> QED
  BY <1>0, <1>3, <1>5, <1>7, <1>8, <1>9, <1>10, <1>11

\* Where commands do not cross, each leaves what its order promises.
LEMMA OneByOneKeeps ==
    ASSUME ContainersTypeOK, TaskFits, OneByOneInv, ContainersNext, faults = 0, faults' = 0,
           ContainersTypeOK', TaskFits'
    PROVE  OneByOneInv'
<1> USE OrderAssumption
<1> SUFFICES ASSUME ~crossed' PROVE OneByOneInv'
  BY DEF OneByOneInv
<1>0. ~AgentStops /\ \A o \in Orders : ~BreakOff(o)
  BY DEF AgentStops, BreakOff, Fault
<1>1. ~crossed
  BY DEF ContainersNext, BeginTask, PrepareImage, ReplaceContainer, CreateContainer, StartContainer,
         CheckHealth, RouteDomain, StopContainer, RestartContainer, RemoveContainer, PruneContainers,
         ActOnContainer, BreakOff, AgentStops, Moves
<1> DEFINE Deploying == {"create", "start", "check", "route"}
\* A command that begins finds all the earlier ones ended.
<1>2. ASSUME NEW o \in Orders, BeginTask(o) PROVE OneByOneInv'
  <2>1. PICK k \in Kinds :
          /\ order' = [order EXCEPT ![o] = k]
          /\ task' = [task EXCEPT ![o] = IF k = "deploy" THEN "prepare" ELSE k]
    BY <1>2 DEF BeginTask, Kinds
  <2>2. /\ task[o] = "none" /\ order[o] = "none" /\ box' = box /\ path' = path
        /\ \A p \in Orders : task[p] \in Done
        /\ \A p \in Orders : p > o => task[p] = "none"
    BY <1>2 DEF BeginTask, TaskFits, ContainersTypeOK, Orders
  <2>3. /\ task'[o] \notin Done \union Deploying /\ order'[o] = k
        /\ \A p \in Orders \ {o} : task'[p] = task[p] /\ order'[p] = order[p]
    BY <2>1 DEF ContainersTypeOK, Kinds, Done
  <2>4. /\ Built' = Built /\ LastOf("deploy", {"succeeded"})' = LastOf("deploy", {"succeeded"})
        /\ AsOrdered' <=> AsOrdered
    <3>1. \A p \in Orders :
             /\ order'[p] = "deploy" /\ task'[p] \in Ended <=> order[p] = "deploy" /\ task[p] \in Ended
             /\ \A c \in Kinds : order'[p] = c /\ task'[p] = "succeeded" <=> order[p] = c /\ task[p] = "succeeded"
      BY <2>2, <2>3 DEF Ended, Done
    <3> QED
      BY <2>2, <3>1, SameOutcomes
  <2>5. AsOrdered
    BY <1>1, <2>2 DEF OneByOneInv, Done
  <2>6. Built = 0 \/ (Built \in Orders /\ task[Built] \in Ended)
    BY <1>1 DEF OneByOneInv
  <2>7. Built' = 0 \/ (Built' \in Orders /\ task'[Built'] \in Ended)
    BY <2>2, <2>3, <2>4, <2>6 DEF Ended
  <2>8. \A p, q \in Orders : p < q /\ task'[q] /= "none" => task'[p] \in Done
    BY <2>2, <2>3 DEF Orders
  <2>9. path' = LastOf("deploy", {"succeeded"})'
    BY <1>1, <2>2, <2>4 DEF OneByOneInv
  <2>10. \A p \in Orders : task'[p] \notin Deploying
    BY <2>2, <2>3 DEF Done
  <2> QED
    BY <2>4, <2>5, <2>7, <2>8, <2>9, <2>10 DEF OneByOneInv
\* A deploy on its way to its container, or one that fails without an image.
<1>3. ASSUME NEW o \in Orders, NEW to \in DeployStages, task[o] \in DeployStages, task[o] /= "unbuilt",
             task' = [task EXCEPT ![o] = to], order' = order, path' = path,
             to = "create" => box' = NoBox,
             to = "start" => box' = [of |-> o, up |-> FALSE],
             to \in {"check", "route"} => box' = [of |-> o, up |-> TRUE],
             to \in {"prepare", "replace", "unbuilt"} => box' = box /\ task[o] \notin Deploying
      PROVE  OneByOneInv'
  <2>1. /\ task[o] \notin Done /\ order[o] = "deploy" /\ \A p \in Orders : p < o => task[p] \in Done
        /\ \A p \in Orders : p > o => task[p] = "none"
    <3>1. task[o] \notin Done /\ order[o] = "deploy"
      BY <1>3 DEF TaskFits, DeployStages, Done
    <3> QED
      BY <1>1, <3>1, OneUnderWay
  <2>2. task'[o] = to /\ to \notin Ended \union {"none"} /\ \A p \in Orders \ {o} : task'[p] = task[p]
    BY <1>3 DEF ContainersTypeOK, DeployStages, Ended
  <2>3. /\ Built' = Built /\ LastOf("deploy", {"succeeded"})' = LastOf("deploy", {"succeeded"})
        /\ box' = box => (AsOrdered' <=> AsOrdered)
    <3>1. \A p \in Orders :
             /\ order'[p] = "deploy" /\ task'[p] \in Ended <=> order[p] = "deploy" /\ task[p] \in Ended
             /\ \A c \in Kinds : order'[p] = c /\ task'[p] = "succeeded" <=> order[p] = c /\ task[p] = "succeeded"
      BY <1>3, <2>1, <2>2 DEF Ended, Done
    <3> QED
      BY <3>1, SameOutcomes
  <2>4. Built' = 0 \/ (Built' \in Orders /\ task'[Built'] \in Ended)
    BY <1>1, <2>1, <2>2, <2>3 DEF OneByOneInv, Ended, Done
  <2>5. \A p, q \in Orders : p < q /\ task'[q] /= "none" => task'[p] \in Done
    BY <2>1, <2>2 DEF Orders, Done
  <2>6. path' = LastOf("deploy", {"succeeded"})'
    BY <1>1, <1>3, <2>3 DEF OneByOneInv
  <2>7. \A p \in Orders \ {o} : task'[p] \in Done
    BY <2>1, <2>2 DEF Orders, Done
  <2>8. (\A p \in Orders : task'[p] \notin Deploying) => AsOrdered'
    <3>1. ASSUME \A p \in Orders : task'[p] \notin Deploying PROVE AsOrdered'
      <4>1. to \in {"prepare", "replace", "unbuilt"}
        BY <2>2, <3>1 DEF DeployStages
      <4>2. \A p \in Orders : task[p] \notin Deploying
        BY <1>3, <2>2, <3>1, <4>1
      <4> QED
        BY <1>1, <1>3, <2>3, <4>1, <4>2 DEF OneByOneInv
    <3> QED
      BY <3>1
  <2>9. \A p \in Orders :
            /\ task'[p] = "create" => box' = NoBox
            /\ task'[p] = "start" => box' = [of |-> p, up |-> FALSE]
            /\ task'[p] \in {"check", "route"} => box' = [of |-> p, up |-> TRUE]
    BY <1>3, <2>2, <2>7 DEF Done
  <2> QED
    BY <2>4, <2>5, <2>6, <2>8, <2>9 DEF OneByOneInv
\* Any command that ends, as far as the others go.
<1>4. ASSUME NEW o \in Orders, task[o] \notin Done, NEW e \in Ended,
             task' = [task EXCEPT ![o] = e], order' = order,
             Built' = 0 \/ Built' = o \/ Built' = Built,
             path' = LastOf("deploy", {"succeeded"})', AsOrdered'
      PROVE  OneByOneInv'
  <2>1. \A p \in Orders : (p < o => task[p] \in Done) /\ (p > o => task[p] = "none")
    BY <1>1, <1>4, OneUnderWay
  <2>2. task'[o] = e /\ \A p \in Orders \ {o} : task'[p] = task[p]
    BY <1>4 DEF ContainersTypeOK
  <2>3. \A p \in Orders : task'[p] \in Done
    BY <2>1, <2>2 DEF Orders, Done, Ended
  <2>4. Built' = 0 \/ (Built' \in Orders /\ task'[Built'] \in Ended)
    BY <1>1, <1>4, <2>2 DEF OneByOneInv
  <2> QED
    BY <1>4, <2>3, <2>4 DEF OneByOneInv, Done
<1>5. ASSUME NEW o \in Orders, PrepareImage(o) PROVE OneByOneInv'
  BY <1>3, <1>5 DEF PrepareImage, Moves, DeployStages
<1>6. ASSUME NEW o \in Orders, ReplaceContainer(o) PROVE OneByOneInv'
  <2>1. box' = NoBox /\ Moves(o, "replace", "create") /\ path' = path
    BY <1>6 DEF ReplaceContainer, Fault
  <2> QED
    BY <1>3, <2>1 DEF Moves, DeployStages
<1>7. ASSUME NEW o \in Orders, CreateContainer(o) PROVE OneByOneInv'
  <2>1. task[o] = "create" /\ box = NoBox
    BY <1>1, <1>7 DEF CreateContainer, Moves, OneByOneInv
  <2> QED
    BY <1>3, <1>7, <2>1 DEF CreateContainer, Moves, DeployStages
<1>8. ASSUME NEW o \in Orders, StartContainer(o) PROVE OneByOneInv'
  <2>1. task[o] = "start" /\ box = [of |-> o, up |-> FALSE] /\ box /= NoBox
    BY <1>1, <1>8 DEF StartContainer, Moves, OneByOneInv, Orders, NoBox
  <2>2. box' = [of |-> o, up |-> TRUE]
    BY <1>8, <2>1 DEF StartContainer
  <2> QED
    BY <1>3, <1>8, <2>1, <2>2 DEF StartContainer, Moves, DeployStages
\* A deploy that got as far as its container: it counts, whatever it reports.
<1>9. ASSUME NEW o \in Orders, task[o] \in {"check", "route"}, NEW e \in Ended,
             task' = [task EXCEPT ![o] = e], order' = order, box' = box,
             path' = IF e = "succeeded" THEN o ELSE path
      PROVE  OneByOneInv'
  <2>1. /\ Built' = o
        /\ LastOf("deploy", {"succeeded"})' = IF e = "succeeded" THEN o ELSE LastOf("deploy", {"succeeded"})
        /\ ~Gone' /\ ~StillWith(MaxOrders + 1)'
    BY <1>1, <1>9, DeployCounts
  <2>2. box' = [of |-> o, up |-> TRUE]
    BY <1>1, <1>9 DEF OneByOneInv
  <2>3. AsOrdered'
    BY <2>1, <2>2 DEF AsOrdered, Orders
  <2>4. path' = LastOf("deploy", {"succeeded"})'
    BY <1>1, <1>9, <2>1 DEF OneByOneInv
  <2>5. task[o] \notin Done
    BY <1>9 DEF Done
  <2> QED
    BY <1>4, <1>9, <2>1, <2>3, <2>4, <2>5
<1>10. ASSUME NEW o \in Orders, CheckHealth(o) PROVE OneByOneInv'
  <2>1. CASE box = [of |-> o, up |-> TRUE] /\ Moves(o, "check", "route")
    BY <1>3, <1>10, <2>1 DEF CheckHealth, Moves, DeployStages
  <2>2. CASE Moves(o, "check", "failed")
    BY <1>9, <1>10, <2>2 DEF CheckHealth, Moves, Ended
  <2> QED
    BY <1>10, <2>1, <2>2 DEF CheckHealth
<1>11. ASSUME NEW o \in Orders, RouteDomain(o) PROVE OneByOneInv'
  <2>1. path' = o /\ Moves(o, "route", "succeeded") /\ box' = box
    BY <1>11 DEF RouteDomain, Fault
  <2> QED
    BY <1>9, <2>1 DEF Moves, Ended
\* Another command: whether there is a container, and whether it is up, is as the
\* commands before it left it.
<1>12. ASSUME NEW o \in Orders, task[o] \in Kinds
       PROVE  task[o] \notin Done /\ order[o] = task[o] /\ order[o] /= "deploy" /\ AsOrdered /\ path = LastOf("deploy", {"succeeded"})
  <2>1. task[o] \notin Done /\ order[o] = task[o] /\ order[o] /= "deploy"
    BY <1>12 DEF Kinds, Done, TaskFits, ContainersTypeOK
  <2>2. \A p \in Orders : task[p] \notin Deploying
    BY <1>1, <1>12, <2>1, OneUnderWay DEF Kinds, Done, Orders
  <2> QED
    BY <1>1, <2>1, <2>2 DEF OneByOneInv
<1>13. ASSUME NEW o \in Orders, task[o] \in Kinds, task' = [task EXCEPT ![o] = "failed"],
              order' = order, box' = box, path' = path
       PROVE  OneByOneInv'
  <2>1. \A p \in Orders : order'[p] = order[p] /\ (p /= o => task'[p] = task[p])
    BY <1>13 DEF ContainersTypeOK
  <2>2. order[o] /= "deploy" /\ task'[o] = "failed" /\ task[o] \notin Done
    BY <1>12, <1>13 DEF ContainersTypeOK
  <2>3. /\ Built' = Built /\ LastOf("deploy", {"succeeded"})' = LastOf("deploy", {"succeeded"})
        /\ AsOrdered' <=> AsOrdered
    <3>1. \A p \in Orders :
             /\ order'[p] = "deploy" /\ task'[p] \in Ended <=> order[p] = "deploy" /\ task[p] \in Ended
             /\ \A c \in Kinds : order'[p] = c /\ task'[p] = "succeeded" <=> order[p] = c /\ task[p] = "succeeded"
      BY <2>1, <2>2 DEF Done
    <3> QED
      BY <1>13, <3>1, SameOutcomes
  <2> QED
    BY <1>4, <1>12, <1>13, <2>2, <2>3 DEF Ended
<1>14. ASSUME NEW o \in Orders, task[o] \in Kinds, task' = [task EXCEPT ![o] = "succeeded"],
              order' = order, path' = path, AsOrdered'
       PROVE  OneByOneInv'
  BY <1>1, <1>4, <1>12, <1>14, OneMoreDone DEF Ended
<1>15. ASSUME NEW o \in Orders, StopContainer(o) PROVE OneByOneInv'
  <2> USE <1>15 DEF StopContainer, ActOnContainer, Moves, Kinds
  <2>1. CASE box = NoBox
    BY <1>13, <2>1
  <2>2. CASE box /= NoBox
    <3>1. task[o] \in Kinds /\ task' = [task EXCEPT ![o] = "succeeded"] /\ order' = order /\ path' = path
      BY <2>2
    <3>2. box'.of = box.of /\ ~box'.up
      BY <2>2 DEF ContainersTypeOK
    <3>3. order[o] = "stop" /\ Built' = Built /\ (Gone' <=> Gone)
      BY <1>1, <3>1, OneMoreDone
    <3>6. /\ \A p \in Orders, k \in Kinds : Did(p, k) => p < o
          /\ \A p \in Orders, k \in Kinds : Did(p, k)' <=> Did(p, k) \/ (p = o /\ k = order[o])
      <4> HIDE DEF StopContainer, ActOnContainer, Moves, Kinds
      <4> QED
        BY <1>1, <3>1, OneMoreDone
    <3>4. StillWith(MaxOrders + 1)'
      <4>1. Did(o, "stop")' /\ \A r \in o .. MaxOrders : ~Did(r, "restart")'
        BY <3>3, <3>6 DEF Orders
      <4>2. o \in 1 .. MaxOrders
        BY DEF Orders
      <4> QED
        BY <4>1, <4>2 DEF StillWith
    <3>5. AsOrdered'
      BY <1>12, <3>1, <3>2, <3>3, <3>4 DEF AsOrdered
    <3> QED
      BY <1>14, <3>1, <3>5
  <2> QED
    BY <2>1, <2>2
<1>16. ASSUME NEW o \in Orders, RestartContainer(o) PROVE OneByOneInv'
  <2> USE <1>16 DEF RestartContainer, ActOnContainer, Moves, Kinds
  <2>1. CASE box = NoBox
    BY <1>13, <2>1
  <2>2. CASE box /= NoBox
    <3>1. task[o] \in Kinds /\ task' = [task EXCEPT ![o] = "succeeded"] /\ order' = order /\ path' = path
      BY <2>2
    <3>2. box'.of = box.of /\ box'.up
      BY <2>2 DEF ContainersTypeOK
    <3>3. order[o] = "restart" /\ Built' = Built /\ (Gone' <=> Gone) /\ Did(o, "restart")'
      BY <1>1, <3>1, OneMoreDone
    <3>4. ~StillWith(MaxOrders + 1)'
      <4>1. \A s \in Orders : Did(s, "stop")' => s < o
        BY <1>1, <3>1, <3>3, OneMoreDone DEF Orders
      <4>2. \A s \in 1 .. MaxOrders : Did(s, "stop")' => o \in s .. MaxOrders
        BY <4>1 DEF Orders
      <4> QED
        BY <3>3, <4>2 DEF StillWith
    <3>5. box.of > 0
      <4>1. box.of = 0 => ~box.up
        BY <1>12, <3>1 DEF AsOrdered
      <4> QED
        BY <2>2, <4>1 DEF ContainersTypeOK, NoBox, Orders
    <3>6. AsOrdered'
      BY <1>12, <3>1, <3>2, <3>3, <3>4, <3>5 DEF AsOrdered
    <3> QED
      BY <1>14, <3>1, <3>6
  <2> QED
    BY <2>1, <2>2
<1>17. ASSUME NEW o \in Orders, RemoveContainer(o) PROVE OneByOneInv'
  <2> USE <1>17 DEF RemoveContainer, ActOnContainer, Moves, Kinds
  <2>1. CASE box = NoBox
    BY <1>13, <2>1
  <2>2. CASE box /= NoBox
    <3>1. task[o] \in Kinds /\ task' = [task EXCEPT ![o] = "succeeded"] /\ order' = order /\ path' = path
      BY <2>2
    <3>2. order[o] = "remove" /\ Gone'
      BY <1>1, <3>1, OneMoreDone
    <3>3. AsOrdered'
      BY <2>2, <3>2 DEF AsOrdered, NoBox
    <3> QED
      BY <1>14, <3>1, <3>3
  <2> QED
    BY <2>1, <2>2
<1>18. ASSUME NEW o \in Orders, PruneContainers(o) PROVE OneByOneInv'
  <2>1. task[o] \in Kinds /\ task' = [task EXCEPT ![o] = "succeeded"] /\ order' = order /\ path' = path
    BY <1>18 DEF PruneContainers, Moves, Kinds
  <2>2. /\ order[o] = "prune" /\ Built' = Built /\ (Gone' <=> Gone \/ StillWith(o))
        /\ StillWith(o) <=> StillWith(MaxOrders + 1)
    BY <1>1, <1>18, <2>1, OneMoreDone DEF PruneContainers, Moves
  <2>3. AsOrdered
    BY <1>12, <2>1
  <2>4. \A p \in Orders : (Did(p, "stop")' <=> Did(p, "stop")) /\ (Did(p, "restart")' <=> Did(p, "restart"))
    BY <1>1, <2>1, <2>2, OneMoreDone DEF Kinds
  <2>5. StillWith(MaxOrders + 1)' <=> StillWith(MaxOrders + 1)
    BY <2>4 DEF StillWith, Orders
  <2>6. CASE box.up
    BY <1>14, <1>18, <2>1, <2>2, <2>3, <2>5, <2>6 DEF PruneContainers, AsOrdered
  <2>7. CASE ~box.up
    <3>1. box' = NoBox
      BY <1>18, <2>7 DEF PruneContainers
    <3>2. box.of = 0 \/ StillWith(MaxOrders + 1)
      BY <2>3, <2>7 DEF AsOrdered, ContainersTypeOK, Orders
    <3>3. Gone' \/ Built' = 0
      BY <2>2, <2>3, <3>2 DEF AsOrdered
    <3>4. AsOrdered'
      BY <3>1, <3>3 DEF AsOrdered, NoBox
    <3> QED
      BY <1>14, <2>1, <3>4
  <2> QED
    BY <2>6, <2>7 DEF ContainersTypeOK
<1> QED
  BY <1>0, <1>2, <1>5, <1>6, <1>7, <1>8, <1>10, <1>11, <1>15, <1>16, <1>17, <1>18 DEF ContainersNext

\* It holds of an app, its commands and its container at every moment.
LEMMA ContainersKept == ContainersSpec => [](ContainersInv /\ faults \in Nat)
<1> USE OrderAssumption
<1> DEFINE Inv == ContainersInv /\ faults \in Nat
<1>1. ContainersInit /\ faults = 0 => Inv
  <2> SUFFICES ASSUME ContainersInit, faults = 0 PROVE Inv
    OBVIOUS
  <2>1. ContainersTypeOK /\ TaskFits /\ CrossedInv
    BY DEF ContainersInit, ContainersTypeOK, TaskFits, CrossedInv, Kinds, DeployStages, Done, NoBox, Ended
  <2>2. \A ends \in SUBSET Ended : LastOf("deploy", ends) = 0
    BY DEF ContainersInit, LastOf, Latest, Ended
  <2>3. Built = 0 /\ LastOf("deploy", {"succeeded"}) = 0
    BY <2>2 DEF Built, Ended
  <2>4. \A o \in Orders, k \in Kinds : ~Did(o, k)
    BY DEF ContainersInit, Did
  <2>5. ~Gone /\ ~StillWith(MaxOrders + 1)
    BY <2>4 DEF Gone, StillWith, Kinds, Orders
  <2>6. OneByOneInv
    BY <2>3, <2>5 DEF ContainersInit, OneByOneInv, AsOrdered, NoBox, Done
  <2> QED
    BY <2>1, <2>6 DEF ContainersInv
<1>2. Inv /\ [ContainersNext]_<<containerVars, faults>> => Inv'
  <2> SUFFICES ASSUME Inv, [ContainersNext]_<<containerVars, faults>> PROVE Inv'
    OBVIOUS
  <2>1. CASE ContainersNext
    <3>1. faults' = faults \/ faults' = faults + 1
      BY <2>1 DEF ContainersNext, BeginTask, PrepareImage, ReplaceContainer, CreateContainer,
         StartContainer, CheckHealth, RouteDomain, StopContainer, RestartContainer, RemoveContainer,
         PruneContainers, ActOnContainer, BreakOff, AgentStops, Fault
    <3>2. ContainersTypeOK' /\ TaskFits'
      BY <2>1, ContainersTypeKeeps DEF ContainersInv
    <3>3. faults' = 0 => CrossedInv' /\ OneByOneInv'
      BY <2>1, <3>1, <3>2, CrossedKeeps, OneByOneKeeps DEF ContainersInv
    <3> QED
      BY <3>1, <3>2, <3>3 DEF ContainersInv
  <2>2. CASE UNCHANGED <<containerVars, faults>>
    BY <2>2 DEF containerVars, ContainersInv, ContainersTypeOK, TaskFits, CrossedInv, OnlyStarts,
                OneByOneInv, AsOrdered, Gone, StillWith, Did, Built, LastOf
  <2> QED
    BY <2>1, <2>2
<1> QED
  BY <1>1, <1>2, PTL DEF ContainersSpec

\* When nothing of an app is under way on its node and nothing broke, the container is
\* what the commands asked for: up, if only deploys and restarts crossed; and, if
\* none crossed, the last deploy's that had its image, stopped or gone as ordered since
\* (execute_deploy and the other commands in executor.rs).
THEOREM BoxIsAsOrdered == ContainersSpec => []BoxFollowsOrders
<1> USE OrderAssumption
<1>1. ContainersInv /\ faults \in Nat => BoxFollowsOrders
  <2> SUFFICES ASSUME ContainersInv, \A o \in Orders : task[o] \in Done, faults = 0
               PROVE  /\ Built > 0 /\ (\A o \in Orders : order[o] \notin {"stop", "remove", "prune"}) => box.up
                      /\ ~crossed => /\ box.of = IF Gone THEN 0 ELSE Built
                                     /\ box.up <=> box.of > 0 /\ ~StillWith(MaxOrders + 1)
                                     /\ path = LastOf("deploy", {"succeeded"})
    BY DEF BoxFollowsOrders, Gone, StillWith, Did, Built, Ended
  <2>1. ~crossed => AsOrdered /\ path = LastOf("deploy", {"succeeded"})
    BY DEF ContainersInv, OneByOneInv, Done
  <2>2. ASSUME Built > 0, OnlyStarts PROVE box.up
    <3>1. \E o \in Orders : order[o] = "deploy" /\ task[o] \in Ended
      BY <2>2 DEF Built, LastOf, Latest
    <3>2. ~\E o \in Orders : task[o] \in {"create", "start"}
      BY DEF Done
    <3> QED
      BY <2>2, <3>1, <3>2 DEF ContainersInv, CrossedInv
  <2> QED
    BY <2>1, <2>2 DEF AsOrdered, OnlyStarts
<1> QED
  BY ContainersKept, <1>1, PTL

-----------------------------------------------------------------------------
(* Releases. Two that are on the node together have met, so between the    *)
(* build of a release that met none of its kin and its container nobody    *)
(* moves its tag; and of two that never met, the later one fetched after   *)
(* the earlier one had its container.                                      *)

Fetched == OnNode \union {"ran"}
Alone(v) == \A w \in met[v] : ~Kin(v, w)
ImageOf(v) == IF source = "image" THEN 0 ELSE release[v].tag
SameBranch(v, w) ==
    source = "image" \/ (IsBranch(release[v].ref) /\ release[v].ref = release[w].ref)

\* What a release was asked for has been pushed, and its tag is that of its target.
AskedInv ==
    /\ heads["main"] >= 1
    /\ \A v \in Releases : LET r == release[v] IN r.at /= "none" =>
        /\ r.root \in Releases
        /\ IF r.at = "queued" THEN r.root = v ELSE r.tag = r.root
        /\ r.ref[2] <= heads[r.ref[1]] /\ r.sha[2] <= heads[r.ref[1]] /\ heads[r.ref[1]] >= 1
        /\ source = "image" => r.ref = <<"main", 0>>

FetchedInv ==
    \A v \in Releases : release[v].at \in Fetched =>
        /\ Pushed(has[v])
        /\ IF IsBranch(release[v].ref)
           THEN has[v][1] = release[v].ref[1] /\ has[v][2] >= release[v].sha[2]
           ELSE has[v] = release[v].ref
        /\ release[v].at \in {"cloned", "adrift"} => source = "git"

MetInv ==
    /\ \A v, w \in Releases : v /= w /\ release[v].at \in OnNode /\ release[w].at \in OnNode => w \in met[v]
    /\ \A v \in Releases : \A w \in met[v] : release[w].at \notin {"none", "queued", "sent"}

ImageInv ==
    \A v \in Releases : Alone(v) =>
        /\ release[v].at = "built" => image[ImageOf(v)] = has[v]
        /\ release[v].at = "ran" => ran[v] = has[v]

BoxesInv ==
    /\ \A i \in DOMAIN boxes : release[boxes[i]].at = "ran"
    /\ \A v, w \in Releases :
        release[v].at = "ran" /\ release[w].at \in OnNode /\ v \notin met[w] /\ SameBranch(v, w)
            => has[v][2] <= has[w][2]
    /\ \A i, j \in DOMAIN boxes :
        i < j /\ boxes[i] \notin met[boxes[j]] /\ SameBranch(boxes[i], boxes[j])
            => has[boxes[i]][2] <= has[boxes[j]][2]

ReleasesInv ==
    ReleasesTypeOK /\ AskedInv /\ FetchedInv /\ MetInv /\ ImageInv /\ BoxesInv

ReleaseRows ==
    [at : {"none", "queued", "sent", "ran", "failed"} \union OnNode,
     ref : Commits, sha : Commits, tag : Releases \union {0}, root : Releases \union {0}]

\* What becomes of the releases other than where they stand.
Keeps(v) == /\ release'[v].ref = release[v].ref /\ release'[v].sha = release[v].sha
            /\ release'[v].root = release[v].root
            /\ release'[v].tag = release[v].tag

\* The row that is created.
LEMMA RowCreated ==
    ASSUME ReleasesTypeOK, NEW r \in ReleaseRows, r.at \in {"queued", "sent"}, Create(r)
    PROVE  /\ release' \in [Releases -> ReleaseRows]
           /\ \E v \in Releases :
               /\ release[v].at = "none"
               /\ \A w \in Releases \ {v} : release'[w] = release[w]
               /\ release'[v].at = r.at /\ release'[v].ref = r.ref /\ release'[v].sha = r.sha
               /\ release'[v].tag = r.tag /\ release'[v].root = IF r.root = 0 THEN v ELSE r.root
<1> USE DEF ReleaseRows
<1>1. release \in [Releases -> ReleaseRows]
  BY DEF ReleasesTypeOK
<1>2. PICK v \in Releases :
        /\ release[v].at = "none"
        /\ release' = [release EXCEPT ![v] = [r EXCEPT !.root = IF @ = 0 THEN v ELSE @]]
  BY DEF Create
<1> DEFINE row == [r EXCEPT !.root = IF @ = 0 THEN v ELSE @]
<1>3. /\ row \in ReleaseRows /\ row.at = r.at /\ row.ref = r.ref /\ row.sha = r.sha /\ row.tag = r.tag
      /\ row.root = IF r.root = 0 THEN v ELSE r.root
  OBVIOUS
<1>4. release' = [release EXCEPT ![v] = row]
  BY <1>2
<1> HIDE DEF row
<1> QED
  BY <1>1, <1>2, <1>3, <1>4

\* The row that moves on.
LEMMA RowMoved ==
    ASSUME ReleasesTypeOK, NEW v \in Releases, NEW a \in {"ran", "failed", "cloned", "built", "adrift"},
           release' = [release EXCEPT ![v].at = a]
    PROVE  /\ release' \in [Releases -> ReleaseRows]
           /\ release'[v].at = a /\ \A w \in Releases \ {v} : release'[w] = release[w]
           /\ \A w \in Releases : Keeps(w)
<1> USE DEF ReleaseRows
<1>1. release \in [Releases -> ReleaseRows]
  BY DEF ReleasesTypeOK
<1> DEFINE row == [release[v] EXCEPT !.at = a]
<1>2. /\ row \in ReleaseRows /\ row.at = a /\ row.ref = release[v].ref /\ row.sha = release[v].sha
      /\ row.root = release[v].root /\ row.tag = release[v].tag
  BY <1>1 DEF OnNode
<1>3. release' = [release EXCEPT ![v] = row]
  BY <1>1
<1> HIDE DEF row
<1> QED
  BY <1>1, <1>2, <1>3 DEF Keeps

\* A push only adds to a branch.
LEMMA PushKeeps ==
    ASSUME ReleasesInv, NEW b \in Branches, Push(b)
    PROVE  ReleasesInv'
<1> USE ReleaseAssumption DEF Branches, Commits
<1>1. /\ heads' \in [Branches -> 0 .. MaxCommits] /\ \A c \in Branches : heads'[c] >= heads[c]
      /\ UNCHANGED <<source, release, cloneVars>>
  BY DEF Push, ReleasesInv, ReleasesTypeOK
<1>2. ReleasesTypeOK'
  BY <1>1 DEF cloneVars, ReleasesInv, ReleasesTypeOK
<1>3. \A v \in Releases : release[v].ref \in Commits /\ release[v].sha \in Commits /\ has[v] \in Commits
  BY DEF ReleasesInv, ReleasesTypeOK
<1>4. AskedInv'
  <2>2. \A c \in Branches : heads[c] >= 1 => heads'[c] >= 1
    BY <1>1 DEF ReleasesInv, ReleasesTypeOK
  <2>3. heads'["main"] >= 1
    BY <2>2 DEF ReleasesInv, AskedInv
  <2>4. release' = release /\ source' = source
    BY <1>1
  <2>5. ASSUME NEW v \in Releases, release[v].at /= "none"
        PROVE  /\ release[v].ref[2] <= heads'[release[v].ref[1]] /\ heads'[release[v].ref[1]] >= 1
               /\ release[v].sha[2] <= heads'[release[v].ref[1]]
    <3> DEFINE b1 == release[v].ref[1]
    <3>1. b1 \in Branches /\ heads'[b1] >= heads[b1] /\ heads[b1] \in Nat /\ heads'[b1] \in Nat
          /\ release[v].ref[2] \in Nat /\ release[v].sha[2] \in Nat
      BY <1>1, <1>3 DEF ReleasesInv, ReleasesTypeOK
    <3>2. release[v].ref[2] <= heads[b1] /\ heads[b1] >= 1 /\ release[v].sha[2] <= heads[b1]
      BY <2>5 DEF ReleasesInv, AskedInv
    <3> HIDE DEF b1
    <3>3. release[v].ref[2] <= heads'[b1] /\ heads'[b1] >= 1 /\ release[v].sha[2] <= heads'[b1]
      BY <3>1, <3>2
    <3> QED
      BY <3>3 DEF b1
  <2> HIDE DEF Commits
  <2> QED
    BY <2>3, <2>4, <2>5 DEF ReleasesInv, AskedInv
<1>5. \A c \in Commits : Pushed(c) => Pushed(c)'
  BY <1>1 DEF Pushed, ReleasesInv, ReleasesTypeOK
<1>6. FetchedInv'
  BY <1>1, <1>3, <1>5 DEF ReleasesInv, FetchedInv, cloneVars
<1> QED
  BY <1>1, <1>2, <1>4, <1>6 DEF ReleasesInv, MetInv, ImageInv, BoxesInv, Alone, Kin, ImageOf, SameBranch, cloneVars

\* A release that nobody has fetched yet touches none that somebody has.
LEMMA NotYetFetched ==
    ASSUME ReleasesInv, NEW v \in Releases, release[v].at \in {"none", "queued"},
           release' \in [Releases -> ReleaseRows],
           release'[v].at \in {"queued", "sent"}, \A w \in Releases \ {v} : release'[w] = release[w],
           UNCHANGED <<source, heads, cloneVars>>
    PROVE  ReleasesTypeOK' /\ FetchedInv' /\ MetInv' /\ ImageInv' /\ BoxesInv'
<1> USE DEF OnNode, Fetched, cloneVars
<1>1. ReleasesTypeOK'
  BY DEF ReleasesInv, ReleasesTypeOK, ReleaseRows
<1>2. FetchedInv'
  BY DEF ReleasesInv, FetchedInv, Pushed
<1>3. v \notin UNION {met[w] : w \in Releases}
  BY DEF ReleasesInv, MetInv
<1>4. \A w \in Releases : \A x \in met[w] : x \in Releases \ {v} /\ release'[x] = release[x]
  BY <1>3 DEF ReleasesInv, ReleasesTypeOK
<1>5. MetInv'
  <2>1. \A w \in Releases : release'[w].at \in OnNode => release[w].at \in OnNode
    OBVIOUS
  <2>2. \A w \in Releases : \A x \in met[w] : release'[x].at \notin {"none", "queued", "sent"}
    BY <1>4 DEF ReleasesInv, MetInv
  <2> QED
    BY <2>1, <2>2 DEF ReleasesInv, MetInv
<1>6. \A w \in Releases \ {v} : Alone(w)' <=> Alone(w)
  <2>1. met' = met /\ source' = source
    OBVIOUS
  <2> QED
    BY <1>4, <2>1 DEF Alone, Kin
<1>7. ImageInv'
  BY <1>6 DEF ReleasesInv, ImageInv, ImageOf
<1>8. \A i \in DOMAIN boxes : boxes[i] \in Releases \ {v}
  BY DEF ReleasesInv, BoxesInv, ReleasesTypeOK
<1>9. BoxesInv'
  BY <1>8 DEF ReleasesInv, BoxesInv, SameBranch
<1> QED
  BY <1>1, <1>2, <1>5, <1>7, <1>9

\* What is asked for keeps the invariant: a deployment of a push or of a ref, its
\* specification, and a rollback.
LEMMA AskKeeps ==
    ASSUME ReleasesInv,
           \/ \E c \in Commits : DeployPush(c) \/ DeployRef(c)
           \/ \E v \in Releases : BuildSpec(v) \/ Rollback(v)
    PROVE  ReleasesInv'
<1> USE ReleaseAssumption DEF Branches, Commits, NoRelease, NoCommit
<1>0. ReleasesTypeOK /\ release \in [Releases -> ReleaseRows]
  BY DEF ReleasesInv, ReleasesTypeOK, ReleaseRows
<1>1. ASSUME NEW r \in ReleaseRows, Create(r), UNCHANGED <<source, heads, cloneVars>>,
             \/ r.at = "queued" /\ r.root = 0
             \/ r.at = "sent" /\ r.root \in Releases /\ r.tag = r.root,
             r.ref[2] <= heads[r.ref[1]], r.sha[2] <= heads[r.ref[1]], heads[r.ref[1]] >= 1,
             source = "image" => r.ref = <<"main", 0>>
      PROVE  ReleasesInv'
  <2>1. /\ release' \in [Releases -> ReleaseRows]
        /\ \E v \in Releases :
            /\ release[v].at = "none"
            /\ \A w \in Releases \ {v} : release'[w] = release[w]
            /\ release'[v].at = r.at /\ release'[v].ref = r.ref /\ release'[v].sha = r.sha
            /\ release'[v].tag = r.tag /\ release'[v].root = IF r.root = 0 THEN v ELSE r.root
    BY <1>0, <1>1, RowCreated
  <2>2. PICK v \in Releases :
          /\ release[v].at = "none"
          /\ \A w \in Releases \ {v} : release'[w] = release[w]
          /\ release'[v].at = r.at /\ release'[v].ref = r.ref /\ release'[v].sha = r.sha
          /\ release'[v].tag = r.tag /\ release'[v].root = IF r.root = 0 THEN v ELSE r.root
    BY <2>1
  <2>3. ReleasesTypeOK' /\ FetchedInv' /\ MetInv' /\ ImageInv' /\ BoxesInv'
    BY <1>1, <2>1, <2>2, NotYetFetched
  <2>4. AskedInv'
    <3>1. release'[v].root \in Releases /\ IF r.at = "queued" THEN release'[v].root = v ELSE release'[v].tag = release'[v].root
      BY <1>1, <2>2 DEF Releases
    <3> QED
      BY <1>1, <2>2, <3>1 DEF ReleasesInv, AskedInv
  <2> QED
    BY <2>3, <2>4 DEF ReleasesInv
<1>2. ASSUME NEW c \in Commits, DeployPush(c) PROVE ReleasesInv'
  <2> DEFINE r == [NoRelease EXCEPT !.at = "queued", !.ref = <<c[1], 0>>, !.sha = c]
  <2>1. r \in ReleaseRows /\ r.at = "queued" /\ r.root = 0 /\ r.ref = <<c[1], 0>> /\ r.sha = c
    <3>1. <<c[1], 0>> \in Commits /\ c \in Commits
      BY DEF Commits
    <3> HIDE DEF Commits
    <3> QED
      BY <3>1 DEF ReleaseRows
  <2>2. /\ Create(r) /\ UNCHANGED <<source, heads, cloneVars>> /\ source = "git"
        /\ c[2] <= heads[c[1]] /\ 1 <= heads[c[1]] /\ 0 <= heads[c[1]]
    <3>1. c[2] \in Nat /\ c[1] \in Branches /\ heads[c[1]] \in Nat
      BY <1>0 DEF ReleasesTypeOK
    <3>2. c[2] \in 1 .. heads[c[1]]
      BY <1>2 DEF DeployPush, Pushed
    <3>3. c[2] <= heads[c[1]] /\ 1 <= heads[c[1]] /\ 0 <= heads[c[1]]
      BY <3>1, <3>2
    <3>4. Create(r) /\ UNCHANGED <<source, heads, cloneVars>> /\ source = "git"
      BY <1>2 DEF DeployPush
    <3> QED
      BY <3>3, <3>4
  <2> HIDE DEF r
  <2> QED
    BY <1>1, <2>1, <2>2
<1>3. ASSUME NEW c \in Commits, DeployRef(c) PROVE ReleasesInv'
  <2> DEFINE r == [NoRelease EXCEPT !.at = "queued", !.ref = c]
  <2>1. r \in ReleaseRows /\ r.at = "queued" /\ r.root = 0 /\ r.ref = c /\ r.sha = <<"main", 0>>
    <3>1. <<"main", 0>> \in Commits /\ c \in Commits
      BY DEF Commits
    <3> HIDE DEF Commits
    <3> QED
      BY <3>1 DEF ReleaseRows
  <2>2. /\ Create(r) /\ UNCHANGED <<source, heads, cloneVars>> /\ (source = "image" => c = <<"main", 0>>)
        /\ c[2] <= heads[c[1]] /\ 1 <= heads[c[1]] /\ 0 <= heads[c[1]]
    <3>1. c[2] \in Nat /\ c[1] \in Branches /\ heads[c[1]] \in Nat /\ heads["main"] \in Nat /\ heads["main"] >= 1
      BY <1>0 DEF ReleasesInv, AskedInv, ReleasesTypeOK
    <3>4. Create(r) /\ UNCHANGED <<source, heads, cloneVars>>
      BY <1>3 DEF DeployRef
    <3>2. CASE c = <<"main", 0>>
      <4>1. c[1] = "main" /\ c[2] = 0
        BY <3>2
      <4>2. c[2] <= heads[c[1]] /\ 1 <= heads[c[1]] /\ 0 <= heads[c[1]]
        BY <3>1, <4>1
      <4> QED
        BY <3>2, <3>4, <4>2
    <3>3. CASE source = "git" /\ Pushed(c)
      <4>1. c[2] \in 1 .. heads[c[1]]
        BY <3>3 DEF Pushed
      <4>2. c[2] <= heads[c[1]] /\ 1 <= heads[c[1]] /\ 0 <= heads[c[1]]
        BY <3>1, <4>1
      <4> QED
        BY <3>3, <3>4, <4>2
    <3> QED
      BY <1>3, <3>2, <3>3 DEF DeployRef
  <2> HIDE DEF r
  <2> QED
    BY <1>1, <2>1, <2>2
<1>4. ASSUME NEW t \in Releases, Rollback(t) PROVE ReleasesInv'
  <2> DEFINE r == [release[t] EXCEPT !.at = "sent"]
  <2>1. /\ r \in ReleaseRows /\ r.at = "sent" /\ r.root = release[t].root /\ r.ref = release[t].ref
        /\ r.sha = release[t].sha /\ r.tag = release[t].tag
    BY <1>0 DEF ReleaseRows
  <2>2. Create(r) /\ UNCHANGED <<source, heads, cloneVars>> /\ release[t].at \notin {"none", "queued"}
    BY <1>4 DEF Rollback
  <2> HIDE DEF r
  <2> QED
    BY <1>1, <2>1, <2>2 DEF ReleasesInv, AskedInv
<1>5. ASSUME NEW v \in Releases, BuildSpec(v) PROVE ReleasesInv'
  <2> DEFINE row == [release[v] EXCEPT !.at = "sent", !.tag = v]
  <2>1. /\ row \in ReleaseRows /\ row.at = "sent" /\ row.tag = v /\ row.ref = release[v].ref
        /\ row.sha = release[v].sha /\ row.root = release[v].root
    BY <1>0 DEF ReleaseRows
  <2>2. release' = [release EXCEPT ![v] = row] /\ release[v].at = "queued" /\ UNCHANGED <<source, heads, cloneVars>>
    BY <1>0, <1>5 DEF BuildSpec, ImageTag
  <2> HIDE DEF row
  <2>3. /\ release' \in [Releases -> ReleaseRows] /\ release'[v] = row
        /\ \A w \in Releases \ {v} : release'[w] = release[w]
    BY <1>0, <2>1, <2>2
  <2>4. ReleasesTypeOK' /\ FetchedInv' /\ MetInv' /\ ImageInv' /\ BoxesInv'
    BY <2>1, <2>2, <2>3, NotYetFetched
  <2>5. AskedInv'
    BY <2>1, <2>2, <2>3 DEF ReleasesInv, AskedInv
  <2> QED
    BY <2>4, <2>5 DEF ReleasesInv
<1> QED
  BY <1>2, <1>3, <1>4, <1>5

\* A release that is fetched has met all that are on the node by then, and they have met
\* it.
LEMMA FetchKeeps ==
    ASSUME ReleasesInv, NEW v \in Releases, NEW a \in {"cloned", "built"}, release[v].at = "sent",
           release' = [release EXCEPT ![v].at = a], NEW c \in Commits, Pushed(c),
           IF IsBranch(release[v].ref) THEN c = <<release[v].ref[1], heads[release[v].ref[1]]>>
                                       ELSE c = release[v].ref,
           has' = [has EXCEPT ![v] = c], Meet(v), UNCHANGED <<source, heads, boxes, ran>>,
           a = "cloned" => source = "git" /\ image' = image,
           a = "built" => source = "image" /\ image' = [image EXCEPT ![0] = c]
    PROVE  ReleasesInv'
<1> USE ReleaseAssumption
<1>0. ReleasesTypeOK
  BY DEF ReleasesInv
<1>1. /\ release' \in [Releases -> ReleaseRows]
      /\ release'[v].at = a /\ \A w \in Releases \ {v} : release'[w] = release[w]
      /\ \A w \in Releases : Keeps(w)
  BY <1>0, RowMoved
<1>2. has' \in [Releases -> Commits] /\ has'[v] = c /\ \A w \in Releases \ {v} : has'[w] = has[w]
  BY <1>0 DEF ReleasesTypeOK
<1> DEFINE There == {w \in Releases \ {v} : release[w].at \in OnNode}
<1>3. /\ met' \in [Releases -> SUBSET Releases] /\ met'[v] = There
      /\ \A w \in Releases \ {v} : met'[w] = IF w \in There THEN met[w] \union {v} ELSE met[w]
  BY <1>0 DEF Meet, ReleasesTypeOK
<1>4. image' \in [Releases \union {0} -> Commits]
  BY <1>0 DEF ReleasesTypeOK
<1>5. ReleasesTypeOK'
  BY <1>0, <1>1, <1>2, <1>3, <1>4 DEF ReleasesTypeOK, ReleaseRows
<1>6. AskedInv'
  <2>1. \A w \in Releases : release[w].at = "none" <=> release'[w].at = "none"
    BY <1>1
  <2>2. \A w \in Releases : release[w].at = "queued" <=> release'[w].at = "queued"
    BY <1>1
  <2> QED
    BY <1>1, <2>1, <2>2 DEF ReleasesInv, AskedInv, Keeps
<1>7. FetchedInv'
  <2>1. \A w \in Releases \ {v} : release'[w].at \in Fetched =>
          /\ Pushed(has'[w])
          /\ IF IsBranch(release'[w].ref)
             THEN has'[w][1] = release'[w].ref[1] /\ has'[w][2] >= release'[w].sha[2]
             ELSE has'[w] = release'[w].ref
          /\ release'[w].at \in {"cloned", "adrift"} => source = "git"
    BY <1>1, <1>2 DEF ReleasesInv, FetchedInv, Fetched
  <2>2. /\ Pushed(c)
        /\ IF IsBranch(release[v].ref) THEN c[1] = release[v].ref[1] /\ c[2] >= release[v].sha[2]
           ELSE c = release[v].ref
    <3>1. release[v].sha[2] <= heads[release[v].ref[1]] /\ release[v].sha[2] \in Nat /\ heads[release[v].ref[1]] \in Nat
      <4>1. release[v].ref \in Commits /\ release[v].sha \in Commits
        BY <1>0 DEF ReleasesTypeOK
      <4>2. \A x \in Commits : x[1] \in Branches /\ x[2] \in Nat
        BY DEF Commits
      <4>3. release[v].sha[2] <= heads[release[v].ref[1]]
        BY DEF ReleasesInv, AskedInv
      <4> QED
        BY <1>0, <4>1, <4>2, <4>3 DEF ReleasesTypeOK
    <3> QED
      BY <3>1
  <2> QED
    BY <1>1, <1>2, <2>1, <2>2 DEF FetchedInv, Keeps, Pushed
<1>8. MetInv'
  <2>1. \A w \in There : w \in met'[v] /\ v \in met'[w]
    BY <1>3
  <2>2. \A w, x \in Releases \ {v} : w \in met[x] => w \in met'[x]
    BY <1>3
  <2>3. \A w, x \in Releases : w /= x /\ release'[w].at \in OnNode /\ release'[x].at \in OnNode => x \in met'[w]
    BY <1>1, <2>1, <2>2 DEF ReleasesInv, MetInv
  <2>4. \A w \in Releases : \A x \in met'[w] : x \in There \/ x = v \/ x \in met[w]
    BY <1>3
  <2>5. \A x \in There \union {v} : release'[x].at \notin {"none", "queued", "sent"}
    BY <1>1 DEF OnNode
  <2>6. \A w \in Releases : \A x \in met[w] : x /= v /\ release'[x].at \notin {"none", "queued", "sent"}
    BY <1>0, <1>1 DEF ReleasesInv, MetInv, ReleasesTypeOK
  <2> QED
    BY <2>3, <2>4, <2>5, <2>6 DEF MetInv
<1>9. \A w \in Releases \ {v} : Alone(w)' => Alone(w)
  BY <1>0, <1>1, <1>3 DEF Alone, Kin, Keeps, ReleasesTypeOK
<1>10. ImageInv'
  <2>1. ASSUME NEW w \in Releases \ {v}, Alone(w)', release'[w].at = "built"
        PROVE  image'[ImageOf(w)'] = has'[w]
    <3>1. image[ImageOf(w)] = has[w] /\ has'[w] = has[w] /\ ImageOf(w)' = ImageOf(w)
      BY <1>1, <1>2, <1>9, <2>1 DEF ReleasesInv, ImageInv, ImageOf, Keeps
    <3>2. a = "cloned"
      <4>1. w \in There
        BY <1>1, <2>1 DEF OnNode
      <4>2. v \in met'[w]
        BY <1>3, <4>1
      <4> QED
        BY <2>1, <4>2 DEF Alone, Kin
    <3> QED
      BY <3>1, <3>2
  <2>2. \A w \in Releases \ {v} : Alone(w)' /\ release'[w].at = "ran" => ran'[w] = has'[w]
    BY <1>1, <1>2, <1>9 DEF ReleasesInv, ImageInv
  <2>3. release'[v].at = "built" => image'[ImageOf(v)'] = has'[v]
    BY <1>0, <1>1, <1>2 DEF ImageOf, ReleasesTypeOK
  <2>4. release'[v].at /= "ran"
    BY <1>1
  <2> QED
    BY <2>1, <2>2, <2>3, <2>4 DEF ImageInv
<1>11. BoxesInv'
  <2>1. \A i \in DOMAIN boxes : boxes[i] \in Releases \ {v} /\ release[boxes[i]].at = "ran"
    BY <1>0 DEF ReleasesInv, BoxesInv, ReleasesTypeOK
  <2>2. \A w, x \in Releases \ {v} : x \notin met'[w] => x \notin met[w]
    BY <1>3
  <2>3. \A w, x \in Releases : SameBranch(w, x)' <=> SameBranch(w, x)
    BY <1>1 DEF SameBranch, Keeps
  <2>4. \A i \in DOMAIN boxes : release'[boxes[i]].at = "ran"
    BY <1>1, <2>1
  <2>5. ASSUME NEW w \in Releases, release'[w].at = "ran", SameBranch(w, v)
        PROVE  has'[w][2] <= has'[v][2]
    <3>1. w /= v /\ release[w].at = "ran" /\ has'[w] = has[w]
      BY <1>1, <1>2, <2>5
    <3>2. Pushed(has[w]) /\ (IsBranch(release[w].ref) => has[w][1] = release[w].ref[1])
      BY <3>1 DEF ReleasesInv, FetchedInv, Fetched
    <3>3. IsBranch(release[w].ref) /\ release[w].ref = release[v].ref
      BY <2>5, <3>1 DEF SameBranch, ReleasesInv, AskedInv, IsBranch
    <3>4. has[w][2] \in 1 .. heads[release[v].ref[1]]
      BY <3>2, <3>3 DEF Pushed
    <3>5. has'[v][2] = heads[release[v].ref[1]]
      BY <1>2, <3>3
    <3>6. heads[release[v].ref[1]] \in Nat /\ has[w][2] \in Nat
      <4>1. release[v].ref \in Commits /\ has[w] \in Commits
        BY <1>0 DEF ReleasesTypeOK
      <4>2. \A x \in Commits : x[1] \in Branches /\ x[2] \in Nat
        BY DEF Commits
      <4> QED
        BY <1>0, <4>1, <4>2 DEF ReleasesTypeOK
    <3> QED
      BY <3>1, <3>4, <3>5, <3>6
  <2>6. ASSUME NEW w \in Releases, NEW x \in Releases, release'[w].at = "ran", release'[x].at \in OnNode,
               w \notin met'[x], SameBranch(w, x)
        PROVE  has'[w][2] <= has'[x][2]
    <3>1. CASE x = v
      BY <2>5, <2>6, <3>1
    <3>2. CASE x /= v
      BY <1>1, <1>2, <2>2, <2>6, <3>2 DEF ReleasesInv, BoxesInv
    <3> QED
      BY <3>1, <3>2
  <2>7. ASSUME NEW i \in DOMAIN boxes, NEW j \in DOMAIN boxes, i < j, boxes[i] \notin met'[boxes[j]],
               SameBranch(boxes[i], boxes[j])
        PROVE  has'[boxes[i]][2] <= has'[boxes[j]][2]
    BY <1>2, <2>1, <2>2, <2>7 DEF ReleasesInv, BoxesInv
  <2> QED
    BY <2>1, <2>3, <2>4, <2>6, <2>7 DEF BoxesInv
<1> QED
  BY <1>5, <1>6, <1>7, <1>8, <1>10, <1>11 DEF ReleasesInv

\* A release that is on the node and goes on, or fails: nobody's image but its own kin's
\* is moved by it.
LEMMA BuildKeeps ==
    ASSUME ReleasesInv, NEW v \in Releases, NEW a \in {"built", "failed", "adrift"},
           release[v].at \in OnNode, a = "adrift" => release[v].at = "cloned",
           release' = [release EXCEPT ![v].at = a],
           UNCHANGED <<source, heads, has, boxes, ran, met>>,
           \/ image' = image /\ a /= "built"
           \/ release[v].at \in {"cloned", "adrift"} /\ image' = [image EXCEPT ![release[v].tag] = has[v]] /\ source = "git"
    PROVE  ReleasesInv'
<1> USE ReleaseAssumption
<1>0. ReleasesTypeOK
  BY DEF ReleasesInv
<1>1. /\ release' \in [Releases -> ReleaseRows]
      /\ release'[v].at = a /\ \A w \in Releases \ {v} : release'[w] = release[w]
      /\ \A w \in Releases : Keeps(w)
  BY <1>0, RowMoved
<1>2. release[v].tag \in Releases \union {0} /\ has[v] \in Commits
  BY <1>0 DEF ReleasesTypeOK
<1>3. ReleasesTypeOK'
  BY <1>0, <1>1, <1>2 DEF ReleasesTypeOK, ReleaseRows
<1>4. AskedInv'
  BY <1>1 DEF ReleasesInv, AskedInv, Keeps, OnNode
<1>5. FetchedInv'
  BY <1>1 DEF ReleasesInv, FetchedInv, Fetched, Keeps, Pushed, OnNode
<1>6. MetInv'
  BY <1>1 DEF ReleasesInv, MetInv, OnNode
<1>7. \A w \in Releases : Alone(w)' <=> Alone(w)
  BY <1>0, <1>1 DEF Alone, Kin, Keeps, ReleasesTypeOK
<1>8. ImageInv'
  <2>1. ASSUME NEW w \in Releases \ {v}, Alone(w), release[w].at = "built"
        PROVE  image'[ImageOf(w)] = has[w]
    <3>1. image[ImageOf(w)] = has[w]
      BY <2>1 DEF ReleasesInv, ImageInv
    <3>2. source = "git" => ImageOf(w) /= release[v].tag
      <4>1. v \in met[w]
        BY <2>1 DEF ReleasesInv, MetInv, OnNode
      <4>2. release[w].tag = release[w].root /\ release[v].tag = release[v].root
        BY <2>1 DEF ReleasesInv, AskedInv, OnNode
      <4> QED
        BY <2>1, <4>1, <4>2 DEF Alone, Kin, ImageOf
    <3>3. ImageOf(w) \in Releases \union {0}
      BY <1>0 DEF ImageOf, ReleasesTypeOK
    <3> QED
      BY <1>0, <3>1, <3>2, <3>3 DEF ReleasesTypeOK
  <2>2. a = "built" => image'[ImageOf(v)] = has[v]
    BY <1>0, <1>2 DEF ImageOf, ReleasesTypeOK
  <2>3. \A w \in Releases : ImageOf(w)' = ImageOf(w)
    BY <1>1 DEF ImageOf, Keeps
  <2> QED
    BY <1>1, <1>7, <2>1, <2>2, <2>3 DEF ReleasesInv, ImageInv
<1>9. BoxesInv'
  <2>1. \A i \in DOMAIN boxes : boxes[i] \in Releases \ {v}
    BY <1>0 DEF ReleasesInv, BoxesInv, ReleasesTypeOK, OnNode
  <2>2. \A w, x \in Releases : SameBranch(w, x)' <=> SameBranch(w, x)
    BY <1>1 DEF SameBranch, Keeps
  <2> QED
    BY <1>0, <1>1, <2>1, <2>2 DEF ReleasesInv, BoxesInv, OnNode, ReleasesTypeOK
<1> QED
  BY <1>3, <1>4, <1>5, <1>6, <1>8, <1>9 DEF ReleasesInv

\* The container of a release that met none of its kin is created from what was built
\* for it, and what ran before it and did not meet it was fetched before it.
LEMMA RunKeepsReleases ==
    ASSUME ReleasesInv, NEW v \in Releases, RunImage(v)
    PROVE  ReleasesInv'
<1> USE ReleaseAssumption
<1>0. ReleasesTypeOK
  BY DEF ReleasesInv
<1>1. /\ release' \in [Releases -> ReleaseRows]
      /\ release'[v].at = "ran" /\ \A w \in Releases \ {v} : release'[w] = release[w]
      /\ \A w \in Releases : Keeps(w)
  BY <1>0, RowMoved DEF RunImage
<1>2. /\ release[v].at = "built" /\ boxes' = Append(boxes, v) /\ UNCHANGED <<source, heads, has, image, met>>
      /\ ran' = [ran EXCEPT ![v] = image[ImageOf(v)]]
  BY DEF RunImage, ImageOf
<1>3. ImageOf(v) \in Releases \union {0}
  BY <1>0 DEF ImageOf, ReleasesTypeOK
<1>4. /\ ran' \in [Releases -> Commits] /\ ran'[v] = image[ImageOf(v)]
      /\ \A w \in Releases \ {v} : ran'[w] = ran[w]
  BY <1>0, <1>2, <1>3 DEF ReleasesTypeOK
<1>5. boxes' \in Seq(Releases)
  BY <1>0, <1>2 DEF ReleasesTypeOK
<1>6. ReleasesTypeOK'
  BY <1>0, <1>1, <1>2, <1>4, <1>5 DEF ReleasesTypeOK, ReleaseRows
<1>7. AskedInv'
  BY <1>1, <1>2 DEF ReleasesInv, AskedInv, Keeps
<1>8. FetchedInv'
  BY <1>1, <1>2 DEF ReleasesInv, FetchedInv, Fetched, Keeps, Pushed, OnNode
<1>9. MetInv'
  <2>1. \A w \in Releases : release'[w].at \in OnNode => release[w].at \in OnNode
    BY <1>1 DEF OnNode
  <2>2. \A w \in Releases : release[w].at \notin {"none", "queued", "sent"} => release'[w].at \notin {"none", "queued", "sent"}
    BY <1>1
  <2>3. \A w \in Releases : met[w] \subseteq Releases
    BY <1>0 DEF ReleasesTypeOK
  <2> QED
    BY <1>2, <2>1, <2>2, <2>3 DEF ReleasesInv, MetInv
<1>10. \A w \in Releases : (Alone(w)' <=> Alone(w)) /\ ImageOf(w)' = ImageOf(w)
  BY <1>0, <1>1, <1>2 DEF Alone, Kin, ImageOf, Keeps, ReleasesTypeOK
<1>11. ImageInv'
  BY <1>1, <1>2, <1>4, <1>10 DEF ReleasesInv, ImageInv
<1>12. BoxesInv'
  <2>1. /\ DOMAIN boxes' = DOMAIN boxes \union {Len(boxes) + 1} /\ boxes'[Len(boxes) + 1] = v
        /\ Len(boxes) \in Nat /\ DOMAIN boxes = 1 .. Len(boxes)
        /\ \A i \in DOMAIN boxes : boxes'[i] = boxes[i] /\ boxes[i] \in Releases
    BY <1>0, <1>2 DEF ReleasesTypeOK
  <2>2. \A w, x \in Releases : SameBranch(w, x)' <=> SameBranch(w, x)
    BY <1>1, <1>2 DEF SameBranch, Keeps
  <2>3. \A i \in DOMAIN boxes : release[boxes[i]].at = "ran" /\ boxes[i] /= v
    BY <1>2 DEF ReleasesInv, BoxesInv
  <2>4. \A i \in DOMAIN boxes' : release'[boxes'[i]].at = "ran"
    BY <1>1, <2>1, <2>3
  <2>5. ASSUME NEW w \in Releases, NEW x \in Releases, release'[w].at = "ran", release'[x].at \in OnNode,
               w \notin met[x], SameBranch(w, x)
        PROVE  has[w][2] <= has[x][2]
    <3>1. x /= v /\ release[x].at \in OnNode
      BY <1>1, <2>5 DEF OnNode
    <3>2. w /= v
      BY <1>2, <2>5, <3>1 DEF ReleasesInv, MetInv, OnNode
    <3> QED
      BY <1>1, <2>5, <3>1, <3>2 DEF ReleasesInv, BoxesInv
  <2>6. ASSUME NEW i \in DOMAIN boxes', NEW j \in DOMAIN boxes', i < j, boxes'[i] \notin met[boxes'[j]],
               SameBranch(boxes'[i], boxes'[j])
        PROVE  has[boxes'[i]][2] <= has[boxes'[j]][2]
    <3>1. i \in DOMAIN boxes
      BY <2>1, <2>6
    <3>2. CASE j \in DOMAIN boxes
      BY <2>1, <2>6, <3>1, <3>2 DEF ReleasesInv, BoxesInv
    <3>3. CASE j = Len(boxes) + 1
      <4>1. release[boxes[i]].at = "ran" /\ release[v].at \in OnNode /\ boxes'[i] = boxes[i] /\ boxes'[j] = v
        BY <1>2, <2>1, <2>3, <3>1, <3>3 DEF OnNode
      <4> QED
        BY <2>1, <2>6, <3>1, <4>1 DEF ReleasesInv, BoxesInv
    <3> QED
      BY <2>1, <3>2, <3>3
  <2>7. has' = has /\ met' = met
    BY <1>2
  <2>8. \A i \in DOMAIN boxes' : boxes'[i] \in Releases
    BY <2>1
  <2>9. \A w, x \in Releases : release'[w].at = "ran" /\ release'[x].at \in OnNode /\ w \notin met'[x] /\ SameBranch(w, x)'
                                => has'[w][2] <= has'[x][2]
    BY <2>2, <2>5, <2>7
  <2>10. (\A i, j \in DOMAIN boxes : i < j /\ boxes[i] \notin met[boxes[j]] /\ SameBranch(boxes[i], boxes[j])
                                    => has[boxes[i]][2] <= has[boxes[j]][2])'
    <3> SUFFICES ASSUME NEW i \in DOMAIN boxes', NEW j \in DOMAIN boxes', i < j,
                        boxes'[i] \notin met'[boxes'[j]], SameBranch(boxes[i], boxes[j])'
                 PROVE  has'[boxes'[i]][2] <= has'[boxes'[j]][2]
      OBVIOUS
    <3>1. SameBranch(boxes'[i], boxes'[j])
      BY <1>1, <1>2, <2>8 DEF SameBranch, Keeps
    <3> QED
      BY <2>6, <2>7, <3>1
  <2> QED
    BY <2>4, <2>9, <2>10 DEF BoxesInv
<1> QED
  BY <1>6, <1>7, <1>8, <1>9, <1>11, <1>12 DEF ReleasesInv

\* The builds that end with the agent leave the releases that ran.
LEMMA StopKeepsReleases ==
    ASSUME ReleasesInv, NodeStops
    PROVE  ReleasesInv'
<1> USE ReleaseAssumption
<1>0. ReleasesTypeOK
  BY DEF ReleasesInv
<1>1. UNCHANGED <<source, heads, has, image, boxes, ran, met>>
  BY DEF NodeStops, cloneVars
<1>2. /\ release' \in [Releases -> ReleaseRows] /\ \A w \in Releases : Keeps(w)
      /\ \A w \in Releases : IF release[w].at \in OnNode THEN release'[w].at = "failed"
                                                       ELSE release'[w].at = release[w].at
  <2>1. release \in [Releases -> ReleaseRows]
    BY <1>0 DEF ReleasesTypeOK, ReleaseRows
  <2>2. \A r \in ReleaseRows : /\ [r EXCEPT !.at = "failed"] \in ReleaseRows
                               /\ [r EXCEPT !.at = "failed"].at = "failed"
                               /\ [r EXCEPT !.at = "failed"].ref = r.ref
                               /\ [r EXCEPT !.at = "failed"].sha = r.sha
                               /\ [r EXCEPT !.at = "failed"].tag = r.tag
                               /\ [r EXCEPT !.at = "failed"].root = r.root
    BY DEF ReleaseRows
  <2> QED
    BY <2>1, <2>2 DEF NodeStops, Keeps
<1>3. ReleasesTypeOK'
  BY <1>0, <1>1, <1>2 DEF ReleasesTypeOK, ReleaseRows
<1>4. AskedInv'
  BY <1>1, <1>2 DEF ReleasesInv, AskedInv, Keeps, OnNode
<1>5. FetchedInv' /\ MetInv'
  <2>1. \A w \in Releases : /\ release'[w].at \in Fetched => release'[w].at = release[w].at
                            /\ release'[w].at \notin OnNode
    BY <1>2 DEF Fetched, OnNode
  <2>2. \A w \in Releases : release[w].at \notin {"none", "queued", "sent"} => release'[w].at \notin {"none", "queued", "sent"}
    BY <1>2
  <2>3. \A w \in Releases : met[w] \subseteq Releases
    BY <1>0 DEF ReleasesTypeOK
  <2>4. FetchedInv'
    BY <1>1, <1>2, <2>1 DEF ReleasesInv, FetchedInv, Keeps, Pushed
  <2>5. MetInv'
    BY <1>1, <2>1, <2>2, <2>3 DEF ReleasesInv, MetInv
  <2> QED
    BY <2>4, <2>5
<1>6. \A w \in Releases : (Alone(w)' <=> Alone(w)) /\ ImageOf(w)' = ImageOf(w)
  BY <1>0, <1>1, <1>2 DEF Alone, Kin, ImageOf, Keeps, ReleasesTypeOK
<1>7. ImageInv'
  BY <1>1, <1>2, <1>6 DEF ReleasesInv, ImageInv, OnNode
<1>8. BoxesInv'
  <2>1. \A i \in DOMAIN boxes : boxes[i] \in Releases
    BY <1>0 DEF ReleasesTypeOK
  <2>2. \A w, x \in Releases : SameBranch(w, x)' <=> SameBranch(w, x)
    BY <1>1, <1>2 DEF SameBranch, Keeps
  <2> QED
    BY <1>1, <1>2, <2>1, <2>2 DEF ReleasesInv, BoxesInv, OnNode
<1> QED
  BY <1>3, <1>4, <1>5, <1>7, <1>8 DEF ReleasesInv

\* It holds of the releases of an app at every moment.
LEMMA ReleasesKept == ReleasesSpec => []ReleasesInv
<1>1. ReleasesInit => ReleasesInv
  <2> SUFFICES ASSUME ReleasesInit PROVE ReleasesInv
    OBVIOUS
  <2> USE ReleaseAssumption DEF ReleasesInit
  <2>1. ReleasesTypeOK
    <3>1. NoCommit \in Commits
      BY DEF NoCommit, Commits, Branches
    <3>2. NoRelease \in ReleaseRows
      BY <3>1 DEF NoRelease, ReleaseRows
    <3>3. heads \in [Branches -> 0 .. MaxCommits]
      OBVIOUS
    <3>4. release \in [Releases -> ReleaseRows]
      BY <3>2
    <3> QED
      BY <3>1, <3>3, <3>4 DEF ReleasesTypeOK, ReleaseRows
  <2>2. heads["main"] = 1 /\ \A v \in Releases : release[v].at = "none"
    BY DEF NoRelease, Branches
  <2>3. DOMAIN boxes = {}
    OBVIOUS
  <2>4. AskedInv /\ FetchedInv /\ MetInv /\ ImageInv
    BY <2>2 DEF AskedInv, FetchedInv, MetInv, ImageInv, Fetched, OnNode
  <2>5. BoxesInv
    BY <2>2, <2>3 DEF BoxesInv
  <2> QED
    BY <2>1, <2>4, <2>5 DEF ReleasesInv
<1>2. ReleasesInv /\ [ReleasesNext]_<<releaseVars, faults>> => ReleasesInv'
  <2> SUFFICES ASSUME ReleasesInv, [ReleasesNext]_<<releaseVars, faults>> PROVE ReleasesInv'
    OBVIOUS
  <2>0. ReleasesTypeOK
    BY DEF ReleasesInv
  <2>1. ASSUME NEW v \in Releases, CloneRepo(v) PROVE ReleasesInv'
    <3> DEFINE c == IF IsBranch(release[v].ref) THEN <<release[v].ref[1], heads[release[v].ref[1]]>> ELSE release[v].ref
    <3>1. c \in Commits /\ Pushed(c)
      <4>1. release[v].ref \in Commits /\ release[v].ref[1] \in Branches /\ release[v].ref[2] \in Nat
        BY <2>0 DEF ReleasesTypeOK, Commits
      <4>2. heads[release[v].ref[1]] \in 0 .. MaxCommits
        BY <2>0, <4>1 DEF ReleasesTypeOK
      <4>3. release[v].ref[2] <= heads[release[v].ref[1]] /\ heads[release[v].ref[1]] >= 1
        BY <2>1 DEF CloneRepo, ReleasesInv, AskedInv
      <4>4. CASE IsBranch(release[v].ref)
        BY <4>1, <4>2, <4>3, <4>4, ReleaseAssumption DEF Commits, Pushed
      <4>5. CASE ~IsBranch(release[v].ref)
        BY <4>1, <4>2, <4>3, <4>5, ReleaseAssumption DEF Commits, Pushed, IsBranch
      <4> QED
        BY <4>4, <4>5
    <3>2. /\ release[v].at = "sent" /\ release' = [release EXCEPT ![v].at = "cloned"] /\ source = "git" /\ image' = image
          /\ has' = [has EXCEPT ![v] = c] /\ Meet(v) /\ UNCHANGED <<source, heads, boxes, ran>>
      BY <2>1 DEF CloneRepo
    <3>3. IF IsBranch(release[v].ref) THEN c = <<release[v].ref[1], heads[release[v].ref[1]]>> ELSE c = release[v].ref
      OBVIOUS
    <3> HIDE DEF c
    <3> QED
      BY <3>1, <3>2, <3>3, FetchKeeps
  <2>2. ASSUME NEW v \in Releases, PullImage(v) PROVE ReleasesInv'
    <3> DEFINE c == <<"main", heads["main"]>>
    <3>1. heads["main"] \in 1 .. MaxCommits
      BY <2>0, ReleaseAssumption DEF ReleasesTypeOK, ReleasesInv, AskedInv, Branches
    <3>2. c \in Commits /\ Pushed(c)
      BY <3>1, ReleaseAssumption DEF Commits, Pushed, Branches
    <3>3. /\ release[v].at = "sent" /\ release' = [release EXCEPT ![v].at = "built"] /\ source = "image"
          /\ image' = [image EXCEPT ![0] = c]
          /\ has' = [has EXCEPT ![v] = c] /\ Meet(v) /\ UNCHANGED <<source, heads, boxes, ran>>
      BY <2>2 DEF PullImage
    <3>4. release[v].ref = <<"main", 0>>
      BY <3>3 DEF ReleasesInv, AskedInv
    <3>5. IF IsBranch(release[v].ref) THEN c = <<release[v].ref[1], heads[release[v].ref[1]]>> ELSE c = release[v].ref
      BY <3>4 DEF IsBranch
    <3> HIDE DEF c
    <3> QED
      BY <3>2, <3>3, <3>5, FetchKeeps
  <2>3. ASSUME NEW v \in Releases, DockerBuild(v) PROVE ReleasesInv'
    <3>1. release[v].at = "cloned" /\ source = "git"
      BY <2>3 DEF DockerBuild, ReleasesInv, FetchedInv, Fetched, OnNode
    <3> QED
      BY <2>3, <3>1, BuildKeeps DEF DockerBuild, OnNode
  <2>4. ASSUME NEW v \in Releases, TimeOut(v) PROVE ReleasesInv'
    <3>1. CASE release[v].at = "cloned"
      <4>1. release' = [release EXCEPT ![v].at = "adrift"]
        BY <2>0, <2>4, <3>1 DEF TimeOut, ReleasesTypeOK
      <4> QED
        BY <2>4, <3>1, <4>1, BuildKeeps DEF TimeOut, OnNode, cloneVars
    <3>2. CASE release[v].at = "built"
      <4>1. release' = [release EXCEPT ![v].at = "failed"]
        BY <2>0, <2>4, <3>2 DEF TimeOut, ReleasesTypeOK
      <4> QED
        BY <2>4, <3>2, <4>1, BuildKeeps DEF TimeOut, OnNode, cloneVars
    <3> QED
      BY <2>4, <3>1, <3>2 DEF TimeOut
  <2>5. ASSUME NEW v \in Releases, LateBuild(v) PROVE ReleasesInv'
    <3>1. release[v].at = "adrift" /\ source = "git"
      BY <2>5 DEF LateBuild, ReleasesInv, FetchedInv, Fetched, OnNode
    <3> QED
      BY <2>5, <3>1, BuildKeeps DEF LateBuild, OnNode
  <2>6. CASE UNCHANGED <<releaseVars, faults>>
    BY <2>6 DEF releaseVars, ReleasesInv, ReleasesTypeOK, AskedInv, FetchedInv, MetInv, ImageInv, BoxesInv, Alone,
                Kin, ImageOf, SameBranch, Pushed
  <2> QED
    BY <2>1, <2>2, <2>3, <2>4, <2>5, <2>6, PushKeeps, AskKeeps, RunKeepsReleases, StopKeepsReleases DEF ReleasesNext
<1> QED
  BY <1>1, <1>2, PTL DEF ReleasesSpec

\* A release that met none of its kin runs what it fetched, which is what it names; and of
\* two such releases of a branch that did not meet, the later one runs no older code
\* (clone_repo, docker_build and run_container of the node, rollback.ts).
THEOREM ReleasesRunWhatTheyName == ReleasesSpec => []RunsWhatItNames
<1>1. ReleasesInv => RunsWhatItNames
  <2> SUFFICES ASSUME ReleasesInv
               PROVE  /\ \A v \in Releases : release[v].at = "ran" /\ Alone(v) =>
                          /\ Pushed(ran[v]) /\ ran[v] = has[v]
                          /\ source = "git" /\ IsBranch(release[v].ref) =>
                              ran[v][1] = release[v].ref[1] /\ ran[v][2] >= release[v].sha[2]
                          /\ ~IsBranch(release[v].ref) => ran[v] = release[v].ref
                      /\ \A i, j \in DOMAIN boxes :
                          i < j /\ Alone(boxes[i]) /\ Alone(boxes[j]) /\ boxes[i] \notin met[boxes[j]]
                          /\ SameBranch(boxes[i], boxes[j]) => ran[boxes[i]][2] <= ran[boxes[j]][2]
    BY DEF RunsWhatItNames, Alone, SameBranch
  <2>1. \A v \in Releases : release[v].at = "ran" /\ Alone(v) => ran[v] = has[v] /\ release[v].at \in Fetched
    BY DEF ReleasesInv, ImageInv, Fetched
  <2>2. \A i \in DOMAIN boxes : boxes[i] \in Releases /\ release[boxes[i]].at = "ran"
    BY DEF ReleasesInv, BoxesInv, ReleasesTypeOK
  <2>3. \A i, j \in DOMAIN boxes :
          i < j /\ Alone(boxes[i]) /\ Alone(boxes[j]) /\ boxes[i] \notin met[boxes[j]]
          /\ SameBranch(boxes[i], boxes[j]) => ran[boxes[i]][2] <= ran[boxes[j]][2]
    BY <2>1, <2>2 DEF ReleasesInv, BoxesInv
  <2> QED
    BY <2>1, <2>3 DEF ReleasesInv, FetchedInv
<1> QED
  BY ReleasesKept, <1>1, PTL

-----------------------------------------------------------------------------
(* Firewalls.  While what the last apply job read is still so, each node of *)
(* the row is yet to be sent to, told, unable, or enforcing what it says.   *)

\* What is to come of node n for firewall f, and what has become of it.
Unable(f) == Broken \union declined[f]
ToEnforce(f, n) == \E c \in CommandsOf(f) : c.node = n /\ c.stage = "sent"
Enforces(f, n) == \E t \in table[n] : t.fw = f => t.rules = fw[f].rules
Through(f, n) == n \notin todo[f].nodes /\ ~ToEnforce(f, n)

\* The last apply job of f has read its row, and the row is as it was read; it met no other.
Current(f) ==
    /\ job[f]["apply"] \in {"sending", "resending", "ended"}
    /\ ~fw[f].deleted /\ "patched" \notin cause[f] /\ "lost" \notin cause[f]
Unmet(f) == Current(f) /\ "met" \notin cause[f]

\* A removal is asked for a deleted row, and never sends; a job that broke off is remembered.
FirewallJobsInv(f) ==
    /\ asked[f]["remove"] > 0 \/ job[f]["remove"] /= "unknown" => fw[f].deleted
    /\ job[f]["remove"] \in {"unknown", "waiting", "ended"}
    /\ asked[f]["apply"] > 0 \/ job[f]["apply"] /= "unknown" => fw[f].status /= "none"
    /\ job[f]["apply"] = "unknown" =>
        /\ CommandsOf(f) = {} /\ fw[f].status \in {"none", "draft", "applying"}
        /\ fw[f].status = "applying" => asked[f]["apply"] > 0 \/ "lost" \in cause[f]
    /\ ~Sending(f) => todo[f].nodes = {}
    /\ job[f]["apply"] \in {"stalled", "failed"} => "lost" \in cause[f]

\* What it has sent is what it read, once to each node; a node is yet to be sent to or to
\* enforce, is unable, or enforces it; and one that is through has made the status.
EnforcingInv(f) ==
    Unmet(f) =>
        /\ todo[f].nodes \subseteq fw[f].nodes /\ (todo[f].nodes /= {} => todo[f].rules = fw[f].rules)
        /\ \A c \in CommandsOf(f) :
            /\ c.rules = fw[f].rules /\ c.node \in fw[f].nodes \ todo[f].nodes
            /\ c.stage = "ok" => c.node \notin Unable(f)
            /\ c.stage = "failed" => c.node \in Unable(f)
            /\ \A d \in CommandsOf(f) : d.node = c.node => d = c
        /\ \A n \in fw[f].nodes \ Unable(f) : n \in todo[f].nodes \/ ToEnforce(f, n) \/ Enforces(f, n)
        /\ fw[f].status = "active" => \E n \in fw[f].nodes \ Unable(f) : Through(f, n)
        /\ fw[f].status = "failed" => \E n \in fw[f].nodes \intersect Unable(f) : Through(f, n)

\* A row that is being applied has a report to come.
ApplyingInv(f) ==
    Current(f) /\ fw[f].status = "applying" =>
        \/ "ignored" \in cause[f] \/ fw[f].nodes = {} \/ asked[f]["apply"] > 0
        \/ todo[f].nodes /= {} \/ CommandsOf(f) /= {}

OneFirewallInv(f) == FirewallJobsInv(f) /\ EnforcingInv(f) /\ ApplyingInv(f)

FirewallInv == FirewallsTypeOK /\ \A f \in Firewalls : OneFirewallInv(f)

FirewallRows == [status : Statuses, nodes : SUBSET Nodes, rules : Nat, deleted : BOOLEAN]
OrderRows == [fw : Firewalls, node : Nodes, rules : Nat, start : Nat, stage : {"sent", "ok", "failed"}]
JobStates == {"unknown", "waiting", "sending", "stalled", "resending", "ended", "failed"}
TodoRows == [nodes : SUBSET Nodes, rules : Nat]
TableRows == [fw : Firewalls, rules : Nat]
Causes == SUBSET {"patched", "met", "lost", "ignored"}

\* What a write leaves of a row is a row.
LEMMA FirewallRowWritten ==
    ASSUME NEW r \in FirewallRows
    PROVE  /\ \A st \in Statuses, ns \in SUBSET Nodes : [r EXCEPT !.status = st, !.nodes = ns] \in FirewallRows
           /\ \A st \in Statuses : [r EXCEPT !.status = st] \in FirewallRows
           /\ \A ns \in SUBSET Nodes : [r EXCEPT !.nodes = ns] \in FirewallRows
           /\ [r EXCEPT !.rules = @ + 1] \in FirewallRows
           /\ [r EXCEPT !.deleted = TRUE] \in FirewallRows
<1>1. r.nodes \in SUBSET Nodes /\ r.status \in Statuses /\ r.rules \in Nat /\ r.deleted \in BOOLEAN
  BY DEF FirewallRows
<1>2. ASSUME NEW st \in Statuses, NEW ns \in SUBSET Nodes
      PROVE  [r EXCEPT !.status = st, !.nodes = ns] \in FirewallRows
  BY DEF FirewallRows
<1>3. ASSUME NEW st \in Statuses PROVE [r EXCEPT !.status = st] \in FirewallRows
  BY DEF FirewallRows
<1>4. ASSUME NEW ns \in SUBSET Nodes PROVE [r EXCEPT !.nodes = ns] \in FirewallRows
  BY DEF FirewallRows
<1>5. [r EXCEPT !.rules = @ + 1] \in FirewallRows
  BY DEF FirewallRows
<1>6. [r EXCEPT !.deleted = TRUE] \in FirewallRows
  BY DEF FirewallRows
<1> QED
  BY <1>2, <1>3, <1>4, <1>5, <1>6

\* Every step keeps the types.
LEMMA FirewallTypeKeeps ==
    ASSUME FirewallsTypeOK, FirewallsNext
    PROVE  FirewallsTypeOK'
<1>1. /\ fw \in [Firewalls -> FirewallRows] /\ asked \in [Firewalls -> [Actions -> Nat]]
      /\ job \in [Firewalls -> [Actions -> JobStates]] /\ todo \in [Firewalls -> TodoRows]
      /\ starts \in [Firewalls -> Nat] /\ commands \subseteq OrderRows
      /\ table \in [Nodes -> SUBSET TableRows] /\ acts \in Nat
      /\ cause \in [Firewalls -> Causes] /\ declined \in [Firewalls -> SUBSET Nodes]
  BY DEF FirewallsTypeOK, FirewallRows, OrderRows, JobStates, TodoRows, TableRows, Causes
<1>2. ASSUME fw' \in [Firewalls -> FirewallRows], asked' \in [Firewalls -> [Actions -> Nat]],
             job' \in [Firewalls -> [Actions -> JobStates]], todo' \in [Firewalls -> TodoRows],
             starts' \in [Firewalls -> Nat], commands' \subseteq OrderRows,
             table' \in [Nodes -> SUBSET TableRows], acts' \in Nat,
             cause' \in [Firewalls -> Causes], declined' \in [Firewalls -> SUBSET Nodes]
      PROVE  FirewallsTypeOK'
  BY <1>2 DEF FirewallsTypeOK, FirewallRows, OrderRows, JobStates, TodoRows, TableRows, Causes
<1>3. ASSUME NEW f \in Firewalls
      PROVE  /\ fw[f] \in FirewallRows
             /\ \A row \in FirewallRows : [fw EXCEPT ![f] = row] \in [Firewalls -> FirewallRows]
             /\ \A st \in JobStates, a \in Actions : [job EXCEPT ![f][a] = st] \in [Firewalls -> [Actions -> JobStates]]
             /\ \A a \in Actions : [asked EXCEPT ![f][a] = @ + 1] \in [Firewalls -> [Actions -> Nat]]
             /\ \A a \in Actions : asked[f][a] > 0 => [asked EXCEPT ![f][a] = @ - 1] \in [Firewalls -> [Actions -> Nat]]
             /\ \A row \in TodoRows : [todo EXCEPT ![f] = row] \in [Firewalls -> TodoRows]
             /\ \A cs \in Causes : [cause EXCEPT ![f] = cs] \in [Firewalls -> Causes]
             /\ \A ns \in SUBSET Nodes : [declined EXCEPT ![f] = ns] \in [Firewalls -> SUBSET Nodes]
             /\ [starts EXCEPT ![f] = @ + 1] \in [Firewalls -> Nat]
  BY <1>1
<1>4. /\ acts + 1 \in Nat /\ "apply" \in Actions /\ "remove" \in Actions /\ Nothing \in TodoRows
      /\ \A f \in Firewalls : [cause EXCEPT ![f] = @ \union {"lost"}] \in [Firewalls -> Causes]
  BY <1>1 DEF Actions, Nothing, TodoRows, Causes
<1>5. ASSUME NEW f \in Firewalls, CreateFirewall(f) PROVE FirewallsTypeOK'
  <2>1. PICK ns \in SUBSET Nodes : fw' = [fw EXCEPT ![f] = [fw[f] EXCEPT !.status = "draft", !.nodes = ns]]
    BY <1>5 DEF CreateFirewall
  <2>2. [fw[f] EXCEPT !.status = "draft", !.nodes = ns] \in FirewallRows
    BY <1>3, FirewallRowWritten DEF Statuses
  <2> QED
    BY <1>1, <1>2, <1>3, <1>4, <1>5, <2>1, <2>2 DEF CreateFirewall, Act
<1>6. ASSUME NEW f \in Firewalls, PatchFirewall(f) PROVE FirewallsTypeOK'
  <2>1. \/ fw' = [fw EXCEPT ![f] = [fw[f] EXCEPT !.rules = @ + 1]]
        \/ \E ns \in SUBSET Nodes : fw' = [fw EXCEPT ![f] = [fw[f] EXCEPT !.nodes = ns]]
    BY <1>6 DEF PatchFirewall
  <2>2. /\ [fw[f] EXCEPT !.rules = @ + 1] \in FirewallRows
        /\ \A ns \in SUBSET Nodes : [fw[f] EXCEPT !.nodes = ns] \in FirewallRows
    BY <1>3, FirewallRowWritten
  <2>3. fw' \in [Firewalls -> FirewallRows]
    <3>1. \E row \in FirewallRows : fw' = [fw EXCEPT ![f] = row]
      BY <2>1, <2>2
    <3> QED
      BY <1>3, <3>1
  <2>4. cause[f] \union {"patched"} \in Causes
    BY <1>1 DEF Causes
  <2> QED
    BY <1>1, <1>2, <1>3, <1>4, <1>6, <2>3, <2>4 DEF PatchFirewall, Act
<1>7. ASSUME NEW f \in Firewalls, DeleteFirewall(f) PROVE FirewallsTypeOK'
  <2>1. fw' = [fw EXCEPT ![f] = [fw[f] EXCEPT !.deleted = TRUE]]
    BY <1>7 DEF DeleteFirewall
  <2>2. fw' \in [Firewalls -> FirewallRows]
    BY <1>3, <2>1, FirewallRowWritten
  <2> QED
    BY <1>1, <1>2, <1>3, <1>4, <1>7, <2>2 DEF DeleteFirewall, Act
<1>8. ASSUME NEW f \in Firewalls, ApplyFirewall(f) PROVE FirewallsTypeOK'
  <2>1. fw' = [fw EXCEPT ![f] = [fw[f] EXCEPT !.status = "applying"]]
    BY <1>8 DEF ApplyFirewall
  <2>2. fw' \in [Firewalls -> FirewallRows]
    BY <1>3, <2>1, FirewallRowWritten DEF Statuses
  <2> QED
    BY <1>1, <1>2, <1>3, <1>4, <1>8, <2>2 DEF ApplyFirewall, Act
<1>9. ASSUME NEW f \in Firewalls, NEW a \in Actions, AddFirewallJob(f, a) PROVE FirewallsTypeOK'
  <2>1. /\ \E st \in JobStates : job' = [job EXCEPT ![f][a] = st]
        /\ \E cs \in Causes : cause' = [cause EXCEPT ![f] = cs]
    <3>1. PICK known : /\ job' = [job EXCEPT ![f][a] = IF known THEN @ ELSE "waiting"]
                       /\ cause' = [cause EXCEPT ![f] = IF a /= "apply" THEN @
                                      ELSE IF known THEN @ \union {"ignored"} ELSE @ \ {"ignored"}]
      BY <1>9 DEF AddFirewallJob
    <3>2. job[f][a] \in JobStates /\ "waiting" \in JobStates
      BY <1>1 DEF JobStates
    <3>3. cause[f] \in Causes /\ cause[f] \union {"ignored"} \in Causes /\ cause[f] \ {"ignored"} \in Causes
      BY <1>1 DEF Causes
    <3> QED
      BY <3>1, <3>2, <3>3
  <2>2. job' \in [Firewalls -> [Actions -> JobStates]] /\ cause' \in [Firewalls -> Causes]
    BY <1>3, <2>1
  <2>3. asked' \in [Firewalls -> [Actions -> Nat]]
    BY <1>3, <1>9 DEF AddFirewallJob
  <2> QED
    BY <1>1, <1>2, <1>9, <2>2, <2>3 DEF AddFirewallJob
<1>10. ASSUME NEW f \in Firewalls, NEW a \in Actions, FirewallRequestDies(f, a) PROVE FirewallsTypeOK'
  BY <1>1, <1>2, <1>3, <1>4, <1>10 DEF FirewallRequestDies, FaultOf, Act
<1>11. ASSUME NEW f \in Firewalls, NEW a \in Actions, StartFirewallJob(f, a) PROVE FirewallsTypeOK'
  <2>1. CASE fw[f].deleted
    <3>1. job' = [job EXCEPT ![f][a] = "ended"] /\ UNCHANGED <<fw, asked, todo, starts, commands, table, acts, cause, declined>>
      BY <1>11, <2>1 DEF StartFirewallJob
    <3> QED
      BY <1>1, <1>2, <1>3, <3>1 DEF JobStates
  <2>2. CASE ~fw[f].deleted
    <3>1. /\ fw' = [fw EXCEPT ![f] = [fw[f] EXCEPT !.status = "applying"]]
          /\ todo' = [todo EXCEPT ![f] = [nodes |-> fw[f].nodes, rules |-> fw[f].rules]]
          /\ starts' = [starts EXCEPT ![f] = @ + 1] /\ declined' = [declined EXCEPT ![f] = {}]
          /\ job' = [job EXCEPT ![f][a] = IF job[f][a] = "waiting" THEN "sending" ELSE "resending"]
          /\ UNCHANGED <<asked, commands, table, acts>>
      BY <1>11, <2>2 DEF StartFirewallJob
    <3>2. fw' \in [Firewalls -> FirewallRows]
      BY <1>3, <3>1, FirewallRowWritten DEF Statuses
    <3>3. [nodes |-> fw[f].nodes, rules |-> fw[f].rules] \in TodoRows
      BY <1>3 DEF FirewallRows, TodoRows
    <3>4. job' \in [Firewalls -> [Actions -> JobStates]]
      BY <1>3, <3>1 DEF JobStates
    <3>5. cause' \in [Firewalls -> Causes]
      <4>1. \E cs \in Causes : cause' = [cause EXCEPT ![f] = cs]
        <5>1. /\ (cause[f] \ {"patched", "lost", "met"}) \union {} \in Causes
              /\ (cause[f] \ {"patched", "lost", "met"}) \union {"met"} \in Causes
          BY <1>1 DEF Causes
        <5> QED
          BY <1>11, <2>2, <5>1 DEF StartFirewallJob
      <4> QED
        BY <1>3, <4>1
    <3> QED
      BY <1>1, <1>2, <1>3, <3>1, <3>2, <3>3, <3>4, <3>5
  <2> QED
    BY <2>1, <2>2
<1>12. ASSUME NEW f \in Firewalls, SendToNode(f) PROVE FirewallsTypeOK'
  <2>1. PICK n \in todo[f].nodes :
          /\ todo' = [todo EXCEPT ![f] = [todo[f] EXCEPT !.nodes = @ \ {n}]]
          /\ commands' = commands \union
               {[fw |-> f, node |-> n, rules |-> todo[f].rules, start |-> starts[f], stage |-> "sent"]}
    BY <1>12 DEF SendToNode
  <2>2. todo[f] \in TodoRows /\ starts[f] \in Nat
    BY <1>1
  <2>3. [fw |-> f, node |-> n, rules |-> todo[f].rules, start |-> starts[f], stage |-> "sent"] \in OrderRows
    BY <2>1, <2>2 DEF OrderRows, TodoRows
  <2>4. [todo[f] EXCEPT !.nodes = @ \ {n}] \in TodoRows
    BY <2>2 DEF TodoRows
  <2> QED
    BY <1>1, <1>2, <1>3, <1>12, <2>1, <2>3, <2>4 DEF SendToNode, history
<1>13. ASSUME NEW f \in Firewalls, EndFirewallJob(f) \/ FirewallWorkerDies(f) PROVE FirewallsTypeOK'
  <2>1. \E st \in JobStates : job' = [job EXCEPT ![f]["apply"] = st]
    BY <1>13 DEF EndFirewallJob, FirewallWorkerDies, JobStates
  <2>2. job' \in [Firewalls -> [Actions -> JobStates]]
    BY <1>3, <1>4, <2>1
  <2>3. todo' \in [Firewalls -> TodoRows]
    BY <1>3, <1>4, <1>13 DEF EndFirewallJob, FirewallWorkerDies
  <2> QED
    BY <1>1, <1>2, <1>4, <1>13, <2>2, <2>3 DEF EndFirewallJob, FirewallWorkerDies, FaultOf, Act, history
<1>14. ASSUME NEW c \in commands, Enforce(c) \/ RefuseFirewall(c) PROVE FirewallsTypeOK'
  <2>1. c \in OrderRows
    BY <1>1
  <2>2. PICK st \in {"ok", "failed"} :
          /\ commands' = (commands \ {c}) \union {[c EXCEPT !.stage = st]}
          /\ table' = table \/ table' = [table EXCEPT ![c.node] = {[fw |-> c.fw, rules |-> c.rules]}]
    BY <1>14 DEF Enforce, RefuseFirewall
  <2>3. /\ [c EXCEPT !.stage = st] \in OrderRows /\ [fw |-> c.fw, rules |-> c.rules] \in TableRows
        /\ c.node \in Nodes /\ c.fw \in Firewalls
    BY <2>1 DEF OrderRows, TableRows
  <2>4. commands' \subseteq OrderRows
    BY <1>1, <2>2, <2>3
  <2>5. table' \in [Nodes -> SUBSET TableRows]
    BY <1>1, <2>2, <2>3
  <2>6. declined' \in [Firewalls -> SUBSET Nodes]
    <3>1. declined[c.fw] \in SUBSET Nodes
      BY <1>1, <2>3
    <3>2. \A ns \in SUBSET Nodes : [declined EXCEPT ![c.fw] = ns] \in [Firewalls -> SUBSET Nodes]
      BY <1>3, <2>3
    <3>3. declined' = declined \/ \E ns \in SUBSET Nodes : declined' = [declined EXCEPT ![c.fw] = ns]
      BY <1>14, <2>3, <3>1 DEF Enforce, RefuseFirewall
    <3> QED
      BY <1>1, <3>2, <3>3
  <2> QED
    BY <1>1, <1>2, <1>14, <2>4, <2>5, <2>6 DEF Enforce, RefuseFirewall
<1>15. ASSUME NEW c \in commands, ReportFirewall(c) PROVE FirewallsTypeOK'
  <2>1. c.fw \in Firewalls
    BY <1>1 DEF OrderRows
  <2>2. PICK st \in {"active", "failed"} : fw' = [fw EXCEPT ![c.fw] = [fw[c.fw] EXCEPT !.status = st]]
    BY <1>15 DEF ReportFirewall
  <2>3. [fw[c.fw] EXCEPT !.status = st] \in FirewallRows
    BY <1>3, <2>1, FirewallRowWritten DEF Statuses
  <2>4. fw' \in [Firewalls -> FirewallRows]
    BY <1>3, <2>1, <2>2, <2>3
  <2> QED
    BY <1>1, <1>2, <1>15, <2>4 DEF ReportFirewall, history
<1>16. ASSUME NEW c \in commands, LoseFirewallCommand(c) PROVE FirewallsTypeOK'
  <2>1. c.fw \in Firewalls
    BY <1>1 DEF OrderRows
  <2> QED
    BY <1>1, <1>2, <1>4, <1>16, <2>1 DEF LoseFirewallCommand, FaultOf, Act
<1> QED
  BY <1>5, <1>6, <1>7, <1>8, <1>9, <1>10, <1>11, <1>12, <1>13, <1>14, <1>15, <1>16 DEF FirewallsNext

\* A firewall is as it was when nothing of it changes and its nodes still enforce it.
LEMMA FirewallUntouched ==
    ASSUME NEW f \in Firewalls, OneFirewallInv(f),
           fw'[f] = fw[f], asked'[f] = asked[f], job'[f] = job[f], todo'[f] = todo[f],
           cause'[f] = cause[f], declined'[f] = declined[f], CommandsOf(f)' = CommandsOf(f),
           \A n : Enforces(f, n) => Enforces(f, n)'
    PROVE  OneFirewallInv(f)'
<1>1. /\ \A n : (ToEnforce(f, n)' <=> ToEnforce(f, n)) /\ (Through(f, n)' <=> Through(f, n))
      /\ Unable(f)' = Unable(f) /\ (Current(f)' <=> Current(f)) /\ (Unmet(f)' <=> Unmet(f))
      /\ Sending(f)' <=> Sending(f)
  BY DEF ToEnforce, Through, Unable, Current, Unmet, Sending
<1>2. FirewallJobsInv(f)'
  BY <1>1 DEF OneFirewallInv, FirewallJobsInv
<1>3. EnforcingInv(f)'
  BY <1>1 DEF OneFirewallInv, EnforcingInv
<1>4. ApplyingInv(f)'
  BY <1>1 DEF OneFirewallInv, ApplyingInv
<1> QED
  BY <1>2, <1>3, <1>4 DEF OneFirewallInv

\* Requests: a patch and a lost request are remembered, and only a living row is applied.
LEMMA FirewallRequestsKeep ==
    ASSUME FirewallInv, NEW g \in Firewalls,
           \/ CreateFirewall(g) \/ PatchFirewall(g) \/ DeleteFirewall(g) \/ ApplyFirewall(g)
           \/ \E a \in Actions : FirewallRequestDies(g, a)
    PROVE  \A f \in Firewalls : OneFirewallInv(f)'
<1>1. UNCHANGED <<job, todo, starts, commands, table, declined>>
  BY DEF CreateFirewall, PatchFirewall, DeleteFirewall, ApplyFirewall, FirewallRequestDies
<1>2. \A f : /\ CommandsOf(f)' = CommandsOf(f) /\ Unable(f)' = Unable(f) /\ (Sending(f)' <=> Sending(f))
             /\ \A n : (ToEnforce(f, n)' <=> ToEnforce(f, n)) /\ (Through(f, n)' <=> Through(f, n))
  BY <1>1 DEF CommandsOf, Unable, Sending, ToEnforce, Through
<1>3. ASSUME NEW f \in Firewalls, f /= g PROVE OneFirewallInv(f)'
  <2>1. fw'[f] = fw[f] /\ asked'[f] = asked[f] /\ cause'[f] = cause[f]
    BY <1>3 DEF FirewallInv, FirewallsTypeOK, CreateFirewall, PatchFirewall, DeleteFirewall, ApplyFirewall,
       FirewallRequestDies, FaultOf
  <2>2. \A n : Enforces(f, n) => Enforces(f, n)'
    BY <1>1, <2>1 DEF Enforces
  <2> QED
    BY <1>1, <1>2, <2>1, <2>2, FirewallUntouched DEF FirewallInv
<1>4. /\ FirewallJobsInv(g) /\ EnforcingInv(g) /\ ApplyingInv(g) /\ FirewallsTypeOK
      /\ asked[g] \in [Actions -> Nat] /\ Actions = {"apply", "remove"}
  BY DEF FirewallInv, OneFirewallInv, FirewallsTypeOK, Actions
<1>5. ASSUME FirewallJobsInv(g)', ~Current(g)' PROVE OneFirewallInv(g)'
  BY <1>5 DEF OneFirewallInv, EnforcingInv, ApplyingInv, Unmet
<1>6. CASE CreateFirewall(g)
  <2>1. /\ fw'[g].status = "draft" /\ fw'[g].deleted = fw[g].deleted /\ fw[g].status = "none"
        /\ UNCHANGED <<asked, cause>>
    <3>1. PICK ns : fw' = [fw EXCEPT ![g].status = "draft", ![g].nodes = ns]
      BY <1>6 DEF CreateFirewall
    <3>2. fw'[g].status = "draft" /\ fw'[g].deleted = fw[g].deleted
      BY <1>4, <3>1 DEF FirewallsTypeOK
    <3> QED
      BY <1>6, <3>2 DEF CreateFirewall
  <2>2. job[g]["apply"] = "unknown"
    BY <1>4, <2>1 DEF FirewallJobsInv
  <2>3. FirewallJobsInv(g)' /\ ~Current(g)'
    BY <1>1, <1>2, <1>4, <2>1, <2>2 DEF FirewallJobsInv, Current
  <2> QED
    BY <1>3, <1>5, <2>3
<1>7. CASE PatchFirewall(g)
  <2>1. /\ fw'[g].status = fw[g].status /\ fw'[g].deleted = fw[g].deleted
        /\ cause'[g] = cause[g] \union {"patched"} /\ UNCHANGED asked
    BY <1>4, <1>7 DEF PatchFirewall, FirewallsTypeOK
  <2>2. FirewallJobsInv(g)' /\ ~Current(g)'
    BY <1>1, <1>2, <1>4, <2>1 DEF FirewallJobsInv, Current
  <2> QED
    BY <1>3, <1>5, <2>2
<1>8. CASE DeleteFirewall(g)
  <2>1. /\ fw'[g].status = fw[g].status /\ fw'[g].deleted /\ asked'[g]["apply"] = asked[g]["apply"]
        /\ UNCHANGED cause
    BY <1>4, <1>8 DEF DeleteFirewall, FirewallsTypeOK
  <2>2. FirewallJobsInv(g)' /\ ~Current(g)'
    BY <1>1, <1>2, <1>4, <2>1 DEF FirewallJobsInv, Current
  <2> QED
    BY <1>3, <1>5, <2>2
<1>9. CASE ApplyFirewall(g)
  <2>1. /\ fw'[g].status = "applying" /\ fw'[g].deleted = fw[g].deleted /\ ~fw[g].deleted
        /\ fw'[g].nodes = fw[g].nodes /\ fw'[g].rules = fw[g].rules
        /\ asked'[g]["apply"] > 0 /\ asked'[g]["remove"] = asked[g]["remove"] /\ UNCHANGED cause
    BY <1>4, <1>9 DEF ApplyFirewall, FirewallsTypeOK, Living
  <2>2. \A n : Enforces(g, n) => Enforces(g, n)'
    BY <1>1, <2>1 DEF Enforces
  <2>3. (Current(g)' <=> Current(g)) /\ (Unmet(g)' <=> Unmet(g))
    BY <1>1, <2>1 DEF Current, Unmet
  <2>4. FirewallJobsInv(g)'
    BY <1>1, <1>2, <1>4, <2>1 DEF FirewallJobsInv
  <2>5. EnforcingInv(g)'
    BY <1>1, <1>2, <1>4, <2>1, <2>2, <2>3 DEF EnforcingInv
  <2>6. ApplyingInv(g)'
    BY <2>1 DEF ApplyingInv
  <2> QED
    BY <1>3, <2>4, <2>5, <2>6 DEF OneFirewallInv
<1>10. ASSUME NEW a \in Actions, FirewallRequestDies(g, a) PROVE OneFirewallInv(g)'
  <2>1. /\ UNCHANGED fw /\ cause'[g] = cause[g] \union {"lost"}
        /\ asked'[g]["apply"] > 0 => asked[g]["apply"] > 0
        /\ asked'[g]["remove"] > 0 => asked[g]["remove"] > 0
    BY <1>4, <1>10 DEF FirewallRequestDies, FaultOf, FirewallsTypeOK
  <2>2. FirewallJobsInv(g)' /\ ~Current(g)'
    BY <1>1, <1>2, <1>4, <2>1 DEF FirewallJobsInv, Current
  <2> QED
    BY <1>5, <2>2
<1> QED
  BY <1>3, <1>6, <1>7, <1>8, <1>9, <1>10

\* Jobs: an apply job reads its row when it starts, and what breaks off is remembered.
LEMMA FirewallJobsKeep ==
    ASSUME FirewallInv, NEW g \in Firewalls,
           \/ \E a \in Actions : AddFirewallJob(g, a) \/ StartFirewallJob(g, a)
           \/ SendToNode(g) \/ EndFirewallJob(g) \/ FirewallWorkerDies(g)
    PROVE  \A f \in Firewalls : OneFirewallInv(f)'
<1>1. UNCHANGED table
  BY DEF AddFirewallJob, StartFirewallJob, SendToNode, EndFirewallJob, FirewallWorkerDies, history
<1>2. ASSUME NEW f \in Firewalls, f /= g PROVE OneFirewallInv(f)'
  <2>1. /\ fw'[f] = fw[f] /\ asked'[f] = asked[f] /\ job'[f] = job[f] /\ todo'[f] = todo[f]
        /\ cause'[f] = cause[f] /\ declined'[f] = declined[f]
    <3>1. CASE \E a \in Actions : AddFirewallJob(g, a)
      BY <1>2, <3>1 DEF FirewallInv, FirewallsTypeOK, AddFirewallJob
    <3>2. CASE \E a \in Actions : StartFirewallJob(g, a)
      BY <1>2, <3>2 DEF FirewallInv, FirewallsTypeOK, StartFirewallJob
    <3>3. CASE SendToNode(g) \/ EndFirewallJob(g) \/ FirewallWorkerDies(g)
      BY <1>2, <3>3 DEF FirewallInv, FirewallsTypeOK, SendToNode, EndFirewallJob, FirewallWorkerDies, FaultOf, history
    <3> QED
      BY <3>1, <3>2, <3>3
  <2>2. CommandsOf(f)' = CommandsOf(f)
    BY <1>2 DEF CommandsOf, AddFirewallJob, StartFirewallJob, SendToNode, EndFirewallJob, FirewallWorkerDies
  <2>3. \A n : Enforces(f, n) => Enforces(f, n)'
    BY <1>1, <2>1 DEF Enforces
  <2> QED
    BY <2>1, <2>2, <2>3, FirewallUntouched DEF FirewallInv
<1>3. /\ FirewallJobsInv(g) /\ EnforcingInv(g) /\ ApplyingInv(g) /\ FirewallsTypeOK
      /\ asked[g] \in [Actions -> Nat] /\ Actions = {"apply", "remove"} /\ job[g] \in [Actions -> JobStates]
  BY DEF FirewallInv, OneFirewallInv, FirewallsTypeOK, Actions, JobStates
<1>4. ASSUME FirewallJobsInv(g)', ~Current(g)' PROVE OneFirewallInv(g)'
  BY <1>4 DEF OneFirewallInv, EnforcingInv, ApplyingInv, Unmet
<1>5. ASSUME commands' = commands, todo' = todo, declined' = declined
      PROVE  /\ CommandsOf(g)' = CommandsOf(g) /\ Unable(g)' = Unable(g)
             /\ \A n : (ToEnforce(g, n)' <=> ToEnforce(g, n)) /\ (Through(g, n)' <=> Through(g, n))
  BY <1>5 DEF CommandsOf, Unable, ToEnforce, Through
<1>6. ASSUME NEW a \in Actions, AddFirewallJob(g, a) PROVE OneFirewallInv(g)'
  <2>1. /\ UNCHANGED <<fw, todo, commands, declined>>
        /\ asked[g][a] > 0 /\ asked'[g] = [asked[g] EXCEPT ![a] = @ - 1]
    BY <1>3, <1>6 DEF AddFirewallJob, FirewallsTypeOK
  <2>2. PICK known \in {job[g][a] /= "unknown"} \union {job[g][a] \notin {"unknown", "ended"}} :
          /\ job' = [job EXCEPT ![g][a] = IF known THEN @ ELSE "waiting"]
          /\ cause' = [cause EXCEPT ![g] = IF a /= "apply" THEN @
                         ELSE IF known THEN @ \union {"ignored"} ELSE @ \ {"ignored"}]
    BY <1>6 DEF AddFirewallJob
  <2>3. /\ asked'[g]["apply"] > 0 => asked[g]["apply"] > 0
        /\ asked'[g]["remove"] > 0 => asked[g]["remove"] > 0
    BY <1>3, <2>1
  <2>4. \A n : Enforces(g, n) => Enforces(g, n)'
    BY <1>1, <2>1 DEF Enforces
  <2>5. CASE a = "apply" /\ known
    <3>1. job[g]["apply"] /= "unknown" /\ job'[g] = job[g] /\ cause'[g] = cause[g] \union {"ignored"}
      BY <1>3, <2>2, <2>5 DEF FirewallsTypeOK
    <3>2. (Current(g)' <=> Current(g)) /\ (Unmet(g)' <=> Unmet(g)) /\ (Sending(g)' <=> Sending(g))
      BY <2>1, <3>1 DEF Current, Unmet, Sending
    <3>3. FirewallJobsInv(g)'
      BY <1>3, <1>5, <2>1, <2>3, <3>1, <3>2 DEF FirewallJobsInv
    <3>4. EnforcingInv(g)'
      BY <1>3, <1>5, <2>1, <2>4, <3>1, <3>2 DEF EnforcingInv
    <3>5. ApplyingInv(g)'
      BY <3>1 DEF ApplyingInv
    <3> QED
      BY <3>3, <3>4, <3>5 DEF OneFirewallInv
  <2>6. CASE a = "apply" /\ ~known
    <3>1. job[g]["apply"] \in {"unknown", "ended"}
      BY <2>2, <2>6
    <3>2. /\ job'[g]["apply"] = "waiting" /\ job'[g]["remove"] = job[g]["remove"]
      BY <1>3, <2>2, <2>6 DEF FirewallsTypeOK
    <3>3. FirewallJobsInv(g)' /\ ~Current(g)'
      BY <1>3, <1>5, <2>1, <2>3, <2>6, <3>1, <3>2 DEF FirewallJobsInv, Current, Sending
    <3> QED
      BY <1>4, <3>3
  <2>7. CASE a = "remove"
    <3>1. /\ job'[g]["apply"] = job[g]["apply"] /\ job'[g]["remove"] \in {job[g]["remove"], "waiting"}
          /\ cause'[g] = cause[g]
      BY <1>3, <2>2, <2>7 DEF FirewallsTypeOK
    <3>2. asked'[g]["apply"] = asked[g]["apply"]
      BY <1>3, <2>1, <2>7
    <3>3. (Current(g)' <=> Current(g)) /\ (Unmet(g)' <=> Unmet(g)) /\ (Sending(g)' <=> Sending(g))
      BY <2>1, <3>1 DEF Current, Unmet, Sending
    <3>4. FirewallJobsInv(g)'
      BY <1>3, <1>5, <2>1, <2>3, <2>7, <3>1, <3>2, <3>3 DEF FirewallJobsInv
    <3>5. EnforcingInv(g)' /\ ApplyingInv(g)'
      BY <1>3, <1>5, <2>1, <2>4, <3>1, <3>2, <3>3 DEF EnforcingInv, ApplyingInv
    <3> QED
      BY <3>4, <3>5 DEF OneFirewallInv
  <2> QED
    BY <1>3, <2>5, <2>6, <2>7
<1>7. ASSUME NEW a \in Actions, StartFirewallJob(g, a), fw[g].deleted PROVE OneFirewallInv(g)'
  <2>1. /\ UNCHANGED <<fw, asked, todo, commands, cause, declined>> /\ job[g][a] \in {"waiting", "stalled"}
        /\ job'[g] = [job[g] EXCEPT ![a] = "ended"]
    BY <1>3, <1>7 DEF StartFirewallJob, FirewallsTypeOK
  <2>2. ~Current(g)'
    BY <1>7, <2>1 DEF Current
  <2>3. FirewallJobsInv(g)'
    BY <1>3, <1>5, <1>7, <2>1 DEF FirewallJobsInv, Sending
  <2> QED
    BY <1>4, <2>2, <2>3
<1>8. ASSUME NEW a \in Actions, StartFirewallJob(g, a), ~fw[g].deleted PROVE OneFirewallInv(g)'
  <2>1. /\ a = "apply" /\ job[g]["remove"] = "unknown" /\ ~(asked[g]["remove"] > 0)
        /\ job[g]["apply"] \in {"waiting", "stalled"}
    BY <1>3, <1>8 DEF FirewallJobsInv, StartFirewallJob
  <2>2. /\ UNCHANGED <<asked, commands>>
        /\ job'[g]["apply"] \in {"sending", "resending"} /\ job'[g]["remove"] = "unknown"
        /\ todo'[g].nodes = fw[g].nodes /\ todo'[g].rules = fw[g].rules
        /\ fw'[g].status = "applying" /\ fw'[g].nodes = fw[g].nodes /\ fw'[g].rules = fw[g].rules
        /\ CommandsOf(g) /= {} => "met" \in cause'[g]
    <3>1. /\ job' = [job EXCEPT ![g]["apply"] = IF @ = "waiting" THEN "sending" ELSE "resending"]
          /\ fw' = [fw EXCEPT ![g].status = "applying"] /\ UNCHANGED <<asked, commands>>
          /\ todo' = [todo EXCEPT ![g] = [nodes |-> fw[g].nodes, rules |-> fw[g].rules]]
          /\ cause' = [cause EXCEPT ![g] = (@ \ {"patched", "lost", "met"})
                                           \union IF CommandsOf(g) = {} THEN {} ELSE {"met"}]
      BY <1>8, <2>1 DEF StartFirewallJob
    <3>2. job'[g]["apply"] \in {"sending", "resending"} /\ job'[g]["remove"] = job[g]["remove"]
      BY <1>3, <3>1 DEF FirewallsTypeOK
    <3>3. todo'[g].nodes = fw[g].nodes /\ todo'[g].rules = fw[g].rules
      BY <1>3, <3>1 DEF FirewallsTypeOK
    <3>4. fw'[g].status = "applying" /\ fw'[g].nodes = fw[g].nodes /\ fw'[g].rules = fw[g].rules
      BY <1>3, <3>1 DEF FirewallsTypeOK
    <3>5. CommandsOf(g) /= {} => "met" \in cause'[g]
      BY <1>3, <3>1 DEF FirewallsTypeOK
    <3> QED
      BY <2>1, <3>1, <3>2, <3>3, <3>4, <3>5
  <2>3. CommandsOf(g)' = CommandsOf(g)
    BY <2>2 DEF CommandsOf
  <2>4. FirewallJobsInv(g)'
    BY <1>3, <2>1, <2>2 DEF FirewallJobsInv, Sending
  <2>5. EnforcingInv(g)'
    BY <2>2, <2>3 DEF EnforcingInv, Unmet
  <2>6. ApplyingInv(g)'
    BY <2>2 DEF ApplyingInv
  <2> QED
    BY <2>4, <2>5, <2>6 DEF OneFirewallInv
<1>9. ASSUME SendToNode(g) PROVE OneFirewallInv(g)'
  <2>1. PICK n \in todo[g].nodes :
          /\ todo' = [todo EXCEPT ![g].nodes = @ \ {n}]
          /\ commands' = commands \union
               {[fw |-> g, node |-> n, rules |-> todo[g].rules, start |-> starts[g], stage |-> "sent"]}
    BY <1>9 DEF SendToNode
  <2> DEFINE sending == [fw |-> g, node |-> n, rules |-> todo[g].rules, start |-> starts[g], stage |-> "sent"]
  <2>2. UNCHANGED <<fw, asked, job, cause, declined>> /\ Sending(g) /\ Sending(g)' /\ Unable(g)' = Unable(g)
    BY <1>9 DEF SendToNode, history, Sending, Unable
  <2>3. todo'[g].nodes = todo[g].nodes \ {n} /\ todo'[g].rules = todo[g].rules
    BY <1>3, <2>1 DEF FirewallsTypeOK
  <2>4. CommandsOf(g)' = CommandsOf(g) \union {sending}
    BY <2>1 DEF CommandsOf
  <2>5. sending.node = n /\ sending.rules = todo[g].rules /\ sending.stage = "sent"
    OBVIOUS
  <2> HIDE DEF sending
  <2>6. \A m : (ToEnforce(g, m)' <=> ToEnforce(g, m) \/ m = n) /\ (Through(g, m) => Through(g, m)')
    <3>1. \A m : ToEnforce(g, m)' <=> ToEnforce(g, m) \/ m = n
      BY <2>4, <2>5 DEF ToEnforce
    <3> QED
      BY <2>1, <2>3, <3>1 DEF Through
  <2>7. \A m : Enforces(g, m) => Enforces(g, m)'
    BY <1>1, <2>2 DEF Enforces
  <2>8. (Current(g)' <=> Current(g)) /\ (Unmet(g)' <=> Unmet(g))
    BY <2>2 DEF Current, Unmet
  <2>9. FirewallJobsInv(g)'
    BY <1>3, <2>2 DEF FirewallJobsInv, Sending
  <2>10. EnforcingInv(g)'
    <3> SUFFICES ASSUME Unmet(g)' PROVE EnforcingInv(g)'
      BY DEF EnforcingInv
    <3>1. \A c \in CommandsOf(g)' :
            /\ c.rules = fw[g].rules /\ c.node \in fw[g].nodes \ (todo[g].nodes \ {n})
            /\ c.stage = "ok" => c.node \notin Unable(g)
            /\ c.stage = "failed" => c.node \in Unable(g)
            /\ \A d \in CommandsOf(g)' : d.node = c.node => d = c
      BY <1>3, <2>1, <2>4, <2>5, <2>8 DEF EnforcingInv
    <3>2. \A m \in fw[g].nodes \ Unable(g) : m \in todo'[g].nodes \/ ToEnforce(g, m)' \/ Enforces(g, m)'
      BY <1>3, <2>3, <2>6, <2>7, <2>8 DEF EnforcingInv
    <3> QED
      BY <1>3, <2>2, <2>3, <2>6, <2>8, <3>1, <3>2 DEF EnforcingInv
  <2>11. ApplyingInv(g)'
    BY <2>4 DEF ApplyingInv
  <2> QED
    BY <2>9, <2>10, <2>11 DEF OneFirewallInv
<1>10. ASSUME EndFirewallJob(g) PROVE OneFirewallInv(g)'
  <2>1. /\ UNCHANGED <<fw, asked, commands, cause, declined>> /\ Sending(g) /\ todo[g].nodes = {}
        /\ job'[g] = [job[g] EXCEPT !["apply"] = "ended"] /\ todo'[g] = Nothing
    BY <1>3, <1>10 DEF EndFirewallJob, history, FirewallsTypeOK
  <2>2. /\ job'[g]["apply"] = "ended" /\ job'[g]["remove"] = job[g]["remove"] /\ todo'[g].nodes = {}
    BY <1>3, <2>1 DEF Nothing
  <2>3. \A n : Enforces(g, n) => Enforces(g, n)'
    BY <1>1, <2>1 DEF Enforces
  <2>4. /\ CommandsOf(g)' = CommandsOf(g) /\ Unable(g)' = Unable(g)
        /\ \A n : (ToEnforce(g, n)' <=> ToEnforce(g, n)) /\ (Through(g, n)' <=> Through(g, n))
    BY <2>1, <2>2 DEF CommandsOf, Unable, ToEnforce, Through
  <2>5. (Current(g)' <=> Current(g)) /\ (Unmet(g)' <=> Unmet(g))
    BY <2>1, <2>2 DEF Current, Unmet, Sending
  <2>6. FirewallJobsInv(g)'
    BY <1>3, <2>1, <2>2, <2>4 DEF FirewallJobsInv, Sending
  <2>7. EnforcingInv(g)'
    BY <1>3, <2>1, <2>2, <2>3, <2>4, <2>5 DEF EnforcingInv
  <2>8. ApplyingInv(g)'
    BY <1>3, <2>1, <2>2, <2>4, <2>5 DEF ApplyingInv
  <2> QED
    BY <2>6, <2>7, <2>8 DEF OneFirewallInv
<1>11. ASSUME FirewallWorkerDies(g) PROVE OneFirewallInv(g)'
  <2>1. /\ UNCHANGED <<fw, asked, commands>> /\ Sending(g)
        /\ job'[g]["apply"] \in {"stalled", "failed"} /\ job'[g]["remove"] = job[g]["remove"]
        /\ cause'[g] = cause[g] \union {"lost"} /\ todo'[g].nodes = {}
    <3>1. PICK to \in {"failed", "stalled"} : job' = [job EXCEPT ![g]["apply"] = to]
      BY <1>11 DEF FirewallWorkerDies
    <3>2. job'[g]["apply"] \in {"stalled", "failed"} /\ job'[g]["remove"] = job[g]["remove"]
      BY <1>3, <3>1 DEF FirewallsTypeOK
    <3>3. todo'[g] = Nothing /\ cause'[g] = cause[g] \union {"lost"}
      BY <1>3, <1>11 DEF FirewallWorkerDies, FaultOf, FirewallsTypeOK
    <3> QED
      BY <1>11, <3>2, <3>3 DEF FirewallWorkerDies, Nothing
  <2>2. FirewallJobsInv(g)' /\ ~Current(g)'
    BY <1>3, <2>1 DEF FirewallJobsInv, Current, Sending
  <2> QED
    BY <1>4, <2>2
<1> QED
  BY <1>2, <1>6, <1>7, <1>8, <1>9, <1>10, <1>11

\* A node that is through with its one command is told apart from the others: it enforces
\* what was sent, or is unable.
LEMMA CommandDone ==
    ASSUME FirewallInv, NEW c \in commands, NEW d, c.stage = "sent",
           d.fw = c.fw, d.node = c.node, d.rules = c.rules, d.stage \in {"ok", "failed"},
           commands' = (commands \ {c}) \union {d},
           UNCHANGED <<fw, asked, job, todo, cause>>,
           d.stage = "ok" => c.node \notin Unable(c.fw)' /\ (Unmet(c.fw) => Enforces(c.fw, c.node)'),
           d.stage = "failed" => c.node \in Unable(c.fw)',
           \A n : n /= c.node => (n \in Unable(c.fw)' <=> n \in Unable(c.fw)),
           \A n : n /= c.node => (Enforces(c.fw, n) => Enforces(c.fw, n)')
    PROVE  OneFirewallInv(c.fw)'
<1> DEFINE g == c.fw
<1>1. g \in Firewalls /\ c \in CommandsOf(g)
  BY DEF FirewallInv, FirewallsTypeOK, CommandsOf
<1>2. FirewallJobsInv(g) /\ EnforcingInv(g) /\ ApplyingInv(g)
  BY <1>1 DEF FirewallInv, OneFirewallInv
<1>3. CommandsOf(g)' = (CommandsOf(g) \ {c}) \union {d}
  BY DEF CommandsOf
<1>4. (Current(g)' <=> Current(g)) /\ (Unmet(g)' <=> Unmet(g)) /\ (Sending(g)' <=> Sending(g))
  BY DEF Current, Unmet, Sending
<1> HIDE DEF g
<1>5. FirewallJobsInv(g)'
  BY <1>1, <1>2, <1>4 DEF FirewallJobsInv
<1>6. ApplyingInv(g)'
  BY <1>1, <1>2, <1>3, <1>4 DEF ApplyingInv
<1>7. ASSUME Unmet(g)' PROVE EnforcingInv(g)'
  <2>1. \A e \in CommandsOf(g) : e.node = c.node => e = c
    BY <1>1, <1>2, <1>4, <1>7 DEF EnforcingInv
  <2>2. \A n : n /= c.node => (ToEnforce(g, n)' <=> ToEnforce(g, n))
    BY <1>3 DEF ToEnforce
  <2>3. ToEnforce(g, c.node) /\ ~ToEnforce(g, c.node)'
    BY <1>1, <1>3, <2>1 DEF ToEnforce
  <2>4. \A n : Through(g, n) => n /= c.node /\ Through(g, n)'
    BY <2>2, <2>3 DEF Through
  <2>5. \A e \in CommandsOf(g)' :
          /\ e.rules = fw[g].rules /\ e.node \in fw[g].nodes \ todo[g].nodes
          /\ e.stage = "ok" => e.node \notin Unable(g)'
          /\ e.stage = "failed" => e.node \in Unable(g)'
          /\ \A o \in CommandsOf(g)' : o.node = e.node => o = e
    <3>1. \A e \in CommandsOf(g) \ {c} : e.node /= c.node
      BY <2>1
    <3> QED
      BY <1>1, <1>2, <1>3, <1>4, <1>7, <3>1 DEF EnforcingInv, g
  <2>6. \A n \in fw[g].nodes \ Unable(g)' : n \in todo[g].nodes \/ ToEnforce(g, n)' \/ Enforces(g, n)'
    <3> SUFFICES ASSUME NEW n \in fw[g].nodes, n \notin Unable(g)'
                 PROVE  n \in todo[g].nodes \/ ToEnforce(g, n)' \/ Enforces(g, n)'
      OBVIOUS
    <3>1. CASE n = c.node
      BY <1>4, <1>7, <3>1 DEF g
    <3>2. CASE n /= c.node
      BY <1>2, <1>4, <1>7, <2>2, <3>2 DEF EnforcingInv, g
    <3> QED
      BY <3>1, <3>2
  <2>7. fw[g].status = "active" => \E n \in fw[g].nodes \ Unable(g)' : Through(g, n)'
    BY <1>2, <1>4, <1>7, <2>4 DEF EnforcingInv, g
  <2>8. fw[g].status = "failed" => \E n \in fw[g].nodes \intersect Unable(g)' : Through(g, n)'
    BY <1>2, <1>4, <1>7, <2>4 DEF EnforcingInv, g
  <2>9. todo[g].nodes \subseteq fw[g].nodes /\ (todo[g].nodes /= {} => todo[g].rules = fw[g].rules)
    BY <1>2, <1>4, <1>7 DEF EnforcingInv
  <2> QED
    BY <2>5, <2>6, <2>7, <2>8, <2>9 DEF EnforcingInv
<1>8. EnforcingInv(g)'
  BY <1>7 DEF EnforcingInv
<1> QED
  BY <1>5, <1>6, <1>8 DEF OneFirewallInv, g

\* Nodes: one that enforces another firewall has done what was asked, and a report says what
\* became of one node.
LEMMA FirewallReportsKeep ==
    ASSUME FirewallInv, NEW c \in commands,
           Enforce(c) \/ RefuseFirewall(c) \/ ReportFirewall(c) \/ LoseFirewallCommand(c)
    PROVE  \A f \in Firewalls : OneFirewallInv(f)'
<1>1. UNCHANGED <<asked, job, todo>>
  BY DEF Enforce, RefuseFirewall, ReportFirewall, LoseFirewallCommand, history
<1>2. /\ c \in OrderRows /\ c.fw \in Firewalls /\ c.node \in Nodes /\ FirewallsTypeOK /\ c \in CommandsOf(c.fw)
      /\ OneFirewallInv(c.fw) /\ FirewallJobsInv(c.fw) /\ EnforcingInv(c.fw)
  BY DEF FirewallInv, OneFirewallInv, FirewallsTypeOK, OrderRows, CommandsOf
<1>3. CASE Enforce(c) \/ RefuseFirewall(c)
  <2>1. PICK d \in OrderRows :
          /\ d.fw = c.fw /\ d.node = c.node /\ d.rules = c.rules /\ d.stage \in {"ok", "failed"}
          /\ commands' = (commands \ {c}) \union {d}
          /\ \/ /\ Enforce(c) /\ c.node \notin Broken /\ d.stage = "ok"
             \/ /\ Enforce(c) /\ c.node \in Broken /\ d.stage = "failed"
             \/ /\ RefuseFirewall(c) /\ d.stage = "failed"
    <3>1. \A st \in {"ok", "failed"} :
            /\ [c EXCEPT !.stage = st] \in OrderRows /\ [c EXCEPT !.stage = st].fw = c.fw
            /\ [c EXCEPT !.stage = st].node = c.node /\ [c EXCEPT !.stage = st].rules = c.rules
            /\ [c EXCEPT !.stage = st].stage = st
      BY <1>2 DEF OrderRows
    <3>2. \E st \in {"ok", "failed"} :
            /\ commands' = (commands \ {c}) \union {[c EXCEPT !.stage = st]}
            /\ \/ Enforce(c) /\ c.node \notin Broken /\ st = "ok"
               \/ Enforce(c) /\ c.node \in Broken /\ st = "failed"
               \/ RefuseFirewall(c) /\ st = "failed"
      BY <1>3 DEF Enforce, RefuseFirewall
    <3> QED
      BY <3>1, <3>2
  <2>2. c.stage = "sent" /\ UNCHANGED <<fw, cause>>
    BY <1>3 DEF Enforce, RefuseFirewall
  <2>3. \A f, n : f /= c.fw \/ n /= c.node => (Enforces(f, n) => Enforces(f, n)')
    <3>1. CASE UNCHANGED table
      BY <2>2, <3>1 DEF Enforces
    <3>2. CASE table' = [table EXCEPT ![c.node] = {[fw |-> c.fw, rules |-> c.rules]}]
      <4>1. table'[c.node] = {[fw |-> c.fw, rules |-> c.rules]} /\ \A n : n /= c.node => table'[n] = table[n]
        BY <1>2, <3>2 DEF FirewallsTypeOK
      <4>2. \E t \in table'[c.node] : t.fw = c.fw
        BY <4>1
      <4> QED
        BY <2>2, <4>1, <4>2 DEF Enforces
    <3> QED
      BY <1>3, <3>1, <3>2 DEF Enforce, RefuseFirewall
  <2>4. ASSUME NEW f \in Firewalls, f /= c.fw PROVE OneFirewallInv(f)'
    <3>1. declined'[f] = declined[f]
      BY <1>2, <1>3, <2>4 DEF Enforce, RefuseFirewall, FirewallsTypeOK
    <3>2. CommandsOf(f)' = CommandsOf(f)
      BY <2>1, <2>4 DEF CommandsOf
    <3> QED
      BY <1>1, <2>2, <2>3, <2>4, <3>1, <3>2, FirewallUntouched DEF FirewallInv
  <2>5. /\ \A n : n /= c.node => (n \in Unable(c.fw)' <=> n \in Unable(c.fw))
        /\ d.stage = "ok" => c.node \notin Unable(c.fw)'
        /\ d.stage = "failed" => c.node \in Unable(c.fw)'
    <3>1. CASE Enforce(c) /\ c.node \notin Broken /\ d.stage = "ok"
      <4>1. declined'[c.fw] = declined[c.fw] \ {c.node}
        BY <1>2, <3>1 DEF Enforce, FirewallsTypeOK
      <4> QED
        BY <3>1, <4>1 DEF Unable
    <3>2. CASE Enforce(c) /\ c.node \in Broken /\ d.stage = "failed"
      BY <3>2 DEF Enforce, Unable
    <3>3. CASE RefuseFirewall(c) /\ d.stage = "failed"
      <4>1. declined'[c.fw] = declined[c.fw] \union {c.node}
        BY <1>2, <3>3 DEF RefuseFirewall, FirewallsTypeOK
      <4> QED
        BY <3>3, <4>1 DEF Unable
    <3> QED
      BY <2>1, <3>1, <3>2, <3>3
  <2>6. d.stage = "ok" /\ Unmet(c.fw) => Enforces(c.fw, c.node)'
    <3> SUFFICES ASSUME d.stage = "ok", Unmet(c.fw) PROVE Enforces(c.fw, c.node)'
      OBVIOUS
    <3>1. c.rules = fw[c.fw].rules
      BY <1>2 DEF EnforcingInv
    <3>2. Enforce(c) /\ c.node \notin Broken
      BY <2>1
    <3>3. table' = [table EXCEPT ![c.node] = {[fw |-> c.fw, rules |-> c.rules]}]
      BY <3>2 DEF Enforce
    <3>4. table'[c.node] = {[fw |-> c.fw, rules |-> c.rules]}
      BY <1>2, <3>3 DEF FirewallsTypeOK
    <3>5. \E t \in table'[c.node] : t.rules = c.rules
      BY <3>4
    <3> QED
      BY <2>2, <3>1, <3>5 DEF Enforces
  <2>7. OneFirewallInv(c.fw)'
    BY <1>1, <2>1, <2>2, <2>3, <2>5, <2>6, CommandDone
  <2> QED
    BY <2>4, <2>7
<1>4. ASSUME commands' = commands \ {c}, UNCHANGED <<table, declined>>,
             \A f \in Firewalls : f /= c.fw => fw'[f] = fw[f] /\ cause'[f] = cause[f]
      PROVE  \A f \in Firewalls : f /= c.fw => OneFirewallInv(f)'
  <2> SUFFICES ASSUME NEW f \in Firewalls, f /= c.fw PROVE OneFirewallInv(f)'
    OBVIOUS
  <2>1. CommandsOf(f)' = CommandsOf(f)
    BY <1>4 DEF CommandsOf
  <2>2. \A n : Enforces(f, n) => Enforces(f, n)'
    BY <1>4 DEF Enforces
  <2> QED
    BY <1>1, <1>4, <2>1, <2>2, FirewallUntouched DEF FirewallInv
<1>5. CASE ReportFirewall(c)
  <2> DEFINE g == c.fw
  <2>1. PICK st \in {"active", "failed"} : fw' = [fw EXCEPT ![g].status = st] /\ (st = "active" <=> c.stage = "ok")
    BY <1>5 DEF ReportFirewall
  <2>2. commands' = commands \ {c} /\ c.stage /= "sent" /\ UNCHANGED <<table, cause, declined>>
    BY <1>5 DEF ReportFirewall, history
  <2>3. \A f \in Firewalls : f /= g => OneFirewallInv(f)'
    BY <1>2, <1>4, <2>1, <2>2 DEF FirewallsTypeOK
  <2>4. /\ fw'[g].status = st /\ fw'[g].nodes = fw[g].nodes /\ fw'[g].rules = fw[g].rules
        /\ fw'[g].deleted = fw[g].deleted
    BY <1>2, <2>1 DEF FirewallsTypeOK
  <2>5. CommandsOf(g)' = CommandsOf(g) \ {c} /\ Unable(g)' = Unable(g)
    BY <2>2 DEF CommandsOf, Unable
  <2>6. (Current(g)' <=> Current(g)) /\ (Unmet(g)' <=> Unmet(g)) /\ (Sending(g)' <=> Sending(g))
    BY <1>1, <2>2, <2>4 DEF Current, Unmet, Sending
  <2>7. (st = "active" => c.stage = "ok") /\ (st = "failed" => c.stage = "failed")
    BY <1>2, <2>1, <2>2 DEF OrderRows
  <2>8. st /= "none" /\ st /= "applying"
    BY <2>1
  <2>9. g \in Firewalls /\ c \in CommandsOf(g) /\ FirewallJobsInv(g) /\ EnforcingInv(g)
    BY <1>2
  <2> HIDE DEF g
  <2>10. FirewallJobsInv(g)'
    BY <1>1, <2>2, <2>4, <2>6, <2>8, <2>9 DEF FirewallJobsInv
  <2>11. ApplyingInv(g)'
    BY <2>4, <2>8 DEF ApplyingInv
  <2>12. \A n : /\ ToEnforce(g, n) <=> ToEnforce(g, n)'
                /\ Through(g, n) <=> Through(g, n)'
                /\ Enforces(g, n) => Enforces(g, n)'
    <3>1. \A n : ToEnforce(g, n) <=> ToEnforce(g, n)'
      BY <2>2, <2>5 DEF ToEnforce
    <3> QED
      BY <1>1, <2>2, <2>4, <3>1 DEF Through, Enforces
  <2>13. ASSUME Unmet(g)' PROVE EnforcingInv(g)'
    <3>1. /\ c.node \in fw[g].nodes /\ Through(g, c.node)'
          /\ st = "active" => c.node \notin Unable(g)
          /\ st = "failed" => c.node \in Unable(g)
      <4>1. c.node \in fw[g].nodes /\ c.node \notin todo[g].nodes /\ ~ToEnforce(g, c.node)
        BY <2>2, <2>6, <2>9, <2>13 DEF EnforcingInv, ToEnforce
      <4>2. (st = "active" => c.node \notin Unable(g)) /\ (st = "failed" => c.node \in Unable(g))
        BY <2>6, <2>7, <2>9, <2>13 DEF EnforcingInv
      <4> QED
        BY <2>12, <4>1, <4>2 DEF Through
    <3>2. /\ fw'[g].status = "active" => \E n \in fw'[g].nodes \ Unable(g)' : Through(g, n)'
          /\ fw'[g].status = "failed" => \E n \in fw'[g].nodes \intersect Unable(g)' : Through(g, n)'
      BY <2>4, <2>5, <3>1
    <3>3. \A o \in CommandsOf(g)' :
            /\ o.rules = fw'[g].rules /\ o.node \in fw'[g].nodes \ todo'[g].nodes
            /\ o.stage = "ok" => o.node \notin Unable(g)'
            /\ o.stage = "failed" => o.node \in Unable(g)'
            /\ \A d \in CommandsOf(g)' : d.node = o.node => d = o
      BY <1>1, <2>4, <2>5, <2>6, <2>9, <2>13 DEF EnforcingInv
    <3>4. \A n \in fw'[g].nodes \ Unable(g)' : n \in todo'[g].nodes \/ ToEnforce(g, n)' \/ Enforces(g, n)'
      BY <1>1, <2>4, <2>5, <2>6, <2>9, <2>12, <2>13 DEF EnforcingInv
    <3>5. todo'[g].nodes \subseteq fw'[g].nodes /\ (todo'[g].nodes /= {} => todo'[g].rules = fw'[g].rules)
      BY <1>1, <2>4, <2>6, <2>9, <2>13 DEF EnforcingInv
    <3> QED
      BY <3>2, <3>3, <3>4, <3>5 DEF EnforcingInv
  <2>14. EnforcingInv(g)'
    BY <2>13 DEF EnforcingInv
  <2> QED
    BY <2>3, <2>10, <2>11, <2>14 DEF OneFirewallInv
<1>6. CASE LoseFirewallCommand(c)
  <2>1. /\ commands' = commands \ {c} /\ UNCHANGED <<fw, table, declined>>
        /\ cause' = [cause EXCEPT ![c.fw] = @ \union {"lost"}]
    BY <1>6 DEF LoseFirewallCommand, FaultOf
  <2>2. \A f \in Firewalls : f /= c.fw => OneFirewallInv(f)'
    BY <1>2, <1>4, <2>1 DEF FirewallsTypeOK
  <2>3. "lost" \in cause'[c.fw] /\ CommandsOf(c.fw)' \subseteq CommandsOf(c.fw) /\ (Sending(c.fw)' <=> Sending(c.fw))
    BY <1>1, <1>2, <2>1 DEF FirewallsTypeOK, CommandsOf, Sending
  <2>4. FirewallJobsInv(c.fw)' /\ ~Current(c.fw)'
    BY <1>1, <1>2, <2>1, <2>3 DEF FirewallJobsInv, Current
  <2> QED
    BY <2>2, <2>4 DEF OneFirewallInv, EnforcingInv, ApplyingInv, Unmet
<1> QED
  BY <1>3, <1>5, <1>6

\* It holds of the firewalls and of their jobs at every moment.
LEMMA FirewallsKept == FirewallsSpec => []FirewallInv
<1>1. FirewallsInit /\ faults = 0 => FirewallInv
  <2> SUFFICES ASSUME FirewallsInit PROVE FirewallInv
    OBVIOUS
  <2>1. FirewallsTypeOK
    BY FirewallAssumption DEF FirewallsInit, FirewallsTypeOK, Statuses, Actions, Nothing
  <2>2. \A f \in Firewalls : FirewallJobsInv(f) /\ ~Current(f)
    BY DEF FirewallsInit, FirewallJobsInv, Current, CommandsOf, Actions, Nothing
  <2> QED
    BY <2>1, <2>2 DEF FirewallInv, OneFirewallInv, EnforcingInv, ApplyingInv, Unmet
<1>2. FirewallInv /\ [FirewallsNext]_<<firewallVars, faults>> => FirewallInv'
  <2> SUFFICES ASSUME FirewallInv, [FirewallsNext]_<<firewallVars, faults>> PROVE FirewallInv'
    OBVIOUS
  <2>1. CASE UNCHANGED <<firewallVars, faults>>
    <3>1. UNCHANGED <<fw, asked, job, todo, starts, commands, table, acts, cause, declined>>
      BY <2>1 DEF firewallVars
    <3>2. FirewallsTypeOK'
      BY <3>1 DEF FirewallInv, FirewallsTypeOK
    <3>3. ASSUME NEW f \in Firewalls PROVE OneFirewallInv(f)'
      BY <3>1, FirewallUntouched DEF FirewallInv, CommandsOf, Enforces
    <3> QED
      BY <3>2, <3>3 DEF FirewallInv
  <2>2. CASE FirewallsNext
    <3>1. FirewallsTypeOK'
      BY <2>2, FirewallTypeKeeps DEF FirewallInv
    <3>2. \A f \in Firewalls : OneFirewallInv(f)'
      BY <2>2, FirewallRequestsKeep, FirewallJobsKeep, FirewallReportsKeep DEF FirewallsNext
    <3> QED
      BY <3>1, <3>2 DEF FirewallInv
  <2> QED
    BY <2>1, <2>2
<1> QED
  BY <1>1, <1>2, PTL DEF FirewallsSpec

\* What the status of a firewall says once all of it has ended has a cause at the nodes it was
\* sent to (processors/firewall.ts, command-result.service.ts), unless it was patched since,
\* something of it was lost, or two applies met.
THEOREM FirewallsSayWhatIs == FirewallsSpec => []EnforcedHasCause
<1>1. FirewallInv => EnforcedHasCause
  <2> SUFFICES ASSUME FirewallInv, NEW f \in Firewalls, Settled(f), Living(f),
                      cause[f] \intersect {"patched", "lost"} = {}
               PROVE  /\ fw[f].status = "active" /\ "met" \notin cause[f] =>
                          /\ ~ fw[f].nodes \subseteq Unable(f)
                          /\ \A n \in fw[f].nodes \ Unable(f) : Enforces(f, n)
                      /\ fw[f].status = "failed" /\ "met" \notin cause[f] => fw[f].nodes \intersect Unable(f) /= {}
                      /\ fw[f].status = "applying" => "ignored" \in cause[f] \/ fw[f].nodes = {}
    BY DEF EnforcedHasCause, Unable, Enforces
  <2>1. /\ FirewallJobsInv(f) /\ EnforcingInv(f) /\ ApplyingInv(f)
        /\ asked[f]["apply"] = 0 /\ job[f]["apply"] \in {"unknown", "ended", "failed"} /\ CommandsOf(f) = {}
    BY DEF FirewallInv, OneFirewallInv, Settled, Actions
  <2>2. "patched" \notin cause[f] /\ "lost" \notin cause[f]
    OBVIOUS
  <2>3. CASE job[f]["apply"] \in {"unknown", "failed"}
    BY <2>1, <2>2, <2>3 DEF FirewallJobsInv
  <2>4. CASE job[f]["apply"] = "ended"
    <3>1. Current(f) /\ todo[f].nodes = {} /\ \A n : ~ToEnforce(f, n)
      BY <2>1, <2>2, <2>4 DEF Current, Living, FirewallJobsInv, Sending, ToEnforce
    <3> QED
      BY <2>1, <3>1 DEF EnforcingInv, ApplyingInv, Unmet
  <2> QED
    BY <2>1, <2>3, <2>4
<1> QED
  BY FirewallsKept, <1>1, PTL

-----------------------------------------------------------------------------
(* Domains.  What is not decided has a check under way, and what is active  *)
(* or sent has a route, or a command on its way that will make one.         *)

\* A verification of h is under way.
Verifying(h) == \E j \in Checks : check[h][j].at \notin {"none", "ended"}

\* A route of h is on its way to the node.
Configured(h) == \E c \in configures : c[1] = h

\* Who may be routed has had a record that points to the node.
PointedInv ==
    /\ \A h \in Hosts :
        /\ resolves[h] \/ domain[h] \in {"verified", "active"} \/ route[h] >= 0 => pointed[h]
        /\ \A j \in Checks : check[h][j].at \in {"verified", "sent"} => pointed[h]
        /\ Configured(h) \/ (\E d \in DOMAIN deploys : deploys[d].host = h) => pointed[h]

\* What is not decided is being verified, and what is sent arrives, or is refused.
RoutedInv ==
    \A h \in Hosts :
        /\ domain[h] \in {"pending", "verifying", "verified"} => Verifying(h)
        /\ domain[h] = "active" \/ (\E j \in Checks : check[h][j].at = "sent") =>
            route[h] >= 0 \/ Configured(h) \/ unheeded[h]

\* The route that the deploy of the container has made stands, unless another came later.
LeadsInv == \A h \in Hosts : Routed(h) => route[h] \in {port, 0} \/ behind[h]

DomainsInv ==
    /\ DomainsTypeOK /\ faults \in Nat /\ port \in 0 .. Len(deploys)
    /\ PointedInv /\ LeadsInv /\ (faults = 0 => RoutedInv)

DomainStates == {"none", "pending", "verifying", "verified", "active", "failed", "gone"}
CheckRows == [at : {"none", "asked", "waiting", "checking", "verified", "sent", "ended"},
              attempt : 0 .. MAX_ATTEMPTS - 1, again : BOOLEAN]
DeployStates == {"sent", "running", "healthy", "routed", "failed"}
DeployRows == [at : DeployStates, host : Hosts \union {NoHost}]
CheckStates == {"none", "asked", "waiting", "checking", "verified", "sent", "ended"}

\* What a step leaves of a verification is a verification.
LEMMA CheckWritten ==
    /\ \A st \in CheckStates : Fresh(st) \in CheckRows
    /\ \A r \in CheckRows :
        /\ \A st \in CheckStates : [r EXCEPT !.at = st] \in CheckRows
        /\ [r EXCEPT !.at = "waiting", !.again = TRUE] \in CheckRows
        /\ ~LastAttempt(r) => [Fresh("waiting") EXCEPT !.attempt = r.attempt + 1] \in CheckRows
<1>1. MAX_ATTEMPTS \in Nat \ {0}
  BY DomainAssumption
<1>2. \A st \in CheckStates : Fresh(st) \in CheckRows
  BY <1>1 DEF Fresh, CheckRows, CheckStates
<1>3. ASSUME NEW r \in CheckRows, NEW st \in CheckStates PROVE [r EXCEPT !.at = st] \in CheckRows
  BY DEF CheckRows, CheckStates
<1>4. ASSUME NEW r \in CheckRows PROVE [r EXCEPT !.at = "waiting", !.again = TRUE] \in CheckRows
  BY DEF CheckRows
<1>5. ASSUME NEW r \in CheckRows, ~LastAttempt(r) PROVE [Fresh("waiting") EXCEPT !.attempt = r.attempt + 1] \in CheckRows
  <2>1. r.attempt + 1 \in 0 .. MAX_ATTEMPTS - 1
    BY <1>1, <1>5 DEF LastAttempt, CheckRows
  <2> QED
    BY <2>1 DEF Fresh, CheckRows
<1> QED
  BY <1>2, <1>3, <1>4, <1>5

\* What is deployed is a host of the app, or none.
LEMMA DeployHosts ==
    ASSUME deploys \in Seq(DeployRows)
    PROVE  \A d \in DOMAIN deploys : deploys[d].host \in Hosts \union {NoHost}
<1>1. \A d \in DOMAIN deploys : deploys[d] \in DeployRows
  OBVIOUS
<1> QED
  BY <1>1 DEF DeployRows

\* A deploy moves alone, and another one comes after all of them.
LEMMA DeployStep ==
    ASSUME deploys \in Seq(DeployRows)
    PROVE  /\ \A host \in Hosts \union {NoHost} : BeginDeploy(host) =>
               /\ deploys' \in Seq(DeployRows) /\ Len(deploys') = Len(deploys) + 1
               /\ deploys'[Len(deploys) + 1].host = host
               /\ \A d \in DOMAIN deploys : deploys'[d] = deploys[d]
           /\ \A d \in DOMAIN deploys, from, to \in DeployStates : DeployMoves(d, from, to) =>
               /\ deploys' \in Seq(DeployRows) /\ Len(deploys') = Len(deploys)
               /\ deploys'[d].at = to /\ deploys'[d].host = deploys[d].host
               /\ \A e \in DOMAIN deploys \ {d} : deploys'[e] = deploys[e]
<1>1. ASSUME NEW host \in Hosts \union {NoHost}, BeginDeploy(host)
      PROVE  /\ deploys' \in Seq(DeployRows) /\ Len(deploys') = Len(deploys) + 1
             /\ deploys'[Len(deploys) + 1].host = host
             /\ \A d \in DOMAIN deploys : deploys'[d] = deploys[d]
  <2> DEFINE new == [at |-> "sent", host |-> host]
  <2>1. new \in DeployRows /\ new.host = host /\ deploys' = Append(deploys, new)
    BY <1>1 DEF BeginDeploy, DeployRows, DeployStates
  <2> HIDE DEF new
  <2> QED
    BY <2>1
<1>2. ASSUME NEW d \in DOMAIN deploys, NEW from, NEW to \in DeployStates, DeployMoves(d, from, to)
      PROVE  /\ deploys' \in Seq(DeployRows) /\ Len(deploys') = Len(deploys)
             /\ deploys'[d].at = to /\ deploys'[d].host = deploys[d].host
             /\ \A e \in DOMAIN deploys \ {d} : deploys'[e] = deploys[e]
  <2> DEFINE new == [deploys[d] EXCEPT !.at = to]
  <2>1. deploys' = [deploys EXCEPT ![d] = new] /\ deploys[d] \in DeployRows
    BY <1>2 DEF DeployMoves
  <2>2. new \in DeployRows /\ new.at = to /\ new.host = deploys[d].host
    BY <2>1 DEF DeployRows
  <2> HIDE DEF new
  <2> QED
    BY <2>1, <2>2
<1> QED
  BY <1>1, <1>2

\* Every step keeps the types.
LEMMA DomainsTypeKeeps ==
    ASSUME DomainsTypeOK, DomainsNext
    PROVE  DomainsTypeOK'
<1>1. /\ domain \in [Hosts -> DomainStates] /\ born \in Seq(Hosts) /\ check \in [Hosts -> [Checks -> CheckRows]]
      /\ configures \subseteq Hosts \X Checks \X BOOLEAN /\ deploys \in Seq(DeployRows)
      /\ port \in Nat /\ route \in [Hosts -> Nat \union {-1}] /\ resolves \in [Hosts -> BOOLEAN]
      /\ behind \in [Hosts -> BOOLEAN] /\ unheeded \in [Hosts -> BOOLEAN] /\ pointed \in [Hosts -> BOOLEAN]
      /\ moves \in Nat
  BY DEF DomainsTypeOK, DomainStates, CheckRows, DeployRows, DeployStates
<1>2. ASSUME domain' \in [Hosts -> DomainStates], born' \in Seq(Hosts), check' \in [Hosts -> [Checks -> CheckRows]],
             configures' \subseteq Hosts \X Checks \X BOOLEAN, deploys' \in Seq(DeployRows),
             port' \in Nat, route' \in [Hosts -> Nat \union {-1}], resolves' \in [Hosts -> BOOLEAN],
             behind' \in [Hosts -> BOOLEAN], unheeded' \in [Hosts -> BOOLEAN], pointed' \in [Hosts -> BOOLEAN],
             moves' \in Nat
      PROVE  DomainsTypeOK'
  BY <1>2 DEF DomainsTypeOK, DomainStates, CheckRows, DeployRows, DeployStates
<1>3. ASSUME NEW h \in Hosts
      PROVE  /\ \A st \in DomainStates : [domain EXCEPT ![h] = st] \in [Hosts -> DomainStates]
             /\ \A j \in Checks, row \in CheckRows : [check EXCEPT ![h][j] = row] \in [Hosts -> [Checks -> CheckRows]]
             /\ \A j \in Checks : check[h][j] \in CheckRows
  BY <1>1
<1>4. (Move => moves' \in Nat) /\ 1 \in Checks
  BY <1>1, DomainAssumption DEF Move, Checks
<1>5. ASSUME NEW h \in Hosts, ChangeDns(h) PROVE DomainsTypeOK'
  BY <1>1, <1>2, <1>4, <1>5 DEF ChangeDns, nodeVars
<1>6. ASSUME NEW h \in Hosts, CreateDomain(h) PROVE DomainsTypeOK'
  <2>1. /\ domain' = [domain EXCEPT ![h] = "pending"] /\ born' = Append(born, h)
        /\ check' = [check EXCEPT ![h][1] = [check[h][1] EXCEPT !.at = "asked"]]
    BY <1>6 DEF CreateDomain
  <2>2. [check[h][1] EXCEPT !.at = "asked"] \in CheckRows
    BY <1>3, <1>4, CheckWritten DEF CheckStates
  <2>3. domain' \in [Hosts -> DomainStates]
    BY <1>3, <2>1 DEF DomainStates
  <2>4. check' \in [Hosts -> [Checks -> CheckRows]]
    BY <1>3, <1>4, <2>1, <2>2
  <2> QED
    BY <1>1, <1>2, <1>4, <1>6, <2>1, <2>3, <2>4 DEF CreateDomain, nodeVars, dnsVars
<1>7. ASSUME NEW h \in Hosts, AddDomainJob(h) \/ DomainRequestDies(h) PROVE DomainsTypeOK'
  <2>1. \E st \in CheckStates : check' = [check EXCEPT ![h][1] = [check[h][1] EXCEPT !.at = st]]
    BY <1>7 DEF AddDomainJob, DomainRequestDies, CheckStates
  <2>2. \A st \in CheckStates : [check[h][1] EXCEPT !.at = st] \in CheckRows
    BY <1>3, <1>4, CheckWritten
  <2>3. check' \in [Hosts -> [Checks -> CheckRows]]
    BY <1>3, <1>4, <2>1, <2>2
  <2> QED
    BY <1>1, <1>2, <1>4, <1>7, <2>3 DEF AddDomainJob, DomainRequestDies, nodeVars, dnsVars
<1>8. ASSUME NEW h \in Hosts, VerifyDomain(h) PROVE DomainsTypeOK'
  <2>1. PICK j \in Checks : check' = [check EXCEPT ![h][j] = [check[h][j] EXCEPT !.at = "waiting"]]
    BY <1>8 DEF VerifyDomain
  <2>2. [check[h][j] EXCEPT !.at = "waiting"] \in CheckRows
    BY <1>3, CheckWritten DEF CheckStates
  <2>3. check' \in [Hosts -> [Checks -> CheckRows]]
    BY <1>3, <2>1, <2>2
  <2> QED
    BY <1>1, <1>2, <1>4, <1>8, <2>3 DEF VerifyDomain, nodeVars, dnsVars
<1>9. ASSUME NEW h \in Hosts, DeleteDomain(h) PROVE DomainsTypeOK'
  <2>1. domain' \in [Hosts -> DomainStates]
    BY <1>3, <1>9 DEF DeleteDomain, DomainStates
  <2> QED
    BY <1>1, <1>2, <1>4, <1>9, <2>1 DEF DeleteDomain, nodeVars, dnsVars
<1>10. ASSUME NEW h \in Hosts, NEW j \in Checks,
              \/ StartCheck(h, j) \/ ResolveDomain(h, j) \/ SendConfigure(h, j)
              \/ Activate(h, j) \/ DomainWorkerDies(h, j)
       PROVE DomainsTypeOK'
  <2>1. domain' \in [Hosts -> DomainStates]
    <3>1. domain' = domain \/ \E st \in DomainStates : domain' = [domain EXCEPT ![h] = st]
      BY <1>1, <1>10 DEF StartCheck, ResolveDomain, SendConfigure, Activate, DomainWorkerDies, DomainStates
    <3>2. \A st \in DomainStates : [domain EXCEPT ![h] = st] \in [Hosts -> DomainStates]
      BY <1>3
    <3> QED
      BY <1>1, <3>1, <3>2
  <2>2. \E row \in CheckRows : check' = [check EXCEPT ![h][j] = row]
    <3>1. check[h][j] \in CheckRows
      BY <1>3
    <3>2. CASE StartCheck(h, j)
      BY <3>1, <3>2, CheckWritten DEF StartCheck, CheckStates
    <3>3. CASE ResolveDomain(h, j)
      <4>1. \/ check' = [check EXCEPT ![h][j] = [check[h][j] EXCEPT !.at = "verified"]]
            \/ check' = [check EXCEPT ![h][j] = Fresh("ended")]
            \/ /\ ~LastAttempt(check[h][j])
               /\ check' = [check EXCEPT ![h][j] = [Fresh("waiting") EXCEPT !.attempt = check[h][j].attempt + 1]]
        BY <3>3 DEF ResolveDomain
      <4> QED
        BY <3>1, <4>1, CheckWritten DEF CheckStates
    <3>4. CASE SendConfigure(h, j)
      <4>1. check' = [check EXCEPT ![h][j] = [check[h][j] EXCEPT !.at = "sent"]]
        BY <3>4 DEF SendConfigure
      <4> QED
        BY <3>1, <4>1, CheckWritten DEF CheckStates
    <3>5. CASE Activate(h, j)
      BY <3>1, <3>5, CheckWritten DEF Activate, CheckStates
    <3>6. CASE DomainWorkerDies(h, j)
      <4>1. \/ check' = [check EXCEPT ![h][j] = [check[h][j] EXCEPT !.at = "waiting", !.again = TRUE]]
            \/ check' = [check EXCEPT ![h][j] = Fresh("ended")]
        BY <3>6 DEF DomainWorkerDies
      <4> QED
        BY <3>1, <4>1, CheckWritten DEF CheckStates
    <3> QED
      BY <1>10, <3>2, <3>3, <3>4, <3>5, <3>6
  <2>3. check' \in [Hosts -> [Checks -> CheckRows]]
    BY <1>3, <2>2
  <2>4. configures' \subseteq Hosts \X Checks \X BOOLEAN
    <3>1. check[h][j].again \in BOOLEAN
      BY <1>3 DEF CheckRows
    <3> QED
      BY <1>1, <1>10, <3>1 DEF StartCheck, ResolveDomain, SendConfigure, Activate, DomainWorkerDies
  <2>5. UNCHANGED <<born, nodeVars, dnsVars>> /\ moves' \in Nat
    BY <1>1, <1>4, <1>10 DEF StartCheck, ResolveDomain, SendConfigure, Activate, DomainWorkerDies
  <2> QED
    BY <1>1, <1>2, <2>1, <2>3, <2>4, <2>5 DEF nodeVars, dnsVars
<1>11. ASSUME NEW c \in configures, ConfigureDomain(c) \/ RefuseConfigure(c) \/ LoseConfigure(c) PROVE DomainsTypeOK'
  <2>1. CASE ConfigureDomain(c)
    <3>1. /\ route' = [route EXCEPT ![c[1]] = 0] /\ behind' = [behind EXCEPT ![c[1]] = FALSE]
          /\ configures' \subseteq configures
          /\ UNCHANGED <<domain, born, check, deploys, port, unheeded, dnsVars, moves>>
      BY <2>1 DEF ConfigureDomain
    <3>2. route' \in [Hosts -> Nat \union {-1}] /\ behind' \in [Hosts -> BOOLEAN]
      BY <1>1, <3>1
    <3> QED
      BY <1>1, <1>2, <3>1, <3>2 DEF dnsVars
  <2>2. CASE RefuseConfigure(c)
    <3>1. unheeded' \in [Hosts -> BOOLEAN]
      BY <1>1, <2>2 DEF RefuseConfigure
    <3> QED
      BY <1>1, <1>2, <2>2, <3>1 DEF RefuseConfigure, dnsVars
  <2>3. CASE LoseConfigure(c)
    BY <1>1, <1>2, <1>4, <2>3 DEF LoseConfigure, nodeVars, dnsVars
  <2> QED
    BY <1>11, <2>1, <2>2, <2>3
<1>12. CASE PickDomain \/ PickSnapshot
  <2>1. PICK host \in Hosts \union {NoHost} : BeginDeploy(host)
    BY <1>1, <1>12, DeployHosts DEF PickDomain, PickSnapshot
  <2>2. deploys' \in Seq(DeployRows)
    BY <1>1, <2>1, DeployStep
  <2> QED
    BY <1>1, <1>2, <1>4, <2>1, <2>2 DEF BeginDeploy, dnsVars
<1>13. ASSUME NEW d \in DOMAIN deploys, RunContainer(d) \/ FindHealthy(d) \/ RouteDeploy(d) \/ DeployFails(d)
       PROVE DomainsTypeOK'
  <2>1. PICK from \in DeployStates, to \in DeployStates : DeployMoves(d, from, to)
    BY <1>13 DEF RunContainer, FindHealthy, RouteDeploy, DeployFails, DeployStates
  <2>2. deploys' \in Seq(DeployRows)
    BY <1>1, <2>1, DeployStep
  <2>3. port' \in Nat /\ route' \in [Hosts -> Nat \union {-1}] /\ behind' \in [Hosts -> BOOLEAN]
    <3>1. CASE RouteDeploy(d)
      <4>1. route' \in [Hosts -> Nat \union {-1}]
        BY <1>1, <3>1 DEF RouteDeploy
      <4>2. behind' \in [Hosts -> BOOLEAN]
        <5> DEFINE now(h) == IF h = deploys[d].host THEN port /= d ELSE behind[h]
        <5>1. behind' = [h \in Hosts |-> now(h)]
          BY <3>1 DEF RouteDeploy
        <5>2. \A h \in Hosts : now(h) \in BOOLEAN
          BY <1>1
        <5> HIDE DEF now
        <5> QED
          BY <5>1, <5>2
      <4> QED
        BY <1>1, <3>1, <4>1, <4>2 DEF RouteDeploy
    <3>2. CASE RunContainer(d) \/ FindHealthy(d) \/ DeployFails(d)
      BY <1>1, <3>2 DEF RunContainer, FindHealthy, DeployFails
    <3> QED
      BY <1>13, <3>1, <3>2
  <2> QED
    BY <1>1, <1>2, <2>1, <2>2, <2>3 DEF DeployMoves, dnsVars
<1> QED
  BY <1>5, <1>6, <1>7, <1>8, <1>9, <1>10, <1>11, <1>12, <1>13 DEF DomainsNext

\* A record that points to the node comes first: of a verification, of the domain it verifies,
\* of the command it sends, and of the deploy that picks the domain.
LEMMA PointedKeeps ==
    ASSUME DomainsTypeOK, PointedInv, DomainsNext
    PROVE  PointedInv'
<1>1. /\ domain \in [Hosts -> DomainStates] /\ check \in [Hosts -> [Checks -> CheckRows]]
      /\ configures \subseteq Hosts \X Checks \X BOOLEAN /\ deploys \in Seq(DeployRows)
      /\ route \in [Hosts -> Nat \union {-1}] /\ resolves \in [Hosts -> BOOLEAN]
      /\ pointed \in [Hosts -> BOOLEAN]
  BY DEF DomainsTypeOK, DomainStates, CheckRows, DeployRows, DeployStates
<1>2. ASSUME NEW g \in Hosts, \A h \in Hosts \ {g} : domain'[h] = domain[h] /\ check'[h] = check[h],
             UNCHANGED <<configures, nodeVars, dnsVars>>,
             domain'[g] \in {"verified", "active"} => pointed[g],
             \A j \in Checks : check'[g][j].at \in {"verified", "sent"} => pointed[g]
      PROVE  PointedInv'
  BY <1>2 DEF PointedInv, Configured, nodeVars, dnsVars
<1>3. ASSUME NEW h \in Hosts, ChangeDns(h) PROVE PointedInv'
  <2>1. /\ UNCHANGED <<domain, check, configures, nodeVars>>
        /\ \A g \in Hosts : (resolves'[g] => resolves[g] \/ g = h) /\ (pointed'[g] <=> pointed[g] \/ g = h)
    BY <1>1, <1>3 DEF ChangeDns
  <2> QED
    BY <2>1 DEF PointedInv, Configured, nodeVars
<1>4. 1 \in Checks
  BY DomainAssumption DEF Checks
<1>5. ASSUME NEW h \in Hosts, NEW j \in Checks, NEW st, st \notin {"verified", "sent"},
             check' = [check EXCEPT ![h][j].at = st]
      PROVE  /\ \A i \in Checks : check'[h][i].at \in {"verified", "sent"} => check[h][i].at \in {"verified", "sent"}
             /\ \A g \in Hosts \ {h} : check'[g] = check[g]
  BY <1>1, <1>5 DEF CheckRows
<1>6. ASSUME NEW h \in Hosts,
             CreateDomain(h) \/ AddDomainJob(h) \/ DomainRequestDies(h) \/ VerifyDomain(h)
      PROVE PointedInv'
  <2>1. PICK j \in Checks, st \in {"asked", "waiting", "ended"} : check' = [check EXCEPT ![h][j].at = st]
    BY <1>4, <1>6 DEF CreateDomain, AddDomainJob, DomainRequestDies, VerifyDomain
  <2>2. /\ \A i \in Checks : check'[h][i].at \in {"verified", "sent"} => check[h][i].at \in {"verified", "sent"}
        /\ \A g \in Hosts \ {h} : check'[g] = check[g]
    BY <1>5, <2>1
  <2>3. /\ domain' = domain \/ domain' = [domain EXCEPT ![h] = "pending"]
        /\ UNCHANGED <<configures, nodeVars, dnsVars>>
    BY <1>6 DEF CreateDomain, AddDomainJob, DomainRequestDies, VerifyDomain
  <2>4. /\ \A g \in Hosts \ {h} : domain'[g] = domain[g]
        /\ domain'[h] \in {"verified", "active"} => domain[h] \in {"verified", "active"}
    BY <1>1, <2>3
  <2> QED
    BY <1>2, <2>2, <2>3, <2>4 DEF PointedInv
<1>7. ASSUME NEW h \in Hosts, DeleteDomain(h) PROVE PointedInv'
  <2>1. domain' = [domain EXCEPT ![h] = "gone"] /\ UNCHANGED <<check, configures, nodeVars, dnsVars>>
    BY <1>7 DEF DeleteDomain
  <2>2. domain'[h] = "gone" /\ \A g \in Hosts \ {h} : domain'[g] = domain[g]
    BY <1>1, <2>1
  <2> QED
    BY <1>2, <2>1, <2>2 DEF PointedInv
<1>8. ASSUME NEW h \in Hosts, NEW j \in Checks, NEW row, check' = [check EXCEPT ![h][j] = row],
             row.at \in {"verified", "sent"} => pointed[h],
             domain' = domain \/ \E st : domain' = [domain EXCEPT ![h] = st] /\ (st \in {"verified", "active"} => pointed[h]),
             UNCHANGED <<configures, nodeVars, dnsVars>>
      PROVE PointedInv'
  <2>1. /\ \A i \in Checks : check'[h][i].at \in {"verified", "sent"} => pointed[h]
        /\ \A g \in Hosts \ {h} : check'[g] = check[g]
    BY <1>1, <1>8 DEF PointedInv
  <2>2. /\ \A g \in Hosts \ {h} : domain'[g] = domain[g]
        /\ domain'[h] \in {"verified", "active"} => pointed[h]
    BY <1>1, <1>8 DEF PointedInv
  <2> QED
    BY <1>2, <1>8, <2>1, <2>2
<1>9. ASSUME NEW h \in Hosts, NEW j \in Checks, StartCheck(h, j) PROVE PointedInv'
  <2>1. \E row : check' = [check EXCEPT ![h][j] = row] /\ row.at \notin {"verified", "sent"}
    <3>1. /\ [check[h][j] EXCEPT !.at = "checking"].at = "checking" /\ Fresh("ended").at = "ended"
      BY <1>1 DEF Fresh, CheckRows
    <3> QED
      BY <1>9, <3>1 DEF StartCheck
  <2>2. \E st : domain' = [domain EXCEPT ![h] = st] /\ (st \in {"verified", "active"} => pointed[h])
    <3>1. Exists(h) => domain' = [domain EXCEPT ![h] = "verifying"]
      BY <1>9 DEF StartCheck
    <3>2. ~Exists(h) => domain' = [domain EXCEPT ![h] = domain[h]]
      BY <1>9 DEF StartCheck
    <3> QED
      BY <3>1, <3>2 DEF PointedInv
  <2> QED
    BY <1>8, <1>9, <2>1, <2>2 DEF StartCheck
<1>10. ASSUME NEW h \in Hosts, NEW j \in Checks, ResolveDomain(h, j) PROVE PointedInv'
  <2>1. CASE resolves[h]
    <3>1. pointed[h]
      BY <2>1 DEF PointedInv
    <3>2. \E row : check' = [check EXCEPT ![h][j] = row]
      BY <1>10, <2>1 DEF ResolveDomain
    <3>3. domain' = domain \/ \E st : domain' = [domain EXCEPT ![h] = st]
      BY <1>10, <2>1 DEF ResolveDomain
    <3>4. UNCHANGED <<configures, nodeVars, dnsVars>>
      BY <1>10 DEF ResolveDomain
    <3>5. PICK row : check' = [check EXCEPT ![h][j] = row]
      BY <3>2
    <3>6. domain' = domain \/ \E st : domain' = [domain EXCEPT ![h] = st] /\ (st \in {"verified", "active"} => pointed[h])
      BY <3>1, <3>3
    <3> QED
      BY <1>8, <3>1, <3>4, <3>5, <3>6
  <2>2. CASE ~resolves[h]
    <3>1. \E row : check' = [check EXCEPT ![h][j] = row] /\ row.at \notin {"verified", "sent"}
      <4>1. Fresh("ended").at = "ended" /\ \A n : [Fresh("waiting") EXCEPT !.attempt = n].at = "waiting"
        BY DEF Fresh
      <4> QED
        BY <1>10, <2>2, <4>1 DEF ResolveDomain
    <3>2. domain' = domain \/ \E st : domain' = [domain EXCEPT ![h] = st] /\ (st \in {"verified", "active"} => pointed[h])
      <4>1. \/ domain' = domain
            \/ domain' = [domain EXCEPT ![h] = IF Exists(h) THEN "failed" ELSE domain[h]]
        BY <1>10, <2>2 DEF ResolveDomain
      <4>2. Exists(h) => (IF Exists(h) THEN "failed" ELSE domain[h]) = "failed"
        OBVIOUS
      <4> QED
        BY <4>1, <4>2 DEF PointedInv
    <3>3. UNCHANGED <<configures, nodeVars, dnsVars>>
      BY <1>10 DEF ResolveDomain
    <3>4. PICK row : check' = [check EXCEPT ![h][j] = row] /\ row.at \notin {"verified", "sent"}
      BY <3>1
    <3> QED
      BY <1>8, <3>2, <3>3, <3>4
  <2> QED
    BY <2>1, <2>2
<1>11. ASSUME NEW h \in Hosts, NEW j \in Checks, SendConfigure(h, j) PROVE PointedInv'
  <2>1. /\ pointed[h] /\ configures' = configures \union {<<h, j, check[h][j].again>>}
        /\ UNCHANGED <<domain, nodeVars, dnsVars>> /\ check' = [check EXCEPT ![h][j].at = "sent"]
    BY <1>11 DEF SendConfigure, PointedInv
  <2>2. \A g \in Hosts : Configured(g)' => Configured(g) \/ g = h
    BY <2>1 DEF Configured
  <2>3. \A g \in Hosts, i \in Checks : check'[g][i].at \in {"verified", "sent"} => check[g][i].at \in {"verified", "sent"} \/ g = h
    BY <1>1, <2>1 DEF CheckRows
  <2> QED
    BY <2>1, <2>2, <2>3 DEF PointedInv, nodeVars, dnsVars
<1>12. ASSUME NEW h \in Hosts, NEW j \in Checks, Activate(h, j) PROVE PointedInv'
  <2>1. pointed[h] /\ check' = [check EXCEPT ![h][j] = Fresh("ended")]
        /\ domain' = [domain EXCEPT ![h] = IF Exists(h) THEN "active" ELSE domain[h]]
        /\ UNCHANGED <<configures, nodeVars, dnsVars>>
    BY <1>12 DEF Activate, PointedInv
  <2> QED
    BY <1>8, <2>1
<1>13. ASSUME NEW h \in Hosts, NEW j \in Checks, DomainWorkerDies(h, j) PROVE PointedInv'
  <2>1. \E row : check' = [check EXCEPT ![h][j] = row] /\ row.at \notin {"verified", "sent"}
    <3>1. [check[h][j] EXCEPT !.at = "waiting", !.again = TRUE].at = "waiting" /\ Fresh("ended").at = "ended"
      BY <1>1 DEF Fresh, CheckRows
    <3> QED
      BY <1>13, <3>1 DEF DomainWorkerDies
  <2> QED
    BY <1>8, <1>13, <2>1 DEF DomainWorkerDies
<1>14. ASSUME NEW c \in configures, ConfigureDomain(c) PROVE PointedInv'
  <2>1. /\ configures' \subseteq configures /\ route' = [route EXCEPT ![c[1]] = 0]
        /\ UNCHANGED <<domain, check, deploys, dnsVars>>
    BY <1>14 DEF ConfigureDomain
  <2>2. \A g \in Hosts : (Configured(g)' => Configured(g)) /\ (route'[g] >= 0 => route[g] >= 0 \/ Configured(g))
    BY <1>1, <2>1 DEF Configured
  <2> QED
    BY <2>1, <2>2 DEF PointedInv, dnsVars
<1>15. ASSUME NEW c \in configures, RefuseConfigure(c) \/ LoseConfigure(c) PROVE PointedInv'
  <2>1. configures' \subseteq configures /\ UNCHANGED <<domain, check, deploys, route, dnsVars>>
    BY <1>15 DEF RefuseConfigure, LoseConfigure, nodeVars
  <2>2. \A g \in Hosts : Configured(g)' => Configured(g)
    BY <2>1 DEF Configured
  <2> QED
    BY <2>1, <2>2 DEF PointedInv, dnsVars
<1>16. CASE PickDomain \/ PickSnapshot
  <2>1. PICK host \in Hosts \union {NoHost} : BeginDeploy(host) /\ (host \in Hosts => pointed[host])
    <3>1. CASE PickDomain
      <4>1. PICK host \in Hosts \union {NoHost} :
              Oldest(host, {h \in Hosts : domain[h] \in {"verified", "active"}}) /\ BeginDeploy(host)
        BY <3>1 DEF PickDomain
      <4>2. host \in Hosts => domain[host] \in {"verified", "active"}
        BY <4>1, DomainAssumption DEF Oldest
      <4> QED
        BY <4>1, <4>2 DEF PointedInv
    <3>2. CASE PickSnapshot
      <4>1. PICK d \in DOMAIN deploys : BeginDeploy(deploys[d].host)
        BY <3>2 DEF PickSnapshot
      <4>2. deploys[d].host \in Hosts \union {NoHost}
        BY <1>1, DeployHosts
      <4> QED
        BY <4>1, <4>2 DEF PointedInv
    <3> QED
      BY <1>16, <3>1, <3>2
  <2>2. UNCHANGED <<domain, check, configures, route, dnsVars>>
    BY <2>1 DEF BeginDeploy
  <2>3. \A d \in DOMAIN deploys' : (d \in DOMAIN deploys /\ deploys'[d] = deploys[d]) \/ deploys'[d].host = host
    BY <1>1, <2>1, DeployStep
  <2> QED
    BY <2>1, <2>2, <2>3 DEF PointedInv, Configured, dnsVars
<1>17. ASSUME NEW d \in DOMAIN deploys, RunContainer(d) \/ FindHealthy(d) \/ RouteDeploy(d) \/ DeployFails(d)
       PROVE PointedInv'
  <2>1. PICK from \in DeployStates, to \in DeployStates : DeployMoves(d, from, to)
    BY <1>17 DEF RunContainer, FindHealthy, RouteDeploy, DeployFails, DeployStates
  <2>2. UNCHANGED <<domain, check, configures, dnsVars>>
    BY <2>1 DEF DeployMoves
  <2>3. DOMAIN deploys' = DOMAIN deploys /\ \A e \in DOMAIN deploys : deploys'[e].host = deploys[e].host
    BY <1>1, <2>1, DeployStep
  <2>4. \A h \in Hosts : route'[h] >= 0 => route[h] >= 0 \/ deploys[d].host = h
    BY <1>17 DEF RunContainer, FindHealthy, RouteDeploy, DeployFails
  <2> QED
    BY <2>2, <2>3, <2>4 DEF PointedInv, Configured, dnsVars
<1> QED
  BY <1>3, <1>6, <1>7, <1>9, <1>10, <1>11, <1>12, <1>13, <1>14, <1>15, <1>16, <1>17 DEF DomainsNext

\* The container is that of the last deploy that ran one; its own route leads to it, until a
\* command or a deploy that it replaced routes the domain again.
LEMMA LeadsKeeps ==
    ASSUME DomainsTypeOK, port \in 0 .. Len(deploys), LeadsInv, DomainsNext
    PROVE  LeadsInv' /\ port' \in 0 .. Len(deploys')
<1>1. /\ configures \subseteq Hosts \X Checks \X BOOLEAN /\ deploys \in Seq(DeployRows)
      /\ route \in [Hosts -> Nat \union {-1}] /\ behind \in [Hosts -> BOOLEAN]
      /\ DOMAIN deploys = 1 .. Len(deploys) /\ port \in Nat
  BY DEF DomainsTypeOK, DeployRows, DeployStates
<1>2. ASSUME NEW c \in configures, ConfigureDomain(c) PROVE LeadsInv' /\ port' \in 0 .. Len(deploys')
  <2>1. /\ UNCHANGED <<deploys, port>>
        /\ \A h \in Hosts : /\ h = c[1] => route'[h] = 0
                            /\ h /= c[1] => route'[h] = route[h] /\ behind'[h] = behind[h]
    BY <1>1, <1>2 DEF ConfigureDomain
  <2> QED
    BY <2>1 DEF LeadsInv, Routed
<1>3. CASE PickDomain \/ PickSnapshot
  <2>1. PICK host \in Hosts \union {NoHost} : BeginDeploy(host)
    BY <1>1, <1>3, DeployHosts DEF PickDomain, PickSnapshot
  <2>2. UNCHANGED <<port, route, behind>>
    BY <2>1 DEF BeginDeploy
  <2>3. Len(deploys') = Len(deploys) + 1 /\ \A d \in DOMAIN deploys : deploys'[d] = deploys[d]
    BY <1>1, <2>1, DeployStep
  <2>4. \A h \in Hosts : Routed(h)' => Routed(h)
    BY <1>1, <2>2, <2>3 DEF Routed
  <2>5. port' \in 0 .. Len(deploys')
    BY <1>1, <2>2, <2>3
  <2> QED
    BY <2>2, <2>4, <2>5 DEF LeadsInv
<1>4. ASSUME NEW d \in DOMAIN deploys, RunContainer(d) \/ FindHealthy(d) \/ RouteDeploy(d) \/ DeployFails(d)
      PROVE LeadsInv' /\ port' \in 0 .. Len(deploys')
  <2>1. PICK from \in DeployStates, to \in DeployStates : DeployMoves(d, from, to)
    BY <1>4 DEF RunContainer, FindHealthy, RouteDeploy, DeployFails, DeployStates
  <2>2. Len(deploys') = Len(deploys) /\ \A e \in DOMAIN deploys \ {d} : deploys'[e] = deploys[e]
    BY <1>1, <2>1, DeployStep
  <2>3. ASSUME deploys'[d].at /= "routed", UNCHANGED <<route, behind>>, port' = port \/ port' = d
        PROVE  LeadsInv'
    <3>1. ASSUME NEW h \in Hosts, Routed(h)' PROVE Routed(h) /\ port' = port
      <4>1. port' /= d
        BY <2>3, <3>1 DEF Routed
      <4> QED
        BY <1>1, <2>2, <2>3, <3>1, <4>1 DEF Routed
    <3> QED
      BY <2>3, <3>1 DEF LeadsInv
  <2>4. CASE RouteDeploy(d)
    <3>1. /\ port' = port /\ deploys'[d].host = deploys[d].host /\ deploys[d].host \in Hosts \union {NoHost}
          /\ \A h \in Hosts : \/ h = deploys[d].host /\ route'[h] = d /\ (behind'[h] <=> port /= d)
                              \/ h /= deploys[d].host /\ route'[h] = route[h] /\ behind'[h] = behind[h]
      <4>1. deploys'[d].host = deploys[d].host /\ deploys[d].host \in Hosts \union {NoHost}
        BY <1>1, <2>1, DeployStep, DeployHosts
      <4>2. port' = port
        BY <2>4 DEF RouteDeploy
      <4>3. ASSUME NEW h \in Hosts, h = deploys[d].host
            PROVE  route'[h] = d /\ (behind'[h] <=> port /= d)
        BY <2>4, <4>3 DEF RouteDeploy
      <4>4. ASSUME NEW h \in Hosts, h /= deploys[d].host
            PROVE  route'[h] = route[h] /\ behind'[h] = behind[h]
        BY <2>4, <4>4 DEF RouteDeploy
      <4> QED
        BY <4>1, <4>2, <4>3, <4>4
    <3>2. ASSUME NEW h \in Hosts, Routed(h)' PROVE route'[h] \in {port', 0} \/ behind'[h]
      <4>1. CASE h = deploys[d].host
        BY <3>1, <4>1
      <4>2. CASE h /= deploys[d].host
        <5>1. port /= d
          BY <3>1, <3>2, <4>2 DEF Routed
        <5>2. Routed(h)
          BY <1>1, <2>2, <3>1, <3>2, <5>1 DEF Routed
        <5> QED
          BY <3>1, <4>2, <5>2 DEF LeadsInv
      <4> QED
        BY <4>1, <4>2
    <3> QED
      BY <1>1, <2>2, <3>1, <3>2 DEF LeadsInv
  <2>5. CASE RunContainer(d)
    <3>1. deploys'[d].at = "running"
      BY <1>1, <2>5, DeployStep DEF RunContainer, DeployStates
    <3> QED
      BY <1>1, <2>2, <2>3, <2>5, <3>1 DEF RunContainer
  <2>6. CASE FindHealthy(d)
    <3>1. deploys'[d].at = "healthy"
      BY <1>1, <2>6, DeployStep DEF FindHealthy, DeployStates
    <3> QED
      BY <1>1, <2>2, <2>3, <2>6, <3>1 DEF FindHealthy
  <2>7. CASE DeployFails(d)
    <3>1. deploys'[d].at = "failed"
      BY <1>1, <2>7, DeployStep DEF DeployFails, DeployStates
    <3> QED
      BY <1>1, <2>2, <2>3, <2>7, <3>1 DEF DeployFails
  <2> QED
    BY <1>4, <2>4, <2>5, <2>6, <2>7
<1>5. CASE UNCHANGED <<deploys, port, route, behind>>
  BY <1>5 DEF LeadsInv, Routed
<1>6. \/ UNCHANGED <<deploys, port, route, behind>>
      \/ (\E c \in configures : ConfigureDomain(c)) \/ PickDomain \/ PickSnapshot
      \/ \E d \in DOMAIN deploys : RunContainer(d) \/ FindHealthy(d) \/ RouteDeploy(d) \/ DeployFails(d)
  <2>1. ASSUME NEW h \in Hosts, \/ ChangeDns(h) \/ CreateDomain(h) \/ AddDomainJob(h) \/ DomainRequestDies(h)
                               \/ VerifyDomain(h) \/ DeleteDomain(h)
        PROVE  UNCHANGED <<deploys, port, route, behind>>
    BY <2>1 DEF ChangeDns, CreateDomain, AddDomainJob, DomainRequestDies, VerifyDomain, DeleteDomain, nodeVars
  <2>2. ASSUME NEW h \in Hosts, NEW j \in Checks,
               \/ StartCheck(h, j) \/ ResolveDomain(h, j) \/ SendConfigure(h, j)
               \/ Activate(h, j) \/ DomainWorkerDies(h, j)
        PROVE  UNCHANGED <<deploys, port, route, behind>>
    BY <2>2 DEF StartCheck, ResolveDomain, SendConfigure, Activate, DomainWorkerDies, nodeVars
  <2>3. ASSUME NEW c \in configures, RefuseConfigure(c) \/ LoseConfigure(c)
        PROVE  UNCHANGED <<deploys, port, route, behind>>
    BY <2>3 DEF RefuseConfigure, LoseConfigure, nodeVars
  <2> QED
    BY <2>1, <2>2, <2>3 DEF DomainsNext
<1> QED
  BY <1>2, <1>3, <1>4, <1>5, <1>6

\* A verification that ends decides the domain, and one that has verified it sends the command
\* before.
LEMMA RoutedKeeps ==
    ASSUME DomainsTypeOK, faults \in Nat, RoutedInv, DomainsNext, faults' = 0
    PROVE  RoutedInv'
<1>1. /\ domain \in [Hosts -> DomainStates] /\ check \in [Hosts -> [Checks -> CheckRows]]
      /\ configures \subseteq Hosts \X Checks \X BOOLEAN
      /\ route \in [Hosts -> Nat \union {-1}] /\ unheeded \in [Hosts -> BOOLEAN] /\ deploys \in Seq(DeployRows)
  BY DEF DomainsTypeOK, DomainStates, CheckRows, DeployRows, DeployStates
<1>2. ~Fault /\ 1 \in Checks
  BY DomainAssumption DEF Fault, Checks
<1>3. ASSUME NEW h \in Hosts, NEW j \in Checks, NEW row, check' = [check EXCEPT ![h][j] = row],
             NEW st, domain' = [domain EXCEPT ![h] = st], UNCHANGED nodeVars,
             \A g \in Hosts : Configured(g) => Configured(g)',
             row.at \notin {"none", "ended"} \/ st \notin {"pending", "verifying", "verified"},
             st = "active" => domain[h] = "active" \/ check[h][j].at = "sent",
             row.at = "sent" => Configured(h)'
      PROVE  RoutedInv'
  <2>1. \A g \in Hosts \ {h} : domain'[g] = domain[g] /\ check'[g] = check[g]
    BY <1>1, <1>3
  <2>2. /\ domain'[h] = st /\ check'[h][j] = row
        /\ \A i \in Checks \ {j} : check'[h][i] = check[h][i]
    BY <1>1, <1>3
  <2>3. ASSUME NEW g \in Hosts, g /= h
        PROVE  /\ domain'[g] \in {"pending", "verifying", "verified"} => Verifying(g)'
               /\ domain'[g] = "active" \/ (\E i \in Checks : check'[g][i].at = "sent") => route'[g] >= 0 \/ Configured(g)' \/ unheeded'[g]
    BY <1>3, <2>1, <2>3 DEF RoutedInv, Verifying, nodeVars
  <2>4. domain'[h] \in {"pending", "verifying", "verified"} => Verifying(h)'
    BY <1>3, <2>2 DEF Verifying
  <2>5. domain'[h] = "active" \/ (\E i \in Checks : check'[h][i].at = "sent") => route'[h] >= 0 \/ Configured(h)' \/ unheeded'[h]
    BY <1>3, <2>2 DEF RoutedInv, nodeVars
  <2> QED
    BY <1>3, <2>3, <2>4, <2>5 DEF RoutedInv, nodeVars
<1>4. ASSUME NEW h \in Hosts, NEW j \in Checks, StartCheck(h, j) PROVE RoutedInv'
  <2>1. [check[h][j] EXCEPT !.at = "checking"].at = "checking" /\ Fresh("ended").at = "ended"
    BY <1>1 DEF Fresh, CheckRows
  <2>2. UNCHANGED <<configures, nodeVars>> /\ \A g \in Hosts : Configured(g) => Configured(g)'
    BY <1>4 DEF StartCheck, Configured
  <2>3. CASE Exists(h)
    <3> DEFINE row == [check[h][j] EXCEPT !.at = "checking"]
    <3>1. check' = [check EXCEPT ![h][j] = row] /\ domain' = [domain EXCEPT ![h] = "verifying"]
      BY <1>4, <2>3 DEF StartCheck
    <3>2. row.at = "checking"
      BY <2>1
    <3> HIDE DEF row
    <3> QED
      BY <1>3, <2>2, <3>1, <3>2
  <2>4. CASE ~Exists(h)
    <3>1. check' = [check EXCEPT ![h][j] = Fresh("ended")] /\ domain' = [domain EXCEPT ![h] = domain[h]]
      BY <1>4, <2>4 DEF StartCheck
    <3>2. domain[h] \in {"none", "gone"}
      BY <2>4 DEF Exists
    <3> QED
      BY <1>3, <2>1, <2>2, <3>1, <3>2
  <2> QED
    BY <2>3, <2>4
<1>5. ASSUME NEW h \in Hosts, NEW j \in Checks, ResolveDomain(h, j) PROVE RoutedInv'
  <2>1. /\ [check[h][j] EXCEPT !.at = "verified"].at = "verified" /\ Fresh("ended").at = "ended"
        /\ \A n : [Fresh("waiting") EXCEPT !.attempt = n].at = "waiting"
    BY <1>1 DEF Fresh, CheckRows
  <2>2. UNCHANGED <<configures, nodeVars>> /\ \A g \in Hosts : Configured(g) => Configured(g)'
    BY <1>5 DEF ResolveDomain, Configured
  <2>3. domain = [domain EXCEPT ![h] = domain[h]]
    BY <1>1
  <2>4. CASE Exists(h)
    <3>1. \/ /\ check' = [check EXCEPT ![h][j] = [check[h][j] EXCEPT !.at = "verified"]]
             /\ domain' = [domain EXCEPT ![h] = "verified"]
          \/ check' = [check EXCEPT ![h][j] = Fresh("ended")] /\ domain' = [domain EXCEPT ![h] = "failed"]
          \/ /\ check' = [check EXCEPT ![h][j] = [Fresh("waiting") EXCEPT !.attempt = check[h][j].attempt + 1]]
             /\ domain' = domain
      BY <1>5, <2>4 DEF ResolveDomain
    <3>2. CASE /\ check' = [check EXCEPT ![h][j] = [check[h][j] EXCEPT !.at = "verified"]]
               /\ domain' = [domain EXCEPT ![h] = "verified"]
      BY <1>3, <2>1, <2>2, <3>2
    <3>3. CASE check' = [check EXCEPT ![h][j] = Fresh("ended")] /\ domain' = [domain EXCEPT ![h] = "failed"]
      BY <1>3, <2>1, <2>2, <3>3
    <3>4. CASE /\ check' = [check EXCEPT ![h][j] = [Fresh("waiting") EXCEPT !.attempt = check[h][j].attempt + 1]]
               /\ domain' = domain
      <4> DEFINE row == [Fresh("waiting") EXCEPT !.attempt = check[h][j].attempt + 1]
      <4>1. check' = [check EXCEPT ![h][j] = row] /\ row.at = "waiting"
        BY <2>1, <3>4
      <4>2. domain' = [domain EXCEPT ![h] = domain[h]]
        BY <2>3, <3>4
      <4> HIDE DEF row
      <4> QED
        BY <1>3, <2>2, <4>1, <4>2
    <3> QED
      BY <3>1, <3>2, <3>3, <3>4
  <2>5. CASE ~Exists(h)
    <3>1. \/ check' = [check EXCEPT ![h][j] = Fresh("ended")]
          \/ check' = [check EXCEPT ![h][j] = [Fresh("waiting") EXCEPT !.attempt = check[h][j].attempt + 1]]
      BY <1>5, <2>5 DEF ResolveDomain
    <3>2. domain' = [domain EXCEPT ![h] = domain[h]]
      BY <1>5, <2>3, <2>5 DEF ResolveDomain
    <3>3. domain[h] \in {"none", "gone"}
      BY <2>5 DEF Exists
    <3>4. CASE check' = [check EXCEPT ![h][j] = Fresh("ended")]
      BY <1>3, <2>1, <2>2, <3>2, <3>3, <3>4
    <3>5. CASE check' = [check EXCEPT ![h][j] = [Fresh("waiting") EXCEPT !.attempt = check[h][j].attempt + 1]]
      BY <1>3, <2>1, <2>2, <3>2, <3>3, <3>5
    <3> QED
      BY <3>1, <3>4, <3>5
  <2> QED
    BY <2>4, <2>5
<1>6. ASSUME NEW h \in Hosts, NEW j \in Checks, SendConfigure(h, j) PROVE RoutedInv'
  <2>1. /\ check' = [check EXCEPT ![h][j] = [check[h][j] EXCEPT !.at = "sent"]]
        /\ configures' = configures \union {<<h, j, check[h][j].again>>}
        /\ domain' = domain /\ UNCHANGED nodeVars
    BY <1>6 DEF SendConfigure
  <2>2. [check[h][j] EXCEPT !.at = "sent"].at = "sent" /\ domain' = [domain EXCEPT ![h] = domain[h]]
    BY <1>1, <2>1 DEF CheckRows
  <2>3. Configured(h)' /\ \A g \in Hosts : Configured(g) => Configured(g)'
    <3> DEFINE sending == <<h, j, check[h][j].again>>
    <3>1. sending[1] = h /\ configures' = configures \union {sending}
      BY <2>1
    <3> HIDE DEF sending
    <3> QED
      BY <3>1 DEF Configured
  <2> QED
    BY <1>3, <2>1, <2>2, <2>3
<1>7. ASSUME NEW h \in Hosts, NEW j \in Checks, Activate(h, j) PROVE RoutedInv'
  <2>1. /\ check[h][j].at = "sent" /\ check' = [check EXCEPT ![h][j] = Fresh("ended")]
        /\ UNCHANGED <<configures, nodeVars>> /\ Fresh("ended").at = "ended"
    BY <1>7 DEF Activate, Fresh
  <2>2. \E st : /\ domain' = [domain EXCEPT ![h] = st] /\ st \notin {"pending", "verifying", "verified"}
    <3>1. Exists(h) => domain' = [domain EXCEPT ![h] = "active"]
      BY <1>7 DEF Activate
    <3>2. ~Exists(h) => domain' = [domain EXCEPT ![h] = domain[h]] /\ domain[h] \in {"none", "gone"}
      BY <1>7 DEF Activate, Exists
    <3> QED
      BY <3>1, <3>2
  <2>3. \A g \in Hosts : Configured(g) => Configured(g)'
    BY <2>1 DEF Configured
  <2> QED
    BY <1>3, <2>1, <2>2, <2>3
<1>8. ASSUME NEW h \in Hosts, CreateDomain(h) \/ AddDomainJob(h) \/ VerifyDomain(h) PROVE RoutedInv'
  <2>1. PICK j \in Checks, st \in {"asked", "waiting"} : check' = [check EXCEPT ![h][j] = [check[h][j] EXCEPT !.at = st]]
    BY <1>2, <1>8 DEF CreateDomain, AddDomainJob, VerifyDomain
  <2>2. [check[h][j] EXCEPT !.at = st].at = st
    BY <1>1 DEF CheckRows
  <2>3. UNCHANGED <<configures, nodeVars>> /\ \A g \in Hosts : Configured(g) => Configured(g)'
    BY <1>8 DEF CreateDomain, AddDomainJob, VerifyDomain, Configured
  <2>4. \E new : domain' = [domain EXCEPT ![h] = new] /\ (new = "active" => domain[h] = "active")
    <3>1. domain' = domain \/ domain' = [domain EXCEPT ![h] = "pending"]
      BY <1>8 DEF CreateDomain, AddDomainJob, VerifyDomain
    <3>2. domain = [domain EXCEPT ![h] = domain[h]]
      BY <1>1
    <3> QED
      BY <3>1, <3>2
  <2>5. PICK new : domain' = [domain EXCEPT ![h] = new] /\ (new = "active" => domain[h] = "active")
    BY <2>4
  <2> DEFINE row == [check[h][j] EXCEPT !.at = st]
  <2>6. check' = [check EXCEPT ![h][j] = row] /\ row.at \in {"asked", "waiting"}
    BY <2>1, <2>2
  <2> HIDE DEF row
  <2> QED
    BY <1>3, <2>3, <2>5, <2>6
<1>9. ASSUME NEW h \in Hosts, ChangeDns(h) PROVE RoutedInv'
  BY <1>9 DEF ChangeDns, RoutedInv, Verifying, Configured, nodeVars
<1>10. ASSUME NEW h \in Hosts, DeleteDomain(h) PROVE RoutedInv'
  <2>1. UNCHANGED <<check, configures, nodeVars>> /\ \A g \in Hosts : domain'[g] = domain[g] \/ domain'[g] = "gone"
    BY <1>1, <1>10 DEF DeleteDomain
  <2> QED
    BY <2>1 DEF RoutedInv, Verifying, Configured, nodeVars
<1>11. ASSUME NEW c \in configures, ConfigureDomain(c) \/ RefuseConfigure(c) PROVE RoutedInv'
  <2>1. /\ configures' = configures \ {c} /\ UNCHANGED <<domain, check>>
        /\ \A g \in Hosts : /\ g = c[1] => route'[g] >= 0 \/ unheeded'[g]
                            /\ g /= c[1] => route'[g] = route[g] /\ unheeded'[g] = unheeded[g]
    <3>1. CASE ConfigureDomain(c)
      BY <1>1, <3>1 DEF ConfigureDomain
    <3>2. CASE RefuseConfigure(c)
      BY <1>1, <3>2 DEF RefuseConfigure
    <3> QED
      BY <1>11, <3>1, <3>2
  <2>2. \A g \in Hosts : g /= c[1] => (Configured(g) => Configured(g)')
    BY <2>1 DEF Configured
  <2> QED
    BY <2>1, <2>2 DEF RoutedInv, Verifying
<1>12. CASE PickDomain \/ PickSnapshot
  <2>1. UNCHANGED <<domain, check, configures, route, unheeded>>
    BY <1>12 DEF PickDomain, PickSnapshot, BeginDeploy
  <2> QED
    BY <2>1 DEF RoutedInv, Verifying, Configured
<1>13. ASSUME NEW d \in DOMAIN deploys, RunContainer(d) \/ FindHealthy(d) \/ RouteDeploy(d) \/ DeployFails(d)
       PROVE RoutedInv'
  <2>1. UNCHANGED <<domain, check, configures, unheeded>>
    BY <1>13 DEF RunContainer, FindHealthy, RouteDeploy, DeployFails, DeployMoves
  <2>2. \A h \in Hosts : route[h] >= 0 => route'[h] >= 0
    BY <1>1, <1>13 DEF RunContainer, FindHealthy, RouteDeploy, DeployFails
  <2> QED
    BY <2>1, <2>2 DEF RoutedInv, Verifying, Configured
<1> QED
  BY <1>2, <1>4, <1>5, <1>6, <1>7, <1>8, <1>9, <1>10, <1>11, <1>12, <1>13
  DEF DomainsNext, DomainRequestDies, DomainWorkerDies, LoseConfigure

\* It holds of the domains and of the proxy at every moment.
LEMMA DomainsKept == DomainsSpec => []DomainsInv
<1>1. DomainsInit /\ faults = 0 => DomainsInv
  <2> SUFFICES ASSUME DomainsInit, faults = 0 PROVE DomainsInv
    OBVIOUS
  <2>1. Fresh("none") \in CheckRows /\ Fresh("none").at = "none"
    BY CheckWritten DEF CheckStates, Fresh
  <2>2. DomainsTypeOK
    <3>1. check \in [Hosts -> [Checks -> CheckRows]]
      BY <2>1 DEF DomainsInit
    <3> QED
      BY <3>1, DomainAssumption DEF DomainsInit, DomainsTypeOK, CheckRows
  <2>5. LeadsInv /\ port \in 0 .. Len(deploys)
    BY DEF DomainsInit, LeadsInv, Routed
  <2>3. PointedInv
    BY <2>1, DomainAssumption DEF DomainsInit, PointedInv, Configured
  <2>4. RoutedInv
    BY <2>1, DomainAssumption DEF DomainsInit, RoutedInv, Configured
  <2> QED
    BY <2>2, <2>3, <2>4, <2>5 DEF DomainsInv
<1>2. DomainsInv /\ [DomainsNext]_<<domainVars, faults>> => DomainsInv'
  <2> SUFFICES ASSUME DomainsInv, [DomainsNext]_<<domainVars, faults>> PROVE DomainsInv'
    OBVIOUS
  <2>1. CASE UNCHANGED <<domainVars, faults>>
    BY <2>1 DEF domainVars, DomainsInv, DomainsTypeOK, PointedInv, RoutedInv, LeadsInv, Configured, Verifying, Routed
  <2>2. CASE DomainsNext
    <3>1. faults' = faults \/ faults' = faults + 1
      <4>1. ASSUME NEW h \in Hosts, \/ ChangeDns(h) \/ CreateDomain(h) \/ AddDomainJob(h) \/ DomainRequestDies(h)
                                   \/ VerifyDomain(h) \/ DeleteDomain(h)
            PROVE  faults' = faults \/ faults' = faults + 1
        BY <4>1 DEF ChangeDns, CreateDomain, AddDomainJob, DomainRequestDies, VerifyDomain, DeleteDomain, Fault
      <4>2. ASSUME NEW h \in Hosts, NEW j \in Checks,
                   \/ StartCheck(h, j) \/ ResolveDomain(h, j) \/ SendConfigure(h, j)
                   \/ Activate(h, j) \/ DomainWorkerDies(h, j)
            PROVE  faults' = faults \/ faults' = faults + 1
        BY <4>2 DEF StartCheck, ResolveDomain, SendConfigure, Activate, DomainWorkerDies, Fault
      <4>3. ASSUME NEW c \in configures, ConfigureDomain(c) \/ RefuseConfigure(c) \/ LoseConfigure(c)
            PROVE  faults' = faults \/ faults' = faults + 1
        BY <4>3 DEF ConfigureDomain, RefuseConfigure, LoseConfigure, Fault
      <4>4. CASE \/ PickDomain \/ PickSnapshot
                 \/ \E d \in DOMAIN deploys : RunContainer(d) \/ FindHealthy(d) \/ RouteDeploy(d) \/ DeployFails(d)
        BY <4>4 DEF PickDomain, PickSnapshot, BeginDeploy, RunContainer, FindHealthy, RouteDeploy, DeployFails, DeployMoves
      <4> QED
        BY <2>2, <4>1, <4>2, <4>3, <4>4 DEF DomainsNext
    <3>2. faults' \in Nat /\ (faults' = 0 => faults = 0)
      BY <3>1 DEF DomainsInv
    <3> QED
      BY <2>2, <3>2, DomainsTypeKeeps, PointedKeeps, LeadsKeeps, RoutedKeeps DEF DomainsInv
  <2> QED
    BY <2>1, <2>2
<1> QED
  BY <1>1, <1>2, PTL DEF DomainsSpec

\* A host is routed only if its record once pointed to the node; a domain of which nothing is
\* under way was decided, and an active one has a route, unless the node refused it; where the
\* deploy of the container has routed it, the route leads there, unless another came later
\* (processors/domain.ts, spec.ts buildContainerSpec, executor.rs deploy_app).
THEOREM DomainsAreRouted == DomainsSpec => []RoutesLead
<1>1. DomainsInv => RoutesLead
  <2> SUFFICES ASSUME DomainsInv, NEW h \in Hosts
               PROVE  /\ route[h] >= 0 => pointed[h]
                      /\ DomainAtRest(h) /\ Exists(h) /\ faults = 0 =>
                          /\ domain[h] \in {"active", "failed"}
                          /\ domain[h] = "active" =>
                              /\ route[h] >= 0 \/ unheeded[h]
                              /\ Routed(h) => route[h] \in {port, 0} \/ behind[h]
    BY DEF RoutesLead
  <2>1. (route[h] >= 0 => pointed[h]) /\ (Routed(h) => route[h] \in {port, 0} \/ behind[h])
    BY DEF DomainsInv, PointedInv, LeadsInv
  <2>2. ASSUME DomainAtRest(h), Exists(h), faults = 0
        PROVE  /\ domain[h] \in {"active", "failed"}
               /\ domain[h] = "active" => route[h] >= 0 \/ unheeded[h]
    <3>1. ~Verifying(h) /\ ~Configured(h)
      BY <2>2 DEF DomainAtRest, Verifying, Configured
    <3>2. domain[h] \in {"pending", "verifying", "verified", "active", "failed"}
      BY <2>2 DEF DomainsInv, DomainsTypeOK, Exists
    <3> QED
      BY <2>2, <3>1, <3>2 DEF DomainsInv, RoutedInv
  <2> QED
    BY <2>1, <2>2
<1> QED
  BY DomainsKept, <1>1, PTL

-----------------------------------------------------------------------------
(* The page of a deployment. Every write of a row is followed by an event  *)
(* of status, unless its writer is lost or is the safety net; and what an  *)
(* event tells is so.  Lines arrive in the order of their numbers, so that *)
(* what the page no longer keeps is older than all that it keeps.          *)

OnWire(e) == \E k \in DOMAIN wire : wire[k] = e

\* The job has given its command to the node, or ended otherwise.
Dispatched == worker.at \in {"announce", "schedule", "done", "caught", "failRun", "fail", "tell", "failed", "dead"}
\* The node has said how it ended.
NodeOver == node.at \in {"explain", "close", "tell", "done", "lost"}

\* Who still writes a stage, and which are over.
PipeStageInv ==
    /\ worker.stage \in 1 .. Deploy
    /\ worker.at = "store" => worker.stage = Package
    /\ worker.at = "finish" => worker.stage <= Package
    /\ worker.at = "dispatch" => worker.stage = Deploy
    /\ worker.at \in {"queued", "created", "greet"} => worker.stage = 1
    /\ worker.at \in {"start", "store", "finish", "dispatch"} =>
        \A i \in Stages : i < worker.stage => stages[i] = "succeeded"
    /\ node.at /= "none" => Dispatched /\ \A i \in Stages : i < Deploy => stages[i] = "succeeded"
    /\ worker.at \in {"announce", "schedule", "done"} => node.at /= "none"
    /\ worker.at /= "done" => net = "none"
    /\ node.at \in {"none", "asked", "started", "building", "built", "explain"} => node.stage = Deploy
    /\ node.success => node.at \in {"close", "tell", "done", "lost"}
    /\ node.at \in {"close", "tell", "done"} =>
        \A i \in Stages : i \in Deploy .. node.stage - 1 =>
            stages[i] \in (IF node.success THEN {"succeeded"} ELSE {"failed", "skipped"})
    /\ node.at \in {"tell", "done"} => node.stage = 7
    /\ run = "succeeded" =>
        /\ node.at \in {"tell", "done", "lost"} /\ node.stage = 7
        /\ \A i \in Stages : stages[i] = "succeeded"

\* What was said is so.
SaidInv ==
    /\ status = "running" \/ verdict = "running" \/ OnWire(<<"status", "running">>) => node.success
    /\ node.at \in {"explain", "close", "tell", "done"} /\ ~node.success => status = "failed"
    /\ status = "failed" \/ verdict = "failed" \/ OnWire(<<"status", "failed">>) =>
        \/ worker.at \in {"tell", "failed", "dead"} \/ net \in {"close", "failed"}
        \/ NodeOver /\ status = "failed"

\* An event of status is on its way, or will be.
Coming ==
    \/ \E s \in {"deploying", "running", "failed"} : OnWire(<<"status", s>>)
    \/ worker.at \in {"queued", "created", "greet", "start", "store", "finish", "dispatch", "announce",
                      "caught", "failRun", "fail", "tell"}
    \/ node.at \in {"started", "building", "built", "explain", "close", "tell"} \/ net = "close"

\* The page shows line p, or has shown it and dropped it for later ones.
Brought(p) == p \in Shown \/ Displaced(p)

IsLine(k) == wire[k][1] = "line"
LinesInv ==
    /\ \A i, j \in DOMAIN liveLines : i < j => liveLines[i] < liveLines[j]
    /\ \A i \in DOMAIN liveLines, k \in DOMAIN wire : IsLine(k) => liveLines[i] < wire[k][2]
    /\ \A k, l \in DOMAIN wire : k < l /\ IsLine(k) /\ IsLine(l) => wire[k][2] < wire[l][2]
    /\ ~listed => logs = {}

PageInv ==
    watcher = "page" =>
        /\ stream /= "closed" /\ (listed => stream /= "none")
        /\ \A p \in DOMAIN log : log[p] = "failure" \/ Brought(p) \/ unheard \/ OnWire(<<"line", p>>)
        /\ stream /= "none" /\ ~missed /\ ~Untold /\ ~Coming =>
            /\ reading.at = "none" => view.deployment /\ view.run
            /\ reading.at = "half" => reading.read.deployment

CommandInv ==
    watcher = "command" =>
        /\ reading.at = "none"
        /\ (worker.at = "failed" \/ node.at = "done") /\ ~missed /\ stream /= "closed" =>
            OnWire(<<"status", "running">>) \/ OnWire(<<"status", "failed">>)

Workers == [at : {"queued", "created", "greet", "start", "store", "finish", "dispatch", "announce",
                  "schedule", "done", "caught", "failRun", "fail", "tell", "failed", "dead"}, stage : Stages]
Reports == [at : {"none", "asked", "started", "building", "built", "explain", "close", "tell", "done", "lost"},
            stage : Deploy .. 7, success : BOOLEAN]
StageRows == [Stages -> {"none", "pending", "running", "succeeded", "failed", "skipped"}]

PipeTypes ==
    /\ worker \in Workers /\ node \in Reports /\ stages \in StageRows
    /\ run \in {"none", "running", "succeeded", "failed"}
    /\ status \in {"queued", "building", "deploying", "running", "failed"}
    /\ net \in {"none", "waiting", "log", "fail", "close", "done", "failed"}

\* The types of the rows and of who writes them, and what is known of the stages.
LEMMA PipelineStages ==
    ASSUME PipeTypes, PipeStageInv, PipelineNext
    PROVE  PipeTypes' /\ PipeStageInv'
<1>1. /\ worker \in Workers /\ node \in Reports /\ stages \in StageRows
      /\ run \in {"none", "running", "succeeded", "failed"}
      /\ status \in {"queued", "building", "deploying", "running", "failed"}
      /\ net \in {"none", "waiting", "log", "fail", "close", "done", "failed"}
      /\ Stages = 1 .. 6 /\ Package = 3 /\ Deploy = 4
  BY DEF PipeTypes, Stages, Package, Deploy
<1>2. CASE CreateRun
  BY <1>1, <1>2 DEF CreateRun, WorkerAt, NodeAt, NetAt, PipeTypes, PipeStageInv, Workers, Reports, StageRows,
                   Dispatched
<1>3. CASE MarkBuilding
  BY <1>1, <1>3 DEF MarkBuilding, WorkerAt, NodeAt, NetAt, PipeTypes, PipeStageInv, Workers, Reports, StageRows,
                   Dispatched
<1>4. CASE Greet
  BY <1>1, <1>4 DEF Greet, WorkerAt, NodeAt, NetAt, PipeTypes, PipeStageInv, Workers, Reports, StageRows,
                   Dispatched
<1>5. CASE StartStage
  BY <1>1, <1>5 DEF StartStage, WorkerAt, NodeAt, NetAt, PipeTypes, PipeStageInv, Workers, Reports, StageRows,
                   Dispatched
<1>6. CASE StoreSpec
  BY <1>1, <1>6 DEF StoreSpec, WorkerAt, NodeAt, NetAt, PipeTypes, PipeStageInv, Workers, Reports, StageRows,
                   Dispatched
<1>7. CASE FinishStage
  BY <1>1, <1>7 DEF FinishStage, WorkerAt, NodeAt, NetAt, PipeTypes, PipeStageInv, Workers, Reports, StageRows,
                   Dispatched
<1>8. CASE StageFails
  BY <1>1, <1>8 DEF StageFails, WorkerAt, NodeAt, NetAt, PipeTypes, PipeStageInv, Workers, Reports, StageRows,
                   Dispatched
<1>9. CASE DispatchCommand
  BY <1>1, <1>9 DEF DispatchCommand, WorkerAt, NodeAt, NetAt, PipeTypes, PipeStageInv, Workers, Reports, StageRows,
                   Dispatched
<1>10. CASE AnnounceDeploy
  BY <1>1, <1>10 DEF AnnounceDeploy, WorkerAt, NodeAt, NetAt, PipeTypes, PipeStageInv, Workers, Reports, StageRows,
                   Dispatched
<1>11. CASE ScheduleNet
  BY <1>1, <1>11 DEF ScheduleNet, WorkerAt, NodeAt, NetAt, PipeTypes, PipeStageInv, Workers, Reports, StageRows,
                   Dispatched
<1>12. CASE WorkerThrows
  BY <1>1, <1>12 DEF WorkerThrows, WorkerAt, NodeAt, NetAt, PipeTypes, PipeStageInv, Workers, Reports, StageRows,
                   Dispatched
<1>13. CASE LogError
  BY <1>1, <1>13 DEF LogError, WorkerAt, NodeAt, NetAt, PipeTypes, PipeStageInv, Workers, Reports, StageRows,
                   Dispatched
<1>14. CASE FailRun
  BY <1>1, <1>14 DEF FailRun, WorkerAt, NodeAt, NetAt, PipeTypes, PipeStageInv, Workers, Reports, StageRows,
                   Dispatched
<1>15. CASE FailDeployment
  BY <1>1, <1>15 DEF FailDeployment, WorkerAt, NodeAt, NetAt, PipeTypes, PipeStageInv, Workers, Reports, StageRows,
                   Dispatched
<1>16. CASE TellFailure
  BY <1>1, <1>16 DEF TellFailure, WorkerAt, NodeAt, NetAt, PipeTypes, PipeStageInv, Workers, Reports, StageRows,
                   Dispatched
<1>17. CASE DeployJobDies
  BY <1>1, <1>17 DEF DeployJobDies, WorkerAt, NodeAt, NetAt, PipeTypes, PipeStageInv, Workers, Reports, StageRows,
                   Dispatched
<1>18. CASE ReportRunning
  BY <1>1, <1>18 DEF ReportRunning, WorkerAt, NodeAt, NetAt, PipeTypes, PipeStageInv, Workers, Reports, StageRows,
                   Dispatched
<1>19. CASE PublishRunning
  BY <1>1, <1>19 DEF PublishRunning, WorkerAt, NodeAt, NetAt, PipeTypes, PipeStageInv, Workers, Reports, StageRows,
                   Dispatched
<1>20. CASE PostLogs
  BY <1>1, <1>20 DEF PostLogs, WorkerAt, NodeAt, NetAt, PipeTypes, PipeStageInv, Workers, Reports, StageRows,
                   Dispatched
<1>21. CASE ReportResult
  <2>1. UNCHANGED <<run, stages, worker, net>>
    BY <1>21 DEF ReportResult
  <2>2. CASE node.at = "built" /\ node' = [node EXCEPT !.at = "close", !.success = TRUE] /\ status' = "running"
    <3>1. /\ node' \in Reports /\ node'.at = "close" /\ node'.success /\ node'.stage = 4
          /\ \A i \in Stages : ~(i \in 4 .. node'.stage - 1)
      <4>1. node.stage = 4
        BY <1>1, <2>2 DEF PipeStageInv
      <4>2. node' \in Reports
        BY <1>1, <2>2 DEF Reports
      <4>3. node'.at = "close" /\ node'.success /\ node'.stage = 4
        BY <1>1, <2>2, <4>1 DEF Reports
      <4> QED
        BY <4>2, <4>3
    <3> QED
      BY <1>1, <2>1, <2>2, <3>1 DEF PipeTypes, PipeStageInv, Dispatched
  <2>3. CASE node.at \in {"building", "built"} /\ node' = [node EXCEPT !.at = "explain"] /\ status' = "failed"
    BY <1>1, <2>1, <2>3 DEF PipeTypes, PipeStageInv, Workers, Reports, StageRows, Dispatched
  <2> QED
    BY <1>21, <2>2, <2>3 DEF ReportResult, NodeAt
<1>22. CASE LogFailure
  BY <1>1, <1>22 DEF LogFailure, WorkerAt, NodeAt, NetAt, PipeTypes, PipeStageInv, Workers, Reports, StageRows,
                   Dispatched
<1>23. CASE CloseStage
  BY <1>1, <1>23 DEF CloseStage, WorkerAt, NodeAt, NetAt, PipeTypes, PipeStageInv, Workers, Reports, StageRows,
                   Dispatched
<1>24. CASE CloseRun
  BY <1>1, <1>24 DEF CloseRun, WorkerAt, NodeAt, NetAt, PipeTypes, PipeStageInv, Workers, Reports, StageRows,
                   Dispatched
<1>25. CASE PublishResult
  BY <1>1, <1>25 DEF PublishResult, WorkerAt, NodeAt, NetAt, PipeTypes, PipeStageInv, Workers, Reports, StageRows,
                   Dispatched
<1>26. CASE NodeLost \/ GiveUpRunning
  BY <1>1, <1>26 DEF NodeLost, GiveUpRunning, WorkerAt, NodeAt, NetAt, PipeTypes, PipeStageInv, Workers, Reports, StageRows,
                   Dispatched
<1>27. CASE CheckDeployment
  BY <1>1, <1>27 DEF CheckDeployment, WorkerAt, NodeAt, NetAt, PipeTypes, PipeStageInv, Workers, Reports, StageRows,
                   Dispatched
<1>28. CASE LogTimeout
  BY <1>1, <1>28 DEF LogTimeout, WorkerAt, NodeAt, NetAt, PipeTypes, PipeStageInv, Workers, Reports, StageRows,
                   Dispatched
<1>29. CASE NetFails
  BY <1>1, <1>29 DEF NetFails, WorkerAt, NodeAt, NetAt, PipeTypes, PipeStageInv, Workers, Reports, StageRows,
                   Dispatched
<1>30. CASE NetCloses
  BY <1>1, <1>30 DEF NetCloses, WorkerAt, NodeAt, NetAt, PipeTypes, PipeStageInv, Workers, Reports, StageRows,
                   Dispatched
<1> QED
  BY <1>2, <1>3, <1>4, <1>5, <1>6, <1>7, <1>8, <1>9, <1>10, <1>11, <1>12, <1>13, <1>14, <1>15, <1>16, <1>17, <1>18, <1>19, <1>20, <1>21, <1>22, <1>23, <1>24, <1>25, <1>26, <1>27, <1>28, <1>29, <1>30 DEF PipelineNext

Writers == {"worker", "node", "error", "failure", "net"}
Told == {"deploying", "running", "failed"}
Events == {"line"} \X (1 .. Len(log)) \union {"status"} \X Told

\* An event that is sent is added to what is on the wire.
LEMMA WireSends ==
    ASSUME NEW S, wire \in Seq(S), NEW e \in S, wire' = Append(wire, e)
    PROVE  wire' \in Seq(S) /\ \A f : OnWire(f)' <=> OnWire(f) \/ f = e
<1>1. /\ wire' \in Seq(S) /\ DOMAIN wire' = 1 .. Len(wire) + 1 /\ DOMAIN wire = 1 .. Len(wire) /\ Len(wire) \in Nat
      /\ wire'[Len(wire) + 1] = e /\ \A k \in 1 .. Len(wire) : wire'[k] = wire[k]
  OBVIOUS
<1> QED
  BY <1>1 DEF OnWire

\* The event that arrives is all that leaves the wire, if another like it is not on it.
LEMMA WireTakes ==
    ASSUME NEW S, wire \in Seq(S), wire /= <<>>, wire' = Tail(wire)
    PROVE  /\ wire' \in Seq(S) /\ Head(wire) \in S /\ OnWire(Head(wire))
           /\ \A f : (OnWire(f)' => OnWire(f)) /\ (OnWire(f) => OnWire(f)' \/ f = Head(wire))
<1>1. /\ wire' \in Seq(S) /\ DOMAIN wire' = 1 .. Len(wire) - 1 /\ DOMAIN wire = 1 .. Len(wire)
      /\ Len(wire) \in Nat /\ Len(wire) >= 1
      /\ Head(wire) = wire[1] /\ wire[1] \in S
      /\ \A k \in 1 .. Len(wire) - 1 : wire'[k] = wire[k + 1]
  OBVIOUS
<1>2. \A k \in 1 .. Len(wire) : k = 1 \/ k - 1 \in 1 .. Len(wire) - 1
  BY <1>1
<1>3. \A k \in 1 .. Len(wire) - 1 : k + 1 \in 1 .. Len(wire)
  BY <1>1
<1>4. ASSUME NEW f, OnWire(f)' PROVE OnWire(f)
  <2> PICK k \in DOMAIN wire' : wire'[k] = f
    BY <1>4 DEF OnWire
  <2> QED
    BY <1>1, <1>3 DEF OnWire
<1>5. ASSUME NEW f, OnWire(f), f /= Head(wire) PROVE OnWire(f)'
  <2> PICK k \in DOMAIN wire : wire[k] = f
    BY <1>5 DEF OnWire
  <2>1. k - 1 \in 1 .. Len(wire) - 1 /\ wire'[k - 1] = f
    BY <1>1, <1>2, <1>5
  <2> QED
    BY <1>1, <2>1 DEF OnWire
<1>6. OnWire(Head(wire))
  <2>1. 1 \in DOMAIN wire /\ wire[1] = Head(wire)
    BY <1>1
  <2> QED
    BY <2>1 DEF OnWire
<1>7. wire' \in Seq(S) /\ Head(wire) \in S
  BY <1>1
<1> QED
  BY <1>4, <1>5, <1>6, <1>7

\* What an event says of itself.
LEMMA EventFacts ==
    ASSUME NEW e \in Events
    PROVE  /\ e[1] = "line" => e = <<"line", e[2]>> /\ e[2] \in 1 .. Len(log)
           /\ e[1] = "status" => e = <<"status", e[2]>> /\ e[2] \in Told
           /\ e[1] \in {"line", "status"}
BY DEF Events

\* A line that is stored takes the next number; what is on the wire stays an event.
LEMMA LogGrows ==
    ASSUME log \in Seq(Writers), wire \in Seq(Events), NEW who \in Writers, log' = Append(log, who)
    PROVE  /\ log' \in Seq(Writers) /\ wire \in Seq(Events') /\ Len(log') = Len(log) + 1
           /\ DOMAIN log' = DOMAIN log \union {Len(log) + 1} /\ log'[Len(log) + 1] = who
           /\ \A p \in DOMAIN log : log'[p] = log[p]
           /\ <<"line", Len(log) + 1>> \in Events'
<1>1. /\ log' \in Seq(Writers) /\ Len(log) \in Nat /\ Len(log') = Len(log) + 1
      /\ DOMAIN log' = DOMAIN log \union {Len(log) + 1} /\ log'[Len(log) + 1] = who
      /\ \A p \in DOMAIN log : log'[p] = log[p]
  OBVIOUS
<1>2. 1 .. Len(log) \subseteq 1 .. Len(log') /\ Len(log) + 1 \in 1 .. Len(log')
  BY <1>1
<1>3. Events \subseteq Events' /\ <<"line", Len(log) + 1>> \in Events'
  BY <1>2 DEF Events
<1>4. wire \in Seq(Events')
  BY <1>3
<1> QED
  BY <1>1, <1>3, <1>4

WatchTypes ==
    /\ log \in Seq(Writers) /\ wire \in Seq(Events)
    /\ logs \subseteq DOMAIN log /\ liveLines \in Seq(1 .. Len(log))
    /\ watcher \in {"page", "command"} /\ stream \in {"none", "off", "on", "closed"}
    /\ verdict \in {"none", "queued", "building", "deploying", "running", "failed"}
    /\ reading \in [at : {"none", "asked", "half"}, read : [deployment : BOOLEAN, run : BOOLEAN]]
    /\ view \in [deployment : BOOLEAN, run : BOOLEAN]
    /\ listed \in BOOLEAN /\ missed \in BOOLEAN /\ unheard \in BOOLEAN

\* The writes of the log and the events of the pipeline.
SendsStatus(s) == UNCHANGED log /\ wire' = Append(wire, <<"status", s>>)
Sends ==
    \/ UNCHANGED <<log, wire>>
    \/ UNCHANGED wire /\ log' = Append(log, "failure")
    \/ \E who \in Writers : log' = Append(log, who) /\ wire' = Append(wire, <<"line", Len(log) + 1>>)
    \/ \E s \in Told : SendsStatus(s)

\* Every action of the pipeline stores and sends at most one thing.
LEMMA PipelineSends == PipelineNext => Sends
<1> SUFFICES ASSUME PipelineNext PROVE Sends
  OBVIOUS
<1>1. CASE \/ CreateRun \/ MarkBuilding \/ StartStage \/ StoreSpec \/ FinishStage \/ StageFails
           \/ DispatchCommand \/ ScheduleNet \/ WorkerThrows \/ FailRun \/ FailDeployment
           \/ DeployJobDies \/ ReportRunning \/ ReportResult \/ CloseStage \/ CloseRun
           \/ GiveUpRunning \/ NodeLost \/ CheckDeployment \/ NetFails \/ NetCloses
  BY <1>1 DEF CreateRun, MarkBuilding, StartStage, StoreSpec, FinishStage, StageFails, DispatchCommand, ScheduleNet, WorkerThrows, FailRun,
              FailDeployment, DeployJobDies, ReportRunning, GiveUpRunning, ReportResult, CloseStage, CloseRun, NodeLost, CheckDeployment, NetFails, NetCloses,
              Sends
<1>2. CASE Greet
  BY <1>2 DEF Greet, AppendLine, Writers, Sends
<1>3. CASE LogError
  BY <1>3 DEF LogError, AppendLine, Writers, Sends
<1>4. CASE PostLogs
  BY <1>4 DEF PostLogs, AppendLine, Writers, Sends
<1>5. CASE LogTimeout
  BY <1>5 DEF LogTimeout, AppendLine, Writers, Sends
<1>6. CASE AnnounceDeploy
  BY <1>6 DEF AnnounceDeploy, PublishStatus, Told, Sends, SendsStatus
<1>7. CASE TellFailure
  BY <1>7 DEF TellFailure, PublishStatus, Told, Sends, SendsStatus
<1>8. CASE PublishRunning
  BY <1>8 DEF PublishRunning, PublishStatus, Told, Sends, SendsStatus
<1>9. CASE PublishResult
  BY <1>9 DEF PublishResult, PublishStatus, Told, Sends, SendsStatus
<1>10. CASE LogFailure
  BY <1>10 DEF LogFailure, Sends
<1> QED
  BY <1>1, <1>2, <1>3, <1>4, <1>5, <1>6, <1>7, <1>8, <1>9, <1>10 DEF PipelineNext

\* What that does to the log and to the wire.
LEMMA SendsKeep ==
    ASSUME log \in Seq(Writers), wire \in Seq(Events), Sends
    PROVE  /\ log' \in Seq(Writers) /\ wire' \in Seq(Events') /\ DOMAIN log \subseteq DOMAIN log'
           /\ \A e : OnWire(e) => OnWire(e)'
           /\ \A s : OnWire(<<"status", s>>)' => OnWire(<<"status", s>>) \/ SendsStatus(s)
           /\ \A p \in DOMAIN log' : \/ p \in DOMAIN log /\ log'[p] = log[p]
                                     \/ log'[p] = "failure" \/ OnWire(<<"line", p>>)'
<1>1. CASE UNCHANGED <<log, wire>>
  BY <1>1 DEF OnWire, Events
<1>2. CASE UNCHANGED wire /\ log' = Append(log, "failure")
  <2>1. "failure" \in Writers
    BY DEF Writers
  <2> QED
    BY <1>2, <2>1, LogGrows DEF OnWire
<1>3. ASSUME NEW who \in Writers, log' = Append(log, who), wire' = Append(wire, <<"line", Len(log) + 1>>)
      PROVE  /\ log' \in Seq(Writers) /\ wire' \in Seq(Events') /\ DOMAIN log \subseteq DOMAIN log'
             /\ \A e : OnWire(e) => OnWire(e)'
             /\ \A s : OnWire(<<"status", s>>)' => OnWire(<<"status", s>>)
             /\ \A p \in DOMAIN log' : (p \in DOMAIN log /\ log'[p] = log[p]) \/ OnWire(<<"line", p>>)'
  <2>1. /\ log' \in Seq(Writers) /\ wire \in Seq(Events') /\ DOMAIN log' = DOMAIN log \union {Len(log) + 1}
        /\ \A p \in DOMAIN log : log'[p] = log[p]
        /\ <<"line", Len(log) + 1>> \in Events'
    BY <1>3, LogGrows
  <2>2. wire' \in Seq(Events') /\ \A f : OnWire(f)' <=> OnWire(f) \/ f = <<"line", Len(log) + 1>>
    BY <1>3, <2>1, WireSends
  <2>3. \A s : <<"status", s>> /= <<"line", Len(log) + 1>>
    OBVIOUS
  <2> QED
    BY <2>1, <2>2, <2>3
<1>4. ASSUME NEW s \in Told, SendsStatus(s)
      PROVE  /\ log' \in Seq(Writers) /\ wire' \in Seq(Events') /\ log' = log
             /\ \A e : OnWire(e) => OnWire(e)'
             /\ \A t : OnWire(<<"status", t>>)' => OnWire(<<"status", t>>) \/ SendsStatus(t)
  <2>1. <<"status", s>> \in Events /\ Events' = Events
    BY <1>4 DEF Events, SendsStatus
  <2>2. wire' \in Seq(Events) /\ \A f : OnWire(f)' <=> OnWire(f) \/ f = <<"status", s>>
    BY <1>4, <2>1, WireSends DEF SendsStatus
  <2>3. \A t : <<"status", t>> = <<"status", s>> => t = s
    OBVIOUS
  <2> QED
    BY <1>4, <2>1, <2>2, <2>3 DEF SendsStatus
<1> QED
  BY <1>1, <1>2, <1>3, <1>4 DEF Sends

\* What an event of status changes, if one is sent: Tells(s), or Silent.
Tells(s) == \A t : OnWire(<<"status", t>>)' <=> OnWire(<<"status", t>>) \/ t = s
Silent == \A t : OnWire(<<"status", t>>)' <=> OnWire(<<"status", t>>)
Talking == AnnounceDeploy \/ PublishRunning \/ TellFailure \/ PublishResult

\* The actions that publish nothing, or a line.
LEMMA LinesAreSilent ==
    ASSUME log \in Seq(Writers), wire \in Seq(Events),
           \/ UNCHANGED wire
           \/ \E who \in Writers : log' = Append(log, who) /\ wire' = Append(wire, <<"line", Len(log) + 1>>)
    PROVE  Silent
<1>1. CASE UNCHANGED wire
  BY <1>1 DEF Silent, OnWire
<1>2. ASSUME NEW who \in Writers, log' = Append(log, who), wire' = Append(wire, <<"line", Len(log) + 1>>)
      PROVE  Silent
  <2>1. wire \in Seq(Events') /\ <<"line", Len(log) + 1>> \in Events'
    BY <1>2, LogGrows
  <2>2. \A f : OnWire(f)' <=> OnWire(f) \/ f = <<"line", Len(log) + 1>>
    BY <1>2, <2>1, WireSends
  <2>3. \A s : <<"status", s>> /= <<"line", Len(log) + 1>>
    OBVIOUS
  <2> QED
    BY <2>2, <2>3 DEF Silent
<1> QED
  BY <1>1, <1>2

\* An action that publishes a status tells that one and no other.
LEMMA StatusIsTold ==
    ASSUME wire \in Seq(Events), NEW s \in Told, wire' = Append(wire, <<"status", s>>)
    PROVE  Tells(s)
<1>1. <<"status", s>> \in Events
  BY DEF Events
<1>2. \A f : OnWire(f)' <=> OnWire(f) \/ f = <<"status", s>>
  BY <1>1, WireSends
<1>3. \A t : <<"status", t>> = <<"status", s>> <=> t = s
  OBVIOUS
<1> QED
  BY <1>2, <1>3 DEF Tells

\* Which action tells what.
LEMMA PipelineTells ==
    ASSUME log \in Seq(Writers), wire \in Seq(Events), PipelineNext
    PROVE  /\ ~Talking => Silent
           /\ AnnounceDeploy \/ PublishRunning => Tells("deploying")
           /\ TellFailure => Tells("failed")
           /\ PublishResult => IF node.success THEN Tells("running") ELSE Tells("failed")
<1>1. ASSUME ~Talking PROVE Silent
  <2>1. CASE \/ CreateRun \/ MarkBuilding \/ StartStage \/ StoreSpec \/ FinishStage \/ StageFails
             \/ DispatchCommand \/ ScheduleNet \/ WorkerThrows \/ FailRun \/ FailDeployment
             \/ DeployJobDies \/ ReportRunning \/ ReportResult \/ LogFailure \/ CloseStage \/ CloseRun
             \/ GiveUpRunning \/ NodeLost \/ CheckDeployment \/ NetFails \/ NetCloses
    <3>1. UNCHANGED wire
      BY <2>1 DEF CreateRun, MarkBuilding, StartStage, StoreSpec, FinishStage, StageFails, DispatchCommand, ScheduleNet,
                  WorkerThrows, FailRun, FailDeployment, DeployJobDies, ReportRunning, ReportResult, LogFailure,
                  CloseStage, CloseRun, GiveUpRunning, NodeLost, CheckDeployment, NetFails, NetCloses
    <3> QED
      BY <3>1, LinesAreSilent
  <2>2. CASE Greet \/ LogError \/ PostLogs \/ LogTimeout
    <3>1. \E who \in Writers : log' = Append(log, who) /\ wire' = Append(wire, <<"line", Len(log) + 1>>)
      BY <2>2 DEF Greet, LogError, PostLogs, LogTimeout, AppendLine, Writers
    <3> QED
      BY <3>1, LinesAreSilent
  <2> QED
    BY <1>1, <2>1, <2>2 DEF PipelineNext, Talking
<1>2. AnnounceDeploy \/ PublishRunning => Tells("deploying")
  BY StatusIsTold DEF AnnounceDeploy, PublishRunning, PublishStatus, Told
<1>3. TellFailure => Tells("failed")
  BY StatusIsTold DEF TellFailure, PublishStatus, Told
<1>4. ASSUME PublishResult PROVE IF node.success THEN Tells("running") ELSE Tells("failed")
  <2>1. wire' = Append(wire, <<"status", IF node.success THEN "running" ELSE "failed">>)
    BY <1>4 DEF PublishResult, PublishStatus
  <2>2. CASE node.success
    BY <2>1, <2>2, StatusIsTold DEF Told
  <2>3. CASE ~node.success
    BY <2>1, <2>3, StatusIsTold DEF Told
  <2> QED
    BY <2>2, <2>3
<1> QED
  BY <1>1, <1>2, <1>3, <1>4

\* What the rows and the events say stays so, whoever writes them.
LEMMA PipelineSaid ==
    ASSUME PipeTypes, PipeStageInv, SaidInv, log \in Seq(Writers), wire \in Seq(Events), PipelineNext,
           UNCHANGED verdict
    PROVE  SaidInv'
<1> DEFINE R == OnWire(<<"status", "running">>)
           F == OnWire(<<"status", "failed">>)
<1>1. /\ worker \in Workers /\ node \in Reports
      /\ node.at /= "none" => Dispatched
      /\ node.success => node.at \in {"close", "tell", "done", "lost"}
      /\ worker.at /= "done" => net = "none"
  BY DEF PipeTypes, PipeStageInv
<1>2. /\ status = "running" \/ verdict = "running" \/ R => node.success
      /\ node.at \in {"explain", "close", "tell", "done"} /\ ~node.success => status = "failed"
      /\ status = "failed" \/ verdict = "failed" \/ F =>
          \/ worker.at \in {"tell", "failed", "dead"} \/ net \in {"close", "failed"}
          \/ NodeOver /\ status = "failed"
  BY DEF SaidInv
<1>3. /\ ~Talking => (R' <=> R) /\ (F' <=> F)
      /\ AnnounceDeploy \/ PublishRunning => (R' <=> R) /\ (F' <=> F)
      /\ TellFailure => (R' <=> R)
      /\ PublishResult => (R' => R \/ node.success) /\ (F' => F \/ ~node.success)
  BY PipelineTells DEF Silent, Tells
<1>4. SUFFICES
      /\ status' = "running" \/ verdict = "running" \/ R' => node'.success
      /\ node'.at \in {"explain", "close", "tell", "done"} /\ ~node'.success => status' = "failed"
      /\ status' = "failed" \/ verdict = "failed" \/ F' =>
          \/ worker'.at \in {"tell", "failed", "dead"} \/ net' \in {"close", "failed"}
          \/ NodeOver' /\ status' = "failed"
  BY DEF SaidInv
<1> HIDE DEF R, F
<1>5. CASE Talking
  BY <1>1, <1>2, <1>3, <1>5 DEF Talking, AnnounceDeploy, PublishRunning, TellFailure, PublishResult, WorkerAt, NodeAt, NetAt, Workers, Reports, Dispatched, NodeOver
<1>6. CASE ~Talking
  <2>1. (R' <=> R) /\ (F' <=> F)
    BY <1>3, <1>6
  <2>2. CASE CreateRun
    BY <1>1, <1>2, <2>1, <2>2 DEF CreateRun, WorkerAt, NodeAt, NetAt, Workers, Reports, Dispatched, NodeOver
  <2>3. CASE MarkBuilding
    BY <1>1, <1>2, <2>1, <2>3 DEF MarkBuilding, WorkerAt, NodeAt, NetAt, Workers, Reports, Dispatched, NodeOver
  <2>4. CASE Greet
    BY <1>1, <1>2, <2>1, <2>4 DEF Greet, WorkerAt, NodeAt, NetAt, Workers, Reports, Dispatched, NodeOver
  <2>5. CASE StartStage
    BY <1>1, <1>2, <2>1, <2>5 DEF StartStage, WorkerAt, NodeAt, NetAt, Workers, Reports, Dispatched, NodeOver
  <2>6. CASE StoreSpec
    BY <1>1, <1>2, <2>1, <2>6 DEF StoreSpec, WorkerAt, NodeAt, NetAt, Workers, Reports, Dispatched, NodeOver
  <2>7. CASE FinishStage
    BY <1>1, <1>2, <2>1, <2>7 DEF FinishStage, WorkerAt, NodeAt, NetAt, Workers, Reports, Dispatched, NodeOver
  <2>8. CASE StageFails
    BY <1>1, <1>2, <2>1, <2>8 DEF StageFails, WorkerAt, NodeAt, NetAt, Workers, Reports, Dispatched, NodeOver
  <2>9. CASE DispatchCommand
    BY <1>1, <1>2, <2>1, <2>9 DEF DispatchCommand, WorkerAt, NodeAt, NetAt, Workers, Reports, Dispatched, NodeOver
  <2>10. CASE ScheduleNet
    BY <1>1, <1>2, <2>1, <2>10 DEF ScheduleNet, WorkerAt, NodeAt, NetAt, Workers, Reports, Dispatched, NodeOver
  <2>11. CASE WorkerThrows
    BY <1>1, <1>2, <2>1, <2>11 DEF WorkerThrows, WorkerAt, NodeAt, NetAt, Workers, Reports, Dispatched, NodeOver
  <2>12. CASE LogError
    BY <1>1, <1>2, <2>1, <2>12 DEF LogError, WorkerAt, NodeAt, NetAt, Workers, Reports, Dispatched, NodeOver
  <2>13. CASE FailRun
    BY <1>1, <1>2, <2>1, <2>13 DEF FailRun, WorkerAt, NodeAt, NetAt, Workers, Reports, Dispatched, NodeOver
  <2>14. CASE FailDeployment
    BY <1>1, <1>2, <2>1, <2>14 DEF FailDeployment, WorkerAt, NodeAt, NetAt, Workers, Reports, Dispatched, NodeOver
  <2>15. CASE DeployJobDies
    BY <1>1, <1>2, <2>1, <2>15 DEF DeployJobDies, WorkerAt, NodeAt, NetAt, Workers, Reports, Dispatched, NodeOver
  <2>16. CASE ReportRunning
    BY <1>1, <1>2, <2>1, <2>16 DEF ReportRunning, WorkerAt, NodeAt, NetAt, Workers, Reports, Dispatched, NodeOver
  <2>17. CASE PostLogs
    BY <1>1, <1>2, <2>1, <2>17 DEF PostLogs, WorkerAt, NodeAt, NetAt, Workers, Reports, Dispatched, NodeOver
  <2>18. CASE ReportResult
    BY <1>1, <1>2, <2>1, <2>18 DEF ReportResult, WorkerAt, NodeAt, NetAt, Workers, Reports, Dispatched, NodeOver
  <2>19. CASE LogFailure
    BY <1>1, <1>2, <2>1, <2>19 DEF LogFailure, WorkerAt, NodeAt, NetAt, Workers, Reports, Dispatched, NodeOver
  <2>20. CASE CloseStage
    BY <1>1, <1>2, <2>1, <2>20 DEF CloseStage, WorkerAt, NodeAt, NetAt, Workers, Reports, Dispatched, NodeOver
  <2>21. CASE CloseRun
    BY <1>1, <1>2, <2>1, <2>21 DEF CloseRun, WorkerAt, NodeAt, NetAt, Workers, Reports, Dispatched, NodeOver
  <2>22. CASE NodeLost \/ GiveUpRunning
    BY <1>1, <1>2, <2>1, <2>22 DEF NodeLost, GiveUpRunning, WorkerAt, NodeAt, NetAt, Workers, Reports, Dispatched, NodeOver
  <2>23. CASE CheckDeployment
    BY <1>1, <1>2, <2>1, <2>23 DEF CheckDeployment, WorkerAt, NodeAt, NetAt, Workers, Reports, Dispatched, NodeOver
  <2>24. CASE LogTimeout
    BY <1>1, <1>2, <2>1, <2>24 DEF LogTimeout, WorkerAt, NodeAt, NetAt, Workers, Reports, Dispatched, NodeOver
  <2>25. CASE NetFails
    BY <1>1, <1>2, <2>1, <2>25 DEF NetFails, WorkerAt, NodeAt, NetAt, Workers, Reports, Dispatched, NodeOver
  <2>26. CASE NetCloses
    BY <1>1, <1>2, <2>1, <2>26 DEF NetCloses, WorkerAt, NodeAt, NetAt, Workers, Reports, Dispatched, NodeOver
  <2> QED
    BY <1>6, <2>2, <2>3, <2>4, <2>5, <2>6, <2>7, <2>8, <2>9, <2>10, <2>11, <2>12, <2>13, <2>14, <2>15, <2>16, <2>17, <2>18, <2>19, <2>20, <2>21, <2>22, <2>23, <2>24, <2>25, <2>26 DEF PipelineNext, Talking
<1> QED
  BY <1>5, <1>6

\* A row that is written is followed by an event, or its writer is lost.
LEMMA PipelineComing ==
    ASSUME PipeTypes, PipeStageInv, log \in Seq(Writers), wire \in Seq(Events), PipelineNext
    PROVE  /\ Untold => Untold'
           /\ Coming => Coming' \/ Untold'
           /\ UNCHANGED <<status, run, stages>> \/ Coming' \/ Untold'
<1> DEFINE W == \E s \in {"deploying", "running", "failed"} : OnWire(<<"status", s>>)
<1>1. /\ worker \in Workers /\ node \in Reports
      /\ worker.at /= "done" => net = "none"
      /\ node.at /= "none" => Dispatched
  BY DEF PipeTypes, PipeStageInv
<1>2. (W => W') /\ (Talking => W')
  <2>1. W => W'
    BY PipelineSends, SendsKeep
  <2>2. Talking => W'
    BY PipelineTells DEF Talking, Tells
  <2> QED
    BY <2>1, <2>2
<1>3. /\ Coming = (W \/ \/ worker.at \in {"queued", "created", "greet", "start", "store", "finish", "dispatch", "announce",
                                      "caught", "failRun", "fail", "tell"}
                        \/ node.at \in {"started", "building", "built", "explain", "close", "tell"} \/ net = "close")
      /\ Coming' = (W' \/ \/ worker'.at \in {"queued", "created", "greet", "start", "store", "finish", "dispatch", "announce",
                                      "caught", "failRun", "fail", "tell"}
                        \/ node'.at \in {"started", "building", "built", "explain", "close", "tell"} \/ net' = "close")
  BY DEF Coming
<1> HIDE DEF W
<1>4. CASE Talking
  BY <1>1, <1>2, <1>3, <1>4 DEF Talking, AnnounceDeploy, PublishRunning, TellFailure, PublishResult, Untold, WorkerAt, NodeAt, Workers, Reports
<1>5. CASE CreateRun
  BY <1>1, <1>2, <1>3, <1>5 DEF CreateRun, Untold, WorkerAt, NodeAt, NetAt, Workers, Reports, Dispatched
<1>6. CASE MarkBuilding
  BY <1>1, <1>2, <1>3, <1>6 DEF MarkBuilding, Untold, WorkerAt, NodeAt, NetAt, Workers, Reports, Dispatched
<1>7. CASE Greet
  BY <1>1, <1>2, <1>3, <1>7 DEF Greet, Untold, WorkerAt, NodeAt, NetAt, Workers, Reports, Dispatched
<1>8. CASE StartStage
  BY <1>1, <1>2, <1>3, <1>8 DEF StartStage, Untold, WorkerAt, NodeAt, NetAt, Workers, Reports, Dispatched
<1>9. CASE StoreSpec
  BY <1>1, <1>2, <1>3, <1>9 DEF StoreSpec, Untold, WorkerAt, NodeAt, NetAt, Workers, Reports, Dispatched
<1>10. CASE FinishStage
  <2>1. worker.at = "finish" /\ worker'.at \in {"start", "caught"} /\ UNCHANGED <<net, node>>
    BY <1>1, <1>10 DEF FinishStage, WorkerAt, Workers
  <2> QED
    BY <1>3, <2>1 DEF Untold
<1>11. CASE StageFails
  BY <1>1, <1>2, <1>3, <1>11 DEF StageFails, Untold, WorkerAt, NodeAt, NetAt, Workers, Reports, Dispatched
<1>12. CASE DispatchCommand
  BY <1>1, <1>2, <1>3, <1>12 DEF DispatchCommand, Untold, WorkerAt, NodeAt, NetAt, Workers, Reports, Dispatched
<1>13. CASE ScheduleNet
  BY <1>1, <1>2, <1>3, <1>13 DEF ScheduleNet, Untold, WorkerAt, NodeAt, NetAt, Workers, Reports, Dispatched
<1>14. CASE WorkerThrows
  BY <1>1, <1>2, <1>3, <1>14 DEF WorkerThrows, Untold, WorkerAt, NodeAt, NetAt, Workers, Reports, Dispatched
<1>15. CASE LogError
  BY <1>1, <1>2, <1>3, <1>15 DEF LogError, Untold, WorkerAt, NodeAt, NetAt, Workers, Reports, Dispatched
<1>16. CASE FailRun
  BY <1>1, <1>2, <1>3, <1>16 DEF FailRun, Untold, WorkerAt, NodeAt, NetAt, Workers, Reports, Dispatched
<1>17. CASE FailDeployment
  BY <1>1, <1>2, <1>3, <1>17 DEF FailDeployment, Untold, WorkerAt, NodeAt, NetAt, Workers, Reports, Dispatched
<1>18. CASE DeployJobDies
  BY <1>1, <1>2, <1>3, <1>18 DEF DeployJobDies, Untold, WorkerAt, NodeAt, NetAt, Workers, Reports, Dispatched
<1>19. CASE ReportRunning
  BY <1>1, <1>2, <1>3, <1>19 DEF ReportRunning, Untold, WorkerAt, NodeAt, NetAt, Workers, Reports, Dispatched
<1>20. CASE PostLogs
  BY <1>1, <1>2, <1>3, <1>20 DEF PostLogs, Untold, WorkerAt, NodeAt, NetAt, Workers, Reports, Dispatched
<1>21. CASE ReportResult
  BY <1>1, <1>2, <1>3, <1>21 DEF ReportResult, Untold, WorkerAt, NodeAt, NetAt, Workers, Reports, Dispatched
<1>22. CASE LogFailure
  BY <1>1, <1>2, <1>3, <1>22 DEF LogFailure, Untold, WorkerAt, NodeAt, NetAt, Workers, Reports, Dispatched
<1>23. CASE CloseStage
  BY <1>1, <1>2, <1>3, <1>23 DEF CloseStage, Untold, WorkerAt, NodeAt, NetAt, Workers, Reports, Dispatched
<1>24. CASE CloseRun
  BY <1>1, <1>2, <1>3, <1>24 DEF CloseRun, Untold, WorkerAt, NodeAt, NetAt, Workers, Reports, Dispatched
<1>25. CASE NodeLost \/ GiveUpRunning
  BY <1>1, <1>2, <1>3, <1>25 DEF NodeLost, GiveUpRunning, Untold, WorkerAt, NodeAt, NetAt, Workers, Reports, Dispatched
<1>26. CASE CheckDeployment
  BY <1>1, <1>2, <1>3, <1>26 DEF CheckDeployment, Untold, WorkerAt, NodeAt, NetAt, Workers, Reports, Dispatched
<1>27. CASE LogTimeout
  BY <1>1, <1>2, <1>3, <1>27 DEF LogTimeout, Untold, WorkerAt, NodeAt, NetAt, Workers, Reports, Dispatched
<1>28. CASE NetFails
  BY <1>1, <1>2, <1>3, <1>28 DEF NetFails, Untold, WorkerAt, NodeAt, NetAt, Workers, Reports, Dispatched
<1>29. CASE NetCloses
  BY <1>1, <1>2, <1>3, <1>29 DEF NetCloses, Untold, WorkerAt, NodeAt, NetAt, Workers, Reports, Dispatched
<1> QED
  BY <1>4, <1>5, <1>6, <1>7, <1>8, <1>9, <1>10, <1>11, <1>12, <1>13, <1>14, <1>15, <1>16, <1>17, <1>18, <1>19, <1>20, <1>21, <1>22, <1>23, <1>24, <1>25, <1>26, <1>27, <1>28, <1>29 DEF PipelineNext, Talking

\* The last event of the job that failed, and of the node, tells the end.
LEMMA PipelineEnds ==
    ASSUME PipeTypes, log \in Seq(Writers), wire \in Seq(Events), PipelineNext
    PROVE  /\ OnWire(<<"status", "running">>) => OnWire(<<"status", "running">>)'
           /\ OnWire(<<"status", "failed">>) => OnWire(<<"status", "failed">>)'
           /\ worker'.at = "failed" => worker.at = "failed" \/ OnWire(<<"status", "failed">>)'
           /\ node'.at = "done" => \/ node.at = "done" \/ OnWire(<<"status", "running">>)'
                                   \/ OnWire(<<"status", "failed">>)'
<1>1. worker \in Workers /\ node \in Reports
  BY DEF PipeTypes
<1>2. /\ OnWire(<<"status", "running">>) => OnWire(<<"status", "running">>)'
      /\ OnWire(<<"status", "failed">>) => OnWire(<<"status", "failed">>)'
  BY PipelineSends, SendsKeep
<1>3. /\ TellFailure => OnWire(<<"status", "failed">>)'
      /\ PublishResult => OnWire(<<"status", "running">>)' \/ OnWire(<<"status", "failed">>)'
  BY PipelineTells DEF Tells
<1>4. ASSUME worker'.at = "failed", worker.at /= "failed" PROVE TellFailure
  BY <1>1, <1>4 DEF PipelineNext, CreateRun, MarkBuilding, Greet, StartStage, StoreSpec, FinishStage, StageFails, DispatchCommand, AnnounceDeploy, ScheduleNet, WorkerThrows, LogError, FailRun, FailDeployment, DeployJobDies, ReportRunning, PublishRunning, GiveUpRunning, PostLogs, ReportResult, LogFailure, CloseStage, CloseRun, PublishResult, NodeLost, CheckDeployment, LogTimeout, NetFails, NetCloses, WorkerAt, Workers
<1>5. ASSUME node'.at = "done", node.at /= "done" PROVE PublishResult
  BY <1>1, <1>5 DEF PipelineNext, CreateRun, MarkBuilding, Greet, StartStage, StoreSpec, FinishStage, StageFails, DispatchCommand, AnnounceDeploy, ScheduleNet, WorkerThrows, LogError, FailRun, FailDeployment, TellFailure, DeployJobDies, ReportRunning, PublishRunning, GiveUpRunning, PostLogs, ReportResult, LogFailure, CloseStage, CloseRun, NodeLost, CheckDeployment, LogTimeout, NetFails, NetCloses, NodeAt, Reports
<1> QED
  BY <1>2, <1>3, <1>4, <1>5

\* Who watches writes no row, so the rows are as they were, and what is known of
\* them; what is said only by an event still on the wire is left.
LEMMA WatchersOnlyRead ==
    ASSUME PipeTypes, PipeStageInv, SaidInv, UNCHANGED <<status, run, stages, worker, node, net>>,
           \A e : OnWire(e)' => OnWire(e),
           verdict' = verdict \/ OnWire(<<"status", verdict'>>) \/ verdict' = status
    PROVE  PipeTypes' /\ PipeStageInv' /\ SaidInv' /\ (Untold' <=> Untold)
<1>1. PipeTypes' /\ (Untold' <=> Untold)
  BY DEF PipeTypes, Untold
<1>2. PipeStageInv'
  BY DEF PipeStageInv, Dispatched
<1>3. SaidInv'
  BY DEF SaidInv, NodeOver
<1> QED
  BY <1>1, <1>2, <1>3

\* The rows of the page, on a step of the pipeline.
LEMMA PagesHold ==
    ASSUME PipeTypes, PipeStageInv, WatchTypes, PageInv, Pipeline
    PROVE  PageInv'
<1> SUFFICES ASSUME watcher' = "page" PROVE
      /\ stream' /= "closed" /\ (listed' => stream' /= "none")
      /\ \A p \in DOMAIN log' : log'[p] = "failure" \/ Brought(p)' \/ unheard' \/ OnWire(<<"line", p>>)'
      /\ stream' /= "none" /\ ~missed' /\ ~Untold' /\ ~Coming' =>
          /\ reading'.at = "none" => view'.deployment /\ view'.run
          /\ reading'.at = "half" => reading'.read.deployment
  BY DEF PageInv
<1>1. /\ PipelineNext /\ UNCHANGED <<watcher, stream, verdict, listed, logs, liveLines, missed, unheard>>
      /\ view' = IF stream = "none" THEN view ELSE Hold(view)
      /\ reading' = IF reading.at = "half" THEN [reading EXCEPT !.read = Hold(@)] ELSE reading
  BY DEF Pipeline
<1>2. /\ watcher = "page" /\ stream /= "closed" /\ (listed => stream /= "none")
      /\ \A p \in DOMAIN log : log[p] = "failure" \/ Brought(p) \/ unheard \/ OnWire(<<"line", p>>)
      /\ stream /= "none" /\ ~missed /\ ~Untold /\ ~Coming =>
          /\ reading.at = "none" => view.deployment /\ view.run
          /\ reading.at = "half" => reading.read.deployment
  BY <1>1 DEF PageInv
<1>3. /\ log \in Seq(Writers) /\ wire \in Seq(Events)
      /\ reading \in [at : {"none", "asked", "half"}, read : [deployment : BOOLEAN, run : BOOLEAN]]
  BY DEF WatchTypes
<1>4. \A p \in DOMAIN log' : log'[p] = "failure" \/ Brought(p)' \/ unheard' \/ OnWire(<<"line", p>>)'
  <2>1. /\ \A e : OnWire(e) => OnWire(e)'
        /\ \A p \in DOMAIN log' : \/ p \in DOMAIN log /\ log'[p] = log[p]
                                  \/ log'[p] = "failure" \/ OnWire(<<"line", p>>)'
    BY <1>1, <1>3, PipelineSends, SendsKeep
  <2>2. \A p : Brought(p) <=> Brought(p)'
    BY <1>1 DEF Brought, Shown, Displaced
  <2> QED
    BY <1>1, <1>2, <2>1, <2>2
<1>5. ASSUME stream' /= "none", ~missed', ~Untold', ~Coming'
      PROVE  /\ reading'.at = "none" => view'.deployment /\ view'.run
             /\ reading'.at = "half" => reading'.read.deployment
  <2>1. ~Untold /\ ~Coming /\ UNCHANGED <<status, run, stages>>
    BY <1>1, <1>3, <1>5, PipelineComing
  <2>2. /\ reading.at = "none" => view.deployment /\ view.run
        /\ reading.at = "half" => reading.read.deployment
    BY <1>1, <1>2, <1>5, <2>1
  <2>3. view'.deployment = view.deployment /\ view'.run = view.run
    <3>1. view' = [deployment |-> view.deployment /\ status' = status,
                   run |-> view.run /\ run' = run /\ stages' = stages]
      BY <1>1, <1>5 DEF Hold
    <3>2. view.deployment \in BOOLEAN /\ view.run \in BOOLEAN
      BY DEF WatchTypes
    <3>3. view'.deployment = (view.deployment /\ status' = status)
      BY <3>1
    <3>4. view'.run = (view.run /\ run' = run /\ stages' = stages)
      BY <3>1
    <3>5. status' = status /\ run' = run /\ stages' = stages
      BY <2>1
    <3> QED
      BY <3>2, <3>3, <3>4, <3>5
  <2>4. CASE reading.at = "half"
    <3>1. reading'.at = "half" /\ reading'.read = Hold(reading.read)
      BY <1>1, <1>3, <2>4
    <3>2. reading'.read.deployment = (reading.read.deployment /\ status' = status)
      BY <3>1 DEF Hold
    <3> QED
      BY <2>1, <2>2, <2>4, <3>1, <3>2
  <2>5. CASE reading.at /= "half"
    BY <1>1, <2>2, <2>3, <2>5
  <2> QED
    BY <2>4, <2>5
<1> QED
  BY <1>1, <1>2, <1>4, <1>5

\* The types of what is watched, on a step of the pipeline.
LEMMA PipelineTypes ==
    ASSUME WatchTypes, Pipeline
    PROVE  WatchTypes'
<1>1. /\ PipelineNext /\ UNCHANGED <<watcher, stream, verdict, listed, logs, liveLines, missed, unheard>>
      /\ view' = IF stream = "none" THEN view ELSE Hold(view)
      /\ reading' = IF reading.at = "half" THEN [reading EXCEPT !.read = Hold(@)] ELSE reading
  BY DEF Pipeline
<1>2. log' \in Seq(Writers) /\ wire' \in Seq(Events') /\ DOMAIN log \subseteq DOMAIN log'
  BY <1>1, PipelineSends, SendsKeep DEF WatchTypes
<1>6. logs' \subseteq DOMAIN log' /\ liveLines' \in Seq(1 .. Len(log'))
  <2>1. DOMAIN log = 1 .. Len(log) /\ DOMAIN log' = 1 .. Len(log')
    BY <1>2 DEF WatchTypes
  <2>2. logs \subseteq DOMAIN log /\ liveLines \in Seq(1 .. Len(log))
    BY DEF WatchTypes
  <2>3. Seq(1 .. Len(log)) \subseteq Seq(1 .. Len(log'))
    <3>1. 1 .. Len(log) \subseteq 1 .. Len(log')
      BY <1>2, <2>1
    <3> QED
      BY <3>1
  <2> QED
    BY <1>1, <1>2, <2>2, <2>3
<1>3. \A r \in [deployment : BOOLEAN, run : BOOLEAN] : Hold(r) \in [deployment : BOOLEAN, run : BOOLEAN]
  BY DEF Hold
<1>4. view' \in [deployment : BOOLEAN, run : BOOLEAN]
  BY <1>1, <1>3 DEF WatchTypes
<1>5. reading' \in [at : {"none", "asked", "half"}, read : [deployment : BOOLEAN, run : BOOLEAN]]
  <2>1. reading \in [at : {"none", "asked", "half"}, read : [deployment : BOOLEAN, run : BOOLEAN]]
    BY DEF WatchTypes
  <2>2. CASE reading.at = "half"
    <3>1. Hold(reading.read) \in [deployment : BOOLEAN, run : BOOLEAN]
      BY <1>3, <2>1
    <3> QED
      BY <1>1, <2>1, <2>2, <3>1
  <2> QED
    BY <1>1, <2>1, <2>2
<1> QED
  BY <1>1, <1>2, <1>4, <1>5, <1>6 DEF WatchTypes

\* A line that is sent is the last on the wire, and has the highest number.
LEMMA LinesAreSent ==
    ASSUME WatchTypes, LinesInv, Pipeline
    PROVE  LinesInv'
<1>1. PipelineNext /\ UNCHANGED <<listed, logs, liveLines>>
  BY DEF Pipeline
<1>2. /\ wire \in Seq(Events) /\ DOMAIN wire = 1 .. Len(wire) /\ Len(wire) \in Nat /\ Len(log) \in Nat
      /\ liveLines \in Seq(1 .. Len(log)) /\ DOMAIN liveLines = 1 .. Len(liveLines)
      /\ \A i \in DOMAIN liveLines : liveLines[i] \in 1 .. Len(log)
      /\ \A k \in DOMAIN wire : wire[k] \in Events
  BY DEF WatchTypes
<1>3. \A k \in DOMAIN wire : IsLine(k) => wire[k][2] \in 1 .. Len(log)
  BY <1>2, EventFacts DEF IsLine
<1>4. CASE UNCHANGED wire
  BY <1>1, <1>4 DEF LinesInv, IsLine
<1>5. ASSUME NEW e, wire' = Append(wire, e), e[1] = "line" => e[2] = Len(log) + 1
      PROVE  LinesInv'
  <2>1. /\ DOMAIN wire' = 1 .. Len(wire) + 1 /\ wire'[Len(wire) + 1] = e
        /\ \A k \in 1 .. Len(wire) : wire'[k] = wire[k]
    BY <1>2, <1>5
  <2>2. \A i \in DOMAIN liveLines', k \in DOMAIN wire' : IsLine(k)' => liveLines'[i] < wire'[k][2]
    <3>1. ASSUME NEW i \in DOMAIN liveLines, NEW k \in DOMAIN wire', IsLine(k)'
          PROVE  liveLines[i] < wire'[k][2]
      <4>1. CASE k \in DOMAIN wire
        BY <1>2, <2>1, <3>1, <4>1 DEF LinesInv, IsLine
      <4>2. CASE k = Len(wire) + 1
        <5>1. wire'[k][2] = Len(log) + 1
          BY <1>5, <2>1, <3>1, <4>2 DEF IsLine
        <5> QED
          BY <1>2, <5>1
      <4> QED
        BY <1>2, <2>1, <4>1, <4>2
    <3> QED
      BY <1>1, <3>1
  <2>3. \A k, l \in DOMAIN wire' : k < l /\ IsLine(k)' /\ IsLine(l)' => wire'[k][2] < wire'[l][2]
    <3>1. ASSUME NEW k \in DOMAIN wire', NEW l \in DOMAIN wire', k < l, IsLine(k)', IsLine(l)'
          PROVE  wire'[k][2] < wire'[l][2]
      <4>1. k \in DOMAIN wire /\ wire'[k] = wire[k] /\ IsLine(k)
        BY <1>2, <2>1, <3>1 DEF IsLine
      <4>2. CASE l \in DOMAIN wire
        BY <1>2, <2>1, <3>1, <4>1, <4>2 DEF LinesInv, IsLine
      <4>3. CASE l = Len(wire) + 1
        <5>1. wire'[l][2] = Len(log) + 1 /\ wire[k][2] \in 1 .. Len(log)
          BY <1>3, <1>5, <2>1, <3>1, <4>1, <4>3 DEF IsLine
        <5> QED
          BY <1>2, <4>1, <5>1
      <4> QED
        BY <1>2, <2>1, <4>2, <4>3
    <3> QED
      BY <3>1
  <2> QED
    BY <1>1, <2>2, <2>3 DEF LinesInv
<1> QED
  <2>1. Sends
    BY <1>1, PipelineSends
  <2>2. \A p : <<"line", p>>[2] = p /\ <<"status", p>>[1] = "status"
    OBVIOUS
  <2> QED
    BY <1>4, <1>5, <2>1, <2>2 DEF Sends, SendsStatus

\* What leaves the wire leaves the order of the others.
LEMMA LinesPass ==
    ASSUME WatchTypes, LinesInv, wire /= <<>>, wire' = Tail(wire), UNCHANGED <<listed, logs>>,
           \A i \in DOMAIN liveLines', k \in DOMAIN wire' : IsLine(k)' => liveLines'[i] < wire'[k][2],
           \A i, j \in DOMAIN liveLines' : i < j => liveLines'[i] < liveLines'[j]
    PROVE  LinesInv'
<1>1. /\ DOMAIN wire' = 1 .. Len(wire) - 1 /\ DOMAIN wire = 1 .. Len(wire) /\ Len(wire) \in Nat
      /\ \A k \in DOMAIN wire' : wire'[k] = wire[k + 1]
  BY DEF WatchTypes
<1>2. ASSUME NEW k \in DOMAIN wire', NEW l \in DOMAIN wire', k < l, IsLine(k)', IsLine(l)'
      PROVE  wire'[k][2] < wire'[l][2]
  <2>1. k + 1 \in DOMAIN wire /\ l + 1 \in DOMAIN wire /\ k + 1 < l + 1
    BY <1>1, <1>2
  <2>2. IsLine(k + 1) /\ IsLine(l + 1)
    BY <1>1, <1>2 DEF IsLine
  <2> QED
    BY <1>1, <2>1, <2>2 DEF LinesInv
<1> QED
  BY <1>2 DEF LinesInv

\* The page keeps a line that it has, or drops the oldest.
LEMMA LinesAreHeard ==
    ASSUME WatchTypes, LinesInv, HearLine
    PROVE  /\ LinesInv' /\ liveLines' \in Seq(1 .. Len(log))
           /\ watcher = "page" => \A p \in DOMAIN log : Brought(p) \/ p = Head(wire)[2] => Brought(p)'
<1> DEFINE n == Head(wire)[2]
           L == Len(liveLines)
<1>1. /\ wire \in Seq(Events) /\ wire /= <<>> /\ wire' = Tail(wire) /\ Head(wire)[1] = "line"
      /\ UNCHANGED <<log, listed, logs>>
      /\ liveLines \in Seq(1 .. Len(log)) /\ Len(log) \in Nat
  BY DEF HearLine, Arrives, WatchTypes
<1>2. /\ DOMAIN wire' = 1 .. Len(wire) - 1 /\ DOMAIN wire = 1 .. Len(wire) /\ Len(wire) \in Nat
      /\ 1 \in DOMAIN wire /\ Head(wire) = wire[1] /\ Head(wire) \in Events
      /\ \A k \in DOMAIN wire' : wire'[k] = wire[k + 1]
  BY <1>1
<1>3. n \in 1 .. Len(log)
  BY <1>1, <1>2, EventFacts
<1>4. \A k \in DOMAIN wire' : IsLine(k)' => n < wire'[k][2]
  <2>1. ASSUME NEW k \in DOMAIN wire', IsLine(k)' PROVE n < wire'[k][2]
    <3>1. k + 1 \in DOMAIN wire /\ 1 < k + 1 /\ IsLine(k + 1) /\ IsLine(1)
      BY <1>1, <1>2, <2>1 DEF IsLine
    <3>2. wire[1][2] < wire[k + 1][2]
      BY <1>2, <3>1 DEF LinesInv
    <3> QED
      BY <1>2, <2>1, <3>2
  <2> QED
    BY <2>1
<1>5. /\ L \in Nat /\ DOMAIN liveLines = 1 .. L /\ \A i \in 1 .. L : liveLines[i] \in 1 .. Len(log)
      /\ \A i \in 1 .. L : liveLines[i] < n
      /\ \A i \in 1 .. L, k \in DOMAIN wire' : IsLine(k)' => liveLines[i] < wire'[k][2]
  <2>1. L \in Nat /\ DOMAIN liveLines = 1 .. L /\ \A i \in 1 .. L : liveLines[i] \in 1 .. Len(log)
    BY <1>1
  <2>2. IsLine(1) /\ \A i \in 1 .. L : liveLines[i] < wire[1][2]
    BY <1>1, <1>2, <2>1 DEF LinesInv, IsLine
  <2>3. ASSUME NEW i \in 1 .. L, NEW k \in DOMAIN wire', IsLine(k)' PROVE liveLines[i] < wire'[k][2]
    <3>1. k + 1 \in DOMAIN wire /\ IsLine(k + 1)
      BY <1>2, <2>3 DEF IsLine
    <3>2. liveLines[i] < wire[k + 1][2]
      BY <2>1, <3>1 DEF LinesInv
    <3> QED
      BY <1>2, <2>3, <3>2
  <2> QED
    BY <1>2, <2>1, <2>2, <2>3
<1> HIDE DEF n, L
<1>6. CASE watcher /= "page"
  <2>1. liveLines' = liveLines
    BY <1>6 DEF HearLine
  <2> QED
    BY <1>1, <1>5, <1>6, <2>1, LinesPass DEF LinesInv
<1>7. CASE watcher = "page" /\ ~(L > LiveLimit)
  <2>1. liveLines' = Append(liveLines, n)
    BY <1>7 DEF HearLine, KeptLines, n, L
  <2>2. /\ liveLines' \in Seq(1 .. Len(log)) /\ DOMAIN liveLines' = 1 .. L + 1 /\ liveLines'[L + 1] = n
        /\ \A i \in 1 .. L : liveLines'[i] = liveLines[i]
    BY <1>1, <1>3, <2>1 DEF L
  <2>3. \A i, j \in DOMAIN liveLines' : i < j => liveLines'[i] < liveLines'[j]
    <3>1. ASSUME NEW i \in 1 .. L + 1, NEW j \in 1 .. L + 1, i < j PROVE liveLines'[i] < liveLines'[j]
      <4>1. i \in 1 .. L
        BY <1>5, <3>1
      <4>2. CASE j = L + 1
        BY <1>5, <2>2, <4>1, <4>2
      <4>3. CASE j /= L + 1
        <5>1. j \in 1 .. L
          BY <1>5, <3>1, <4>3
        <5> QED
          BY <1>5, <2>2, <3>1, <4>1, <5>1 DEF LinesInv
      <4> QED
        BY <4>2, <4>3
    <3> QED
      BY <2>2, <3>1
  <2>4. \A i \in DOMAIN liveLines', k \in DOMAIN wire' : IsLine(k)' => liveLines'[i] < wire'[k][2]
    BY <1>4, <1>5, <2>2
  <2>5. ASSUME NEW p \in DOMAIN log, Brought(p) \/ p = n PROVE p \in Shown'
    <3>1. ~Displaced(p)
      BY <1>7 DEF Displaced, L
    <3>2. CASE p = n
      <4>1. L + 1 \in DOMAIN liveLines' /\ liveLines'[L + 1] = p
        BY <1>5, <2>2, <3>2
      <4> QED
        BY <4>1 DEF Shown
    <3>3. ASSUME NEW i \in DOMAIN liveLines, p = liveLines[i] PROVE p \in Shown'
      <4>1. i \in DOMAIN liveLines' /\ liveLines'[i] = p
        BY <1>5, <2>2, <3>3
      <4> QED
        BY <4>1 DEF Shown
    <3> QED
      BY <1>1, <2>5, <3>1, <3>2, <3>3 DEF Brought, Shown
  <2> QED
    BY <1>1, <2>2, <2>3, <2>4, <2>5, LinesPass DEF Brought, n
<1>8. CASE watcher = "page" /\ L > LiveLimit
  <2>1. liveLines' = Append(Tail(liveLines), n) /\ L >= 2
    BY <1>5, <1>8, PageAssumption DEF HearLine, KeptLines, n, L
  <2>2. /\ liveLines' \in Seq(1 .. Len(log)) /\ DOMAIN liveLines' = 1 .. L /\ Len(liveLines') = L /\ liveLines'[L] = n
        /\ \A i \in 1 .. L - 1 : liveLines'[i] = liveLines[i + 1]
    <3>1. /\ Tail(liveLines) \in Seq(1 .. Len(log)) /\ Len(Tail(liveLines)) = L - 1
          /\ \A i \in 1 .. L - 1 : Tail(liveLines)[i] = liveLines[i + 1]
      BY <1>1, <2>1 DEF L
    <3> HIDE DEF L
    <3>2. \A s \in Seq(1 .. Len(log)) :
            /\ Append(s, n) \in Seq(1 .. Len(log)) /\ Len(Append(s, n)) = Len(s) + 1
            /\ DOMAIN Append(s, n) = 1 .. Len(s) + 1 /\ Append(s, n)[Len(s) + 1] = n
            /\ \A i \in 1 .. Len(s) : Append(s, n)[i] = s[i]
      BY <1>3
    <3> QED
      BY <1>5, <2>1, <3>1, <3>2
  <2>3. \A i, j \in DOMAIN liveLines' : i < j => liveLines'[i] < liveLines'[j]
    <3>1. ASSUME NEW i \in 1 .. L, NEW j \in 1 .. L, i < j PROVE liveLines'[i] < liveLines'[j]
      <4>1. i + 1 \in 1 .. L /\ liveLines'[i] = liveLines[i + 1]
        <5>1. i \in 1 .. L - 1 /\ i + 1 \in 1 .. L
          BY <1>5, <3>1
        <5> QED
          BY <2>2, <5>1
      <4>2. CASE j = L
        BY <1>5, <2>2, <4>1, <4>2
      <4>3. CASE j /= L
        <5>1. j + 1 \in 1 .. L /\ liveLines'[j] = liveLines[j + 1] /\ i + 1 < j + 1
          <6>1. j \in 1 .. L - 1 /\ j + 1 \in 1 .. L /\ i + 1 < j + 1
            BY <1>5, <3>1, <4>3
          <6> QED
            BY <2>2, <6>1
        <5> QED
          BY <1>5, <4>1, <5>1 DEF LinesInv
      <4> QED
        BY <4>2, <4>3
    <3> QED
      BY <2>2, <3>1
  <2>4. \A i \in DOMAIN liveLines', k \in DOMAIN wire' : IsLine(k)' => liveLines'[i] < wire'[k][2]
    <3>1. ASSUME NEW i \in 1 .. L, NEW k \in DOMAIN wire', IsLine(k)' PROVE liveLines'[i] < wire'[k][2]
      <4>1. CASE i = L
        BY <1>4, <2>2, <3>1, <4>1
      <4>2. CASE i /= L
        <5>1. i \in 1 .. L - 1 /\ i + 1 \in 1 .. L
          BY <1>5, <3>1, <4>2
        <5> QED
          BY <1>5, <2>2, <3>1, <5>1
      <4> QED
        BY <4>1, <4>2
    <3> QED
      BY <2>2, <3>1
  <2>5. ASSUME NEW p \in DOMAIN log, Brought(p) \/ p = n PROVE Brought(p)'
    <3>1. p \in 1 .. Len(log) /\ 1 \in 1 .. L /\ 2 \in 1 .. L /\ liveLines[1] < liveLines[2] /\ liveLines'[1] = liveLines[2]
      <4>1. Len(log) \in Nat /\ DOMAIN log = 1 .. Len(log)
        BY DEF WatchTypes
      <4>2. 1 \in 1 .. L /\ 2 \in 1 .. L /\ 1 \in 1 .. L - 1
        BY <1>5, <2>1
      <4>3. liveLines[1] < liveLines[2]
        BY <1>5, <4>2 DEF LinesInv
      <4>4. liveLines'[1] = liveLines[2]
        BY <2>2, <4>2
      <4> QED
        BY <4>1, <4>2, <4>3, <4>4
    <3>2. p < liveLines[2] => Displaced(p)'
      BY <1>8, <2>2, <3>1 DEF Displaced
    <3>3. CASE p = n
      <4>1. L \in DOMAIN liveLines' /\ liveLines'[L] = p
        BY <1>5, <2>1, <2>2, <3>3
      <4> QED
        BY <4>1 DEF Brought, Shown
    <3>4. ASSUME NEW i \in DOMAIN liveLines, p = liveLines[i] PROVE Brought(p)'
      <4>1. CASE i = 1
        BY <3>1, <3>2, <3>4, <4>1 DEF Brought
      <4>2. CASE i /= 1
        <5>1. i - 1 \in DOMAIN liveLines' /\ liveLines'[i - 1] = p
          BY <1>5, <2>2, <3>4, <4>2
        <5> QED
          BY <5>1 DEF Brought, Shown
      <4> QED
        BY <4>1, <4>2
    <3>5. ASSUME Displaced(p) PROVE Brought(p)'
      <4>1. p < liveLines[1] /\ liveLines[1] \in 1 .. Len(log) /\ liveLines[2] \in 1 .. Len(log)
        BY <1>5, <3>1, <3>5 DEF Displaced
      <4> QED
        BY <3>1, <3>2, <4>1 DEF Brought
    <3>6. ASSUME p \in logs PROVE Brought(p)'
      BY <1>1, <3>6 DEF Brought, Shown
    <3> QED
      BY <2>5, <3>3, <3>4, <3>5, <3>6 DEF Brought, Shown
  <2> QED
    BY <1>1, <2>2, <2>3, <2>4, <2>5, LinesPass DEF n
<1> QED
  BY <1>6, <1>7, <1>8

\* What holds at every moment of a deployment that is watched.
WatchInv == PipeTypes /\ WatchTypes /\ PipeStageInv /\ SaidInv /\ LinesInv /\ PageInv /\ CommandInv

\* It holds before the job has started.
LEMMA WatchStarts == Init => WatchInv
<1> SUFFICES ASSUME Init PROVE WatchInv
  OBVIOUS
<1>1. /\ worker = [at |-> "queued", stage |-> 1] /\ node = [at |-> "none", stage |-> 4, success |-> FALSE]
      /\ stages = [i \in 1 .. 6 |-> "none"] /\ log = <<>> /\ wire = <<>>
      /\ status = "queued" /\ run = "none" /\ net = "none" /\ verdict = "none" /\ stream = "none"
      /\ reading = [at |-> "none", read |-> [deployment |-> TRUE, run |-> TRUE]]
      /\ view = [deployment |-> TRUE, run |-> TRUE]
      /\ watcher \in {"page", "command"} /\ listed = FALSE /\ logs = {} /\ liveLines = <<>> /\ missed = FALSE /\ unheard = FALSE
  BY DEF Init, Stages, Deploy, NoReading, Fresh2
<1>2. PipeTypes
  BY <1>1 DEF PipeTypes, Workers, Reports, StageRows, Stages, Deploy
<1>3. log \in Seq(Writers) /\ wire \in Seq(Events) /\ DOMAIN log = {} /\ \A e : ~OnWire(e)
  BY <1>1 DEF OnWire
<1>4. WatchTypes
  <2>1. liveLines \in Seq(1 .. Len(log)) /\ logs \subseteq DOMAIN log
    BY <1>1
  <2> QED
    BY <1>1, <1>3, <2>1 DEF WatchTypes
<1>5. PipeStageInv
  BY <1>1 DEF PipeStageInv, Stages, Package, Deploy
<1>6. SaidInv
  BY <1>1, <1>3 DEF SaidInv
<1>7. PageInv /\ CommandInv
  BY <1>1, <1>3 DEF PageInv, CommandInv
<1>8. LinesInv
  BY <1>1 DEF LinesInv
<1> QED
  BY <1>2, <1>4, <1>5, <1>6, <1>7, <1>8 DEF WatchInv

\* Steps of who watches that leave the wire alone.
LEMMA QuietWatchers ==
    ASSUME WatchInv, StartWatching \/ Subscribe \/ LoseStream \/ ReadLogs \/ ReadDeployment \/ ReadRun \/ Reconcile
    PROVE  WatchInv'
<1>1. /\ PipeTypes /\ PipeStageInv /\ SaidInv /\ UNCHANGED <<status, run, stages, log, wire, worker, node, net, watcher>>
      /\ reading \in [at : {"none", "asked", "half"}, read : [deployment : BOOLEAN, run : BOOLEAN]]
      /\ watcher \in {"page", "command"}
  BY DEF StartWatching, Subscribe, LoseStream, ReadLogs, ReadDeployment, ReadRun, Reconcile, pipelineVars, WatchInv,
         WatchTypes
<1>2. (\A e : OnWire(e)' <=> OnWire(e)) /\ (Coming' <=> Coming) /\ Events' = Events
  BY <1>1 DEF OnWire, Coming, Events
<1>8. /\ liveLines' = liveLines /\ (logs' = logs \/ (~listed /\ logs' \subseteq DOMAIN log))
      /\ (~listed' => ~listed /\ logs' = logs) /\ LinesInv
  BY DEF StartWatching, Subscribe, LoseStream, ReadLogs, ReadDeployment, ReadRun, Reconcile, WatchInv, WatchTypes
<1>9. LinesInv' /\ \A p : Brought(p) => Brought(p)'
  <2>1. LinesInv'
    BY <1>1, <1>8 DEF LinesInv, IsLine
  <2>2. logs \subseteq logs'
    BY <1>8 DEF LinesInv
  <2> QED
    BY <1>8, <2>1, <2>2 DEF Brought, Shown, Displaced
<1>3. verdict' = verdict \/ verdict' = status
  BY DEF StartWatching, Subscribe, LoseStream, ReadLogs, ReadDeployment, ReadRun, Reconcile
<1>4. PipeTypes' /\ PipeStageInv' /\ SaidInv' /\ (Untold' <=> Untold)
  BY <1>1, <1>2, <1>3, WatchersOnlyRead
<1>5. WatchTypes'
  <2>1. CASE StartWatching
    BY <1>1, <1>2, <2>1 DEF StartWatching, WatchInv, WatchTypes, NoReading, Fresh2
  <2>2. CASE Subscribe \/ LoseStream \/ ReadLogs
    BY <1>1, <1>2, <2>2 DEF Subscribe, LoseStream, ReadLogs, WatchInv, WatchTypes
  <2>3. CASE ReadDeployment
    BY <1>1, <1>2, <2>3 DEF ReadDeployment, WatchInv, WatchTypes, Fresh2
  <2>4. CASE ReadRun
    BY <1>1, <1>2, <2>4 DEF ReadRun, WatchInv, WatchTypes, NoReading, Fresh2
  <2>5. CASE Reconcile
    BY <1>1, <1>2, <2>5 DEF Reconcile, WatchInv, WatchTypes, PipeTypes
  <2> QED
    BY <2>1, <2>2, <2>3, <2>4, <2>5
<1>6. PageInv'
  <2> DEFINE C == Coming
             U == Untold
             Line(p) == OnWire(<<"line", p>>)
  <2>1. /\ PageInv /\ (C' <=> C) /\ (U' <=> U) /\ \A p : Line(p)' <=> Line(p)
        /\ WatchTypes /\ CommandInv /\ \A p : Brought(p) => Brought(p)'
    BY <1>2, <1>4, <1>9 DEF WatchInv
  <2>2. CASE StartWatching
    BY <1>1, <2>1, <2>2 DEF StartWatching, PageInv, NoReading
  <2>3. CASE Subscribe
    BY <1>1, <2>1, <2>3 DEF Subscribe, PageInv
  <2>4. CASE LoseStream
    BY <1>1, <2>1, <2>4 DEF LoseStream, PageInv
  <2>5. CASE ReadLogs
    BY <1>1, <2>1, <2>5 DEF ReadLogs, PageInv
  <2>6. CASE ReadDeployment
    BY <1>1, <2>1, <2>6 DEF ReadDeployment, PageInv, Fresh2
  <2>7. CASE ReadRun
    BY <1>1, <2>1, <2>7 DEF ReadRun, PageInv, NoReading, Fresh2
  <2>8. CASE Reconcile
    BY <1>1, <2>1, <2>8 DEF Reconcile, PageInv
  <2> QED
    BY <2>2, <2>3, <2>4, <2>5, <2>6, <2>7, <2>8
<1>7. CommandInv'
  <2>1. CommandInv
    BY DEF WatchInv
  <2>2. watcher = "command" => reading.at = "none"
    BY <2>1 DEF CommandInv
  <2>3. CASE StartWatching \/ Subscribe \/ LoseStream
    BY <1>1, <1>2, <2>1, <2>3 DEF StartWatching, Subscribe, LoseStream, CommandInv
  <2>4. CASE ReadLogs \/ ReadDeployment \/ ReadRun
    BY <1>1, <2>2, <2>4 DEF ReadLogs, ReadDeployment, ReadRun, CommandInv
  <2>5. CASE Reconcile
    BY <1>1, <2>1, <2>5 DEF Reconcile, CommandInv
  <2> QED
    BY <2>3, <2>4, <2>5
<1> QED
  BY <1>4, <1>5, <1>6, <1>7, <1>9 DEF WatchInv

\* Events that arrive, or pass who watches by.
LEMMA EventsArrive ==
    ASSUME WatchInv, HearLine \/ HearStatus \/ MissEvent
    PROVE  WatchInv'
<1> DEFINE e == Head(wire)
<1>1. /\ PipeTypes /\ PipeStageInv /\ SaidInv /\ UNCHANGED <<status, run, stages, log, worker, node, net, watcher>>
      /\ reading \in [at : {"none", "asked", "half"}, read : [deployment : BOOLEAN, run : BOOLEAN]]
      /\ watcher \in {"page", "command"} /\ wire \in Seq(Events) /\ wire /= <<>> /\ wire' = Tail(wire)
  BY DEF HearLine, HearStatus, MissEvent, Arrives, WatchInv, WatchTypes
<1>2. /\ wire' \in Seq(Events) /\ e \in Events /\ OnWire(e)
      /\ \A f : (OnWire(f)' => OnWire(f)) /\ (OnWire(f) => OnWire(f)' \/ f = e)
  BY <1>1, WireTakes
<1>3. /\ e[1] = "line" => e = <<"line", e[2]>> /\ e[2] \in 1 .. Len(log)
      /\ e[1] = "status" => e = <<"status", e[2]>> /\ e[2] \in Told
  BY <1>2, EventFacts
<1>4. Events' = Events
  BY <1>1 DEF Events
<1>5. PICK kind, n : e[1] = kind /\ e[2] = n
  OBVIOUS
<1>6. /\ kind = "line" => e = <<"line", n>> /\ n \in DOMAIN log
      /\ kind = "status" => e = <<"status", n>> /\ n \in Told
  BY <1>3, <1>5 DEF WatchInv, WatchTypes
<1>7. /\ HearLine => /\ kind = "line" /\ stream = "on" /\ UNCHANGED <<stream, verdict, reading, view, listed, logs, missed, unheard>>
      /\ HearStatus =>
          /\ kind = "status" /\ stream = "on" /\ UNCHANGED <<view, listed, logs, liveLines, missed, unheard>>
          /\ \/ watcher = "page" /\ reading' = [NoReading EXCEPT !.at = "asked"] /\ UNCHANGED <<stream, verdict>>
             \/ /\ watcher = "command" /\ UNCHANGED reading
                /\ IF n \in Ends THEN stream' = "closed" /\ verdict' = n ELSE UNCHANGED <<stream, verdict>>
      /\ MissEvent =>
          /\ stream /= "on" /\ UNCHANGED <<stream, verdict, reading, view, listed, logs, liveLines>>
          /\ \/ kind = "line" /\ unheard' = (watcher = "page") /\ UNCHANGED missed
             \/ /\ kind = "status" /\ UNCHANGED unheard
                /\ missed' = (missed \/ IF watcher = "page" THEN reading.at /= "asked" /\ stream = "off" ELSE n \in Ends)
  BY <1>5 DEF HearLine, HearStatus, MissEvent, Arrives, AskAgain
<1>15. /\ LinesInv' /\ liveLines' \in Seq(1 .. Len(log))
       /\ \A p \in DOMAIN log : watcher = "page" /\ Brought(p) => Brought(p)'
       /\ \A p \in DOMAIN log : watcher = "page" /\ HearLine /\ p = n => Brought(p)'
  <2>1. CASE HearLine
    BY <1>5, <2>1, LinesAreHeard DEF WatchInv
  <2>2. CASE HearStatus \/ MissEvent
    <3>1. UNCHANGED <<listed, logs, liveLines>> /\ ~HearLine
      BY <1>7, <2>2
    <3>2. \A p : Brought(p) => Brought(p)'
      BY <3>1 DEF Brought, Shown, Displaced
    <3>3. DOMAIN wire' = 1 .. Len(wire) - 1 /\ DOMAIN wire = 1 .. Len(wire) /\ Len(wire) \in Nat
          /\ \A k \in DOMAIN wire' : wire'[k] = wire[k + 1]
      BY <1>1
    <3>4. \A k \in DOMAIN wire' : k + 1 \in DOMAIN wire /\ (IsLine(k)' => IsLine(k + 1))
      BY <3>3 DEF IsLine
    <3>5. LinesInv /\ WatchTypes
      BY DEF WatchInv
    <3>6. \A i \in DOMAIN liveLines', k \in DOMAIN wire' : IsLine(k)' => liveLines'[i] < wire'[k][2]
      BY <3>1, <3>3, <3>4, <3>5 DEF LinesInv
    <3>7. LinesInv'
      BY <1>1, <3>1, <3>5, <3>6, LinesPass DEF LinesInv
    <3> QED
      BY <3>1, <3>2, <3>5, <3>7 DEF WatchTypes
  <2> QED
    BY <2>1, <2>2
<1> HIDE DEF e
<1>8. /\ \A f : OnWire(f)' => OnWire(f)
      /\ kind = "line" => \A s : OnWire(<<"status", s>>) => OnWire(<<"status", s>>)'
      /\ kind = "line" => \A p : OnWire(<<"line", p>>) => OnWire(<<"line", p>>)' \/ p = n
      /\ kind = "status" => \A p : OnWire(<<"line", p>>) => OnWire(<<"line", p>>)'
      /\ kind = "status" => \A s : OnWire(<<"status", s>>) => OnWire(<<"status", s>>)' \/ s = n
      /\ kind = "status" => OnWire(<<"status", n>>)
  BY <1>2, <1>6
<1>9. kind = "line" => (Coming' <=> Coming)
  BY <1>1, <1>8 DEF Coming
<1>10. verdict' = verdict \/ OnWire(<<"status", verdict'>>)
  BY <1>7, <1>8
<1>11. PipeTypes' /\ PipeStageInv' /\ SaidInv' /\ (Untold' <=> Untold)
  BY <1>1, <1>8, <1>10, WatchersOnlyRead
<1>12. WatchTypes'
  <2>1. WatchTypes /\ log' \in Seq(Writers) /\ wire' \in Seq(Events') /\ DOMAIN log' = DOMAIN log
    BY <1>1, <1>2, <1>4 DEF WatchInv, WatchTypes
  <2>2. logs' \subseteq DOMAIN log' /\ liveLines' \in Seq(1 .. Len(log'))
    BY <1>1, <1>7, <1>15, <2>1 DEF WatchTypes
  <2>3. stream' \in {"none", "off", "on", "closed"} /\ verdict' \in {"none", "queued", "building", "deploying", "running", "failed"}
    BY <1>7, <2>1 DEF WatchTypes, Ends
  <2>4. reading' \in [at : {"none", "asked", "half"}, read : [deployment : BOOLEAN, run : BOOLEAN]]
    <3>1. reading' = reading \/ reading' = [NoReading EXCEPT !.at = "asked"]
      BY <1>7
    <3>2. [NoReading EXCEPT !.at = "asked"] \in [at : {"none", "asked", "half"}, read : [deployment : BOOLEAN, run : BOOLEAN]]
      BY DEF NoReading, Fresh2
    <3> QED
      BY <1>1, <3>1, <3>2
  <2>5. view' = view /\ listed' = listed /\ missed' \in BOOLEAN /\ unheard' \in BOOLEAN
    BY <1>7, <2>1 DEF WatchTypes
  <2> QED
    BY <1>1, <2>1, <2>2, <2>3, <2>4, <2>5 DEF WatchTypes
<1>13. PageInv'
  <2> SUFFICES ASSUME watcher' = "page" PROVE
        /\ stream' /= "closed" /\ (listed' => stream' /= "none")
        /\ \A p \in DOMAIN log' : log'[p] = "failure" \/ Brought(p)' \/ unheard' \/ OnWire(<<"line", p>>)'
        /\ stream' /= "none" /\ ~missed' /\ ~Untold' /\ ~Coming' =>
            /\ reading'.at = "none" => view'.deployment /\ view'.run
            /\ reading'.at = "half" => reading'.read.deployment
    BY DEF PageInv
  <2>1. /\ watcher = "page" /\ stream /= "closed" /\ (listed => stream /= "none")
        /\ \A p \in DOMAIN log : log[p] = "failure" \/ Brought(p) \/ unheard \/ OnWire(<<"line", p>>)
        /\ stream /= "none" /\ ~missed /\ ~Untold /\ ~Coming =>
            /\ reading.at = "none" => view.deployment /\ view.run
            /\ reading.at = "half" => reading.read.deployment
    BY <1>1 DEF WatchInv, PageInv
  <2>2. \A p \in DOMAIN log' : log'[p] = "failure" \/ Brought(p)' \/ unheard' \/ OnWire(<<"line", p>>)'
    <3>1. CASE HearLine
      <4>1. kind = "line" /\ (unheard' <=> unheard)
        BY <1>7, <3>1
      <4> QED
        BY <1>1, <1>8, <1>15, <2>1, <3>1, <4>1
    <3>2. CASE kind = "status" /\ UNCHANGED unheard
      BY <1>1, <1>8, <1>15, <2>1, <3>2
    <3>3. CASE MissEvent /\ kind = "line"
      <4>1. unheard'
        BY <1>7, <2>1, <3>3
      <4> QED
        BY <4>1
    <3> QED
      BY <1>1, <1>7, <3>1, <3>2, <3>3
  <2>3. [NoReading EXCEPT !.at = "asked"].at = "asked"
    BY DEF NoReading
  <2>4. CASE HearLine
    BY <1>7, <1>9, <1>11, <2>1, <2>2, <2>4
  <2>5. CASE HearStatus
    BY <1>7, <2>1, <2>2, <2>3, <2>5
  <2>6. CASE MissEvent
    <3>1. CASE kind = "line" /\ UNCHANGED missed
      BY <1>7, <1>9, <1>11, <2>1, <2>2, <2>6, <3>1
    <3>2. CASE kind = "status"
      <4>1. missed' \/ reading'.at = "asked" \/ stream' = "none"
        <5>1. stream /= "on" /\ stream /= "closed" /\ stream \in {"none", "off", "on", "closed"}
          BY <1>7, <2>1, <2>6 DEF WatchInv, WatchTypes
        <5>2. missed' <=> missed \/ (reading.at /= "asked" /\ stream = "off")
          BY <1>7, <2>1, <2>6, <3>2
        <5> QED
          BY <1>7, <2>6, <5>1, <5>2
      <4> QED
        BY <1>7, <2>1, <2>2, <2>6, <4>1
    <3> QED
      BY <1>7, <2>6, <3>1, <3>2
  <2> QED
    BY <2>4, <2>5, <2>6
<1>14. CommandInv'
  <2> SUFFICES ASSUME watcher' = "command"
               PROVE  /\ reading'.at = "none"
                      /\ (worker'.at = "failed" \/ node'.at = "done") /\ ~missed' /\ stream' /= "closed" =>
                          OnWire(<<"status", "running">>)' \/ OnWire(<<"status", "failed">>)'
    BY DEF CommandInv
  <2>1. /\ watcher = "command" /\ reading.at = "none"
        /\ (worker.at = "failed" \/ node.at = "done") /\ ~missed /\ stream /= "closed" =>
            OnWire(<<"status", "running">>) \/ OnWire(<<"status", "failed">>)
    BY <1>1 DEF WatchInv, CommandInv
  <2>2. reading' = reading /\ (stream' = stream \/ stream' = "closed")
    BY <1>7, <2>1
  <2>3. CASE kind = "line"
    <3>1. missed' = missed /\ stream' = stream
      BY <1>7, <2>3
    <3> QED
      BY <1>1, <1>8, <2>1, <2>2, <2>3, <3>1
  <2>4. CASE kind = "status" /\ n \in Ends
    <3>1. missed' \/ stream' = "closed"
      <4>1. CASE HearStatus
        BY <1>7, <2>1, <2>4, <4>1
      <4>2. CASE MissEvent
        <5>1. missed' <=> missed \/ n \in Ends
          BY <1>7, <2>1, <2>4, <4>2
        <5> QED
          BY <2>4, <5>1
      <4> QED
        BY <1>7, <2>4, <4>1, <4>2
    <3> QED
      BY <2>1, <2>2, <3>1
  <2>5. CASE kind = "status" /\ n \notin Ends
    <3>1. missed' => missed
      BY <1>7, <2>1, <2>5
    <3>2. missed => missed'
      BY <1>7, <2>1, <2>5
    <3>3. \A s \in Ends : OnWire(<<"status", s>>) => OnWire(<<"status", s>>)'
      BY <1>8, <2>5
    <3> QED
      BY <1>1, <2>1, <2>2, <3>1, <3>2, <3>3 DEF Ends
  <2> QED
    BY <1>7, <2>3, <2>4, <2>5
<1> QED
  BY <1>11, <1>12, <1>13, <1>14, <1>15 DEF WatchInv

\* Every step keeps it.
LEMMA WatchKept == ASSUME WatchInv, [Next]_vars PROVE WatchInv'
<1>1. CASE Pipeline
  <2>1. PipelineNext /\ UNCHANGED <<watcher, stream, verdict, missed>>
    BY <1>1 DEF Pipeline
  <2>2. log \in Seq(Writers) /\ wire \in Seq(Events)
    BY DEF WatchInv, WatchTypes
  <2>3. PipeTypes' /\ PipeStageInv'
    BY <2>1, PipelineStages DEF WatchInv
  <2>4. SaidInv'
    BY <2>1, <2>2, PipelineSaid DEF WatchInv
  <2>5. PageInv' /\ WatchTypes' /\ LinesInv'
    BY <1>1, PagesHold, PipelineTypes, LinesAreSent DEF WatchInv
  <2>6. CommandInv'
    <3>1. reading' = IF reading.at = "half" THEN [reading EXCEPT !.read = Hold(@)] ELSE reading
      BY <1>1 DEF Pipeline
    <3> QED
      BY <2>1, <2>2, <3>1, PipelineEnds DEF WatchInv, CommandInv
  <2> QED
    BY <2>3, <2>4, <2>5, <2>6 DEF WatchInv
<1>2. CASE UNCHANGED vars
  BY <1>2 DEF vars, pipelineVars, pageVars, WatchInv, PipeTypes, WatchTypes, PipeStageInv, SaidInv, LinesInv, PageInv,
              CommandInv, Dispatched, NodeOver, Coming, Untold, OnWire, Events, IsLine, Brought, Shown, Displaced
<1> QED
  BY <1>1, <1>2, QuietWatchers, EventsArrive DEF Next

\* What was proved of every moment says what is seen at the end.
LEMMA WatchersSee == ASSUME WatchInv PROVE WatchersLearnTheEnd
<1>1. /\ worker \in Workers /\ node \in Reports /\ stages \in StageRows
      /\ watcher \in {"page", "command"} /\ view \in [deployment : BOOLEAN, run : BOOLEAN]
  BY DEF WatchInv, PipeTypes, WatchTypes
<1>2. ASSUME AtRest
      PROVE  /\ worker.at \in {"done", "failed", "dead"} /\ node.at \in {"none", "done", "lost"}
             /\ net \in {"none", "done", "failed"} /\ ~Coming /\ \A e : ~OnWire(e)
  BY <1>2 DEF AtRest, OnWire, Coming
<1>3. StagesClosed
  <2>1. run = "succeeded" => \A i \in Stages : stages[i] = "succeeded"
    BY DEF WatchInv, PipeStageInv
  <2>2. ASSUME AtRest, NEW i \in Stages, stages[i] \in {"pending", "running"}, worker.at = "done", node.at /= "lost"
        PROVE  FALSE
    <3>1. node.at = "done" /\ node.stage = 7 /\ \A j \in Stages : j < 4 => stages[j] = "succeeded"
      BY <1>2, <2>2 DEF WatchInv, PipeStageInv, Deploy
    <3>2. \A j \in Stages : j \in 4 .. 6 => stages[j] \in {"succeeded", "failed", "skipped"}
      BY <3>1 DEF WatchInv, PipeStageInv, Deploy
    <3>3. i < 4 \/ i \in 4 .. 6
      BY DEF Stages
    <3> QED
      BY <2>2, <3>1, <3>2, <3>3
  <2> QED
    BY <1>2, <2>1, <2>2 DEF StagesClosed
<1>4. PageTellsTheEnd
  <2> SUFFICES ASSUME AtRest, watcher = "page", listed, reading.at = "none"
               PROVE  /\ view = Fresh2 \/ missed \/ Untold
                      /\ \A p \in DOMAIN log \ Shown : unheard \/ log[p] = "failure" \/ Displaced(p)
    BY DEF PageTellsTheEnd
  <2>1. ~missed /\ ~Untold => view.deployment /\ view.run
    BY <1>2 DEF WatchInv, PageInv
  <2>2. view.deployment /\ view.run => view = Fresh2
    BY <1>1 DEF Fresh2
  <2>3. \A p \in DOMAIN log \ Shown : unheard \/ log[p] = "failure" \/ Displaced(p)
    BY <1>2 DEF WatchInv, PageInv, Brought
  <2> QED
    BY <2>1, <2>2, <2>3
<1>5. CommandTellsTheEnd
  <2> SUFFICES ASSUME watcher = "command"
               PROVE  /\ AtRest /\ stream = "on" => missed \/ Untold
                      /\ verdict = "running" => node.success
                      /\ AtRest /\ verdict = "failed" =>
                          status = "failed" \/ worker.at \in {"failed", "dead"} \/ net = "failed"
    BY DEF CommandTellsTheEnd
  <2>1. ASSUME AtRest, stream = "on", ~missed, ~Untold PROVE FALSE
    <3>1. worker.at = "done" => node.at /= "none"
      BY DEF WatchInv, PipeStageInv
    <3>2. worker.at = "failed" \/ node.at = "done"
      BY <1>2, <2>1, <3>1 DEF Untold
    <3> QED
      BY <1>2, <2>1, <3>2 DEF WatchInv, CommandInv
  <2>2. verdict = "running" => node.success
    BY DEF WatchInv, SaidInv
  <2>3. AtRest /\ verdict = "failed" => status = "failed" \/ worker.at \in {"failed", "dead"} \/ net = "failed"
    BY <1>2 DEF WatchInv, SaidInv
  <2> QED
    BY <2>1, <2>2, <2>3
<1> QED
  BY <1>3, <1>4, <1>5 DEF WatchersLearnTheEnd

\* The page and the command end with what was stored, except for the causes that the
\* property names, whatever the order of reads, events and writes.
THEOREM WatchersAreTold == Spec => []WatchersLearnTheEnd
<1>1. Init => WatchInv
  BY WatchStarts
<1>2. WatchInv /\ [Next]_vars => WatchInv'
  BY WatchKept
<1>3. WatchInv => WatchersLearnTheEnd
  BY WatchersSee
<1> QED
  BY <1>1, <1>2, <1>3, PTL DEF Spec

=============================================================================
