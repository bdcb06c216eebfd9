--------------------------- MODULE NodeContainers ---------------------------
(***************************************************************************)
(* What the commands of one app do on its node: DEPLOY_APP (a rollback is  *)
(* one too), STOP_APP, RESTART_APP and REMOVE_APP in executor.rs, and the  *)
(* node's own DOCKER_PRUNE, upon the one container that has the app's name *)
(* (docker.rs), and its route.                                             *)
(*                                                                         *)
(* The agent runs every command in a task of its own, so commands it got   *)
(* together run together. A deploy prepares an image (Releases says of     *)
(* which code), then removes, creates and starts the container by its      *)
(* name, checks the host port it allocated, and routes the app's domain    *)
(* there.                                                                  *)
(***************************************************************************)
EXTENDS Integers, Faults

CONSTANT MaxOrders      \* bound on the commands of the app

ASSUME OrderAssumption == MaxOrders \in Nat

Orders == 1 .. MaxOrders

VARIABLES
    order,      \* order[o]: what the o-th command asks for
    task,       \* task[o]: where the agent's task for it stands
    box,        \* the container: the deploy it is of (0: there is none), whether it is up
    path,       \* the deploy whose host port the domain is routed to, or 0
    crossed     \* history: a command began before all earlier ones had ended

containerVars == <<order, task, box, path, crossed>>

Done == {"none", "succeeded", "unbuilt", "failed", "lost"}   \* unbuilt: failed without an image
NoBox == [of |-> 0, up |-> FALSE]

ContainersInit ==
    /\ order = [o \in Orders |-> "none"]
    /\ task = [o \in Orders |-> "none"]
    /\ box = NoBox
    /\ path = 0
    /\ crossed = FALSE

BeginTask(o) ==
    /\ task[o] = "none" /\ \A p \in Orders : p < o => task[p] /= "none"
    /\ \E k \in {"deploy", "stop", "restart", "remove", "prune"} :
        /\ order' = [order EXCEPT ![o] = k]
        /\ task' = [task EXCEPT ![o] = IF k = "deploy" THEN "prepare" ELSE k]
    /\ crossed' = (crossed \/ \E p \in Orders : task[p] \notin Done)
    /\ UNCHANGED <<box, path, faults>>

Moves(o, from, to) ==
    /\ task[o] = from
    /\ task' = [task EXCEPT ![o] = to]
    /\ UNCHANGED <<order, crossed>>

-----------------------------------------------------------------------------
(* A deploy *)

\* Pull, or clone and build, which the repository may fail.
PrepareImage(o) ==
    /\ \E to \in {"replace", "unbuilt"} : Moves(o, "prepare", to)
    /\ UNCHANGED <<box, path, faults>>

\* Mutant: a container that is up is not removed by force.
ReplaceStopped(o) ==
    /\ Moves(o, "replace", "create")
    /\ box' = IF box.up THEN box ELSE NoBox
    /\ UNCHANGED <<path, faults>>

\* The answer is not looked at.
ReplaceContainer(o) ==
    /\ Moves(o, "replace", "create")
    /\ \/ box' = NoBox /\ UNCHANGED faults
       \/ Fault /\ UNCHANGED box
    /\ UNCHANGED path

\* Docker refuses a name that is taken.
CreateContainer(o) ==
    /\ Moves(o, "create", IF box = NoBox THEN "start" ELSE "failed")
    /\ box' = IF box = NoBox THEN [of |-> o, up |-> FALSE] ELSE box
    /\ UNCHANGED <<path, faults>>

\* Whatever has the name by now is started, or is up already.
StartContainer(o) ==
    /\ Moves(o, "start", IF box = NoBox THEN "failed" ELSE "check")
    /\ box' = [box EXCEPT !.up = box /= NoBox]
    /\ UNCHANGED <<path, faults>>

\* Only the deploy's own container, if it is up, can answer at the port. A deploy
\* that is not healthy leaves the container, and the route of the one before it.
CheckHealth(o) ==
    /\ \/ box = [of |-> o, up |-> TRUE] /\ Moves(o, "check", "route")
       \/ Moves(o, "check", "failed")
    /\ UNCHANGED <<box, path, faults>>

\* A deploy succeeds without its route, too.
RouteDomain(o) ==
    /\ Moves(o, "route", "succeeded")
    /\ \/ path' = o /\ UNCHANGED faults
       \/ Fault /\ UNCHANGED path
    /\ UNCHANGED box

-----------------------------------------------------------------------------
(* The other commands, each of which Docker refuses without a container *)

ActOnContainer(o, kind, after) ==
    /\ Moves(o, kind, IF box = NoBox THEN "failed" ELSE "succeeded")
    /\ box' = IF box = NoBox THEN NoBox ELSE after
    /\ UNCHANGED <<path, faults>>

StopContainer(o) == ActOnContainer(o, "stop", [box EXCEPT !.up = FALSE])
RestartContainer(o) == ActOnContainer(o, "restart", [box EXCEPT !.up = TRUE])

\* The route stays.
RemoveContainer(o) == ActOnContainer(o, "remove", NoBox)

\* Every container that is not up goes: the app's if it was stopped, or if a deploy has
\* created and not started it.
PruneContainers(o) ==
    /\ Moves(o, "prune", "succeeded")
    /\ box' = IF box.up THEN box ELSE NoBox
    /\ UNCHANGED <<path, faults>>

-----------------------------------------------------------------------------
(* Faults. The containers outlive the agent. *)

\* The command's timeout drops the task where it stands, or Docker fails.
BreakOff(o) ==
    /\ task[o] \notin Done /\ Fault
    /\ task' = [task EXCEPT ![o] = "failed"]
    /\ UNCHANGED <<order, box, path, crossed>>

AgentStops ==
    /\ \E o \in Orders : task[o] \notin Done
    /\ Fault
    /\ task' = [o \in Orders |-> IF task[o] \in Done THEN task[o] ELSE "lost"]
    /\ UNCHANGED <<order, box, path, crossed>>

-----------------------------------------------------------------------------
ContainersNext ==
    \/ \E o \in Orders :
        \/ BeginTask(o) \/ PrepareImage(o) \/ ReplaceContainer(o) \/ CreateContainer(o)
        \/ StartContainer(o) \/ CheckHealth(o) \/ RouteDomain(o)
        \/ StopContainer(o) \/ RestartContainer(o) \/ RemoveContainer(o)
        \/ PruneContainers(o) \/ BreakOff(o)
    \/ AgentStops

ContainersSpec == ContainersInit /\ faults = 0 /\ [][ContainersNext]_<<containerVars, faults>>

-----------------------------------------------------------------------------
(* Properties *)

ContainersTypeOK ==
    /\ order \in [Orders -> {"none", "deploy", "stop", "restart", "remove", "prune"}]
    /\ task \in [Orders -> Done \union {"prepare", "replace", "create", "start", "check",
                                        "route", "stop", "restart", "remove", "prune"}]
    /\ box \in [of : Orders \union {0}, up : BOOLEAN]
    /\ path \in Orders \union {0}
    /\ crossed \in BOOLEAN

Latest(S) == IF S = {} THEN 0 ELSE CHOOSE o \in S : \A p \in S : p <= o
LastOf(k, ends) == Latest({o \in Orders : order[o] = k /\ task[o] \in ends})

\* When no command of the app is under way and nothing failed by itself: if only
\* deploys and restarts were asked for and one deploy had its image, the container
\* is up, however they crossed; and if none crossed, the container is the one of
\* the last deploy that had its image, healthy or not, unless it was stopped since, or
\* removed, or pruned while it was stopped, and the domain is routed to the last
\* deploy that succeeded.
BoxFollowsOrders ==
    LET built == LastOf("deploy", {"succeeded", "failed"})
        did(o, k) == order[o] = k /\ task[o] = "succeeded" /\ o > built
        still(o) == \E s \in 1 .. o - 1 : did(s, "stop") /\ \A r \in s .. o - 1 : ~did(r, "restart")
        gone == \E o \in Orders : did(o, "remove") \/ (did(o, "prune") /\ still(o))
    IN
    (\A o \in Orders : task[o] \in Done) /\ faults = 0 =>
        /\ built > 0 /\ (\A o \in Orders : order[o] \notin {"stop", "remove", "prune"}) => box.up
        /\ ~crossed =>
            /\ box.of = IF gone THEN 0 ELSE built
            /\ box.up <=> box.of > 0 /\ ~still(MaxOrders + 1)
            /\ path = LastOf("deploy", {"succeeded"})
=============================================================================
