----------------------------- MODULE Autoscaling -----------------------------
(***************************************************************************)
(* The autoscaling of one app: its ScalingPolicy row, the evaluations that *)
(* the autoscale queue repeats every thirty seconds, the SCALE_APP         *)
(* commands they dispatch, the replica containers on the node and the      *)
(* reports that write the count back.                                      *)
(*                                                                         *)
(* An evaluation decides on the policy and the count it read, dispatches,  *)
(* and only then writes the count and the start of the cooldown.  Nothing  *)
(* keeps a second evaluation, an update of the policy or the report of the *)
(* node from coming between.  The node, too, lists its containers first    *)
(* and removes and creates afterwards, one command beside another.  A      *)
(* command that it claims before it is signed it refuses, and the report   *)
(* of that, too, writes the count back.                                    *)
(*                                                                         *)
(* The app exists and has a node, and its containers other than replicas   *)
(* are left out.  Percentages are whole numbers.                           *)
(***************************************************************************)
EXTENDS Integers, FiniteSets

CONSTANTS
    Evaluations,    \* evaluations whose commands may be under way at once
    Requests,       \* requests that set the policy
    Policies,       \* policies they set
    NoPolicy,       \* no row
    Observations,   \* averages of the metric
    Target,         \* targetValue
    MaxFaults       \* bound on crashes, lost commands, late reports, containers that fail

ASSUME PoliciesAssumption ==
    \A p \in Policies :
        /\ p \in [enabled : BOOLEAN, min : Nat, max : Nat \ {0}]
        /\ p.min <= p.max
ASSUME NoPolicyAssumption == NoPolicy \notin Policies
ASSUME MetricAssumption == Observations \subseteq Nat /\ Target \in Nat \ {0}
ASSUME FaultAssumption == MaxFaults \in Nat

VARIABLES
    \* the ScalingPolicy row
    policy,
    current,     \* currentReplicas
    scaled,      \* lastScaledAt is set
    cooling,     \* and cooldownSeconds have not passed since
    \* requests and the queue
    put,         \* put[q]: what q has still to do with the scheduler
    scheduled,   \* evaluations are repeated
    \* evaluations
    eval,        \* eval[e]
    seen,        \* seen[e]: the policy and the count it read
    wants,       \* wants[e]: the replicas its command asks for
    \* the node
    task,        \* task[e]: where the command of e stands
    listed,      \* listed[e]: the replicas it found
    replicas,    \* the replica containers that exist, by number
    copies,      \* the counts of reports that are on their way a second time
    \* history and bounds
    crossed,     \* evaluations that another one or a request has crossed
    strayed,     \* the last scaling met another one, was refused, or went wrong
    faults

rowVars  == <<policy, current, scaled, cooling>>
putVars  == <<put, scheduled>>
evalVars == <<eval, seen, wants>>
nodeVars == <<task, listed, replicas, copies>>
vars == <<rowVars, putVars, evalVars, nodeVars, crossed, strayed, faults>>

Fault == faults < MaxFaults /\ faults' = faults + 1

-----------------------------------------------------------------------------
(* computeDesiredReplicas *)

Clamp(p, n) ==
    LET atMost == IF n < p.max THEN n ELSE p.max
    IN  IF atMost < p.min THEN p.min ELSE atMost

\* Math.ceil(a / b)
CeilDiv(a, b) == (a + b - 1) \div b

\* Within a tenth of the target.
Deadband(observed) == 10 * observed > 9 * Target /\ 10 * observed < 11 * Target

Base(n) == IF n > 0 THEN n ELSE 1

\* Mutant: within the deadband nothing changes.
DesiredUnclamped(p, n, observed) ==
    IF Deadband(observed) THEN n ELSE Clamp(p, CeilDiv(Base(n) * observed, Target))

Desired(p, n, observed) ==
    IF Deadband(observed) THEN Clamp(p, n)
    ELSE Clamp(p, CeilDiv(Base(n) * observed, Target))

-----------------------------------------------------------------------------
Unseen == [policy |-> NoPolicy, current |-> 0]

Init ==
    /\ policy = NoPolicy
    /\ current = 0
    /\ scaled = FALSE
    /\ cooling = FALSE
    /\ put = [q \in Requests |-> "idle"]
    /\ scheduled = FALSE
    /\ eval = [e \in Evaluations |-> "idle"]
    /\ seen = [e \in Evaluations |-> Unseen]
    /\ wants = [e \in Evaluations |-> 0]
    /\ task = [e \in Evaluations |-> "none"]
    /\ listed = [e \in Evaluations |-> {}]
    /\ replicas = {}
    /\ copies = {}
    /\ crossed = {}
    /\ strayed = FALSE
    /\ faults = 0

Active == {e \in Evaluations : eval[e] /= "idle"}

\* An evaluation, or a command it dispatched, has not ended.
Busy(e) == eval[e] /= "idle" \/ task[e] /= "none"

\* What an evaluation read is of no use once it has decided, what it decided is
\* none once it has recorded it and the command has ended.
Forget(e) == seen' = [seen EXCEPT ![e] = Unseen]
ForgetIf(e, ended) == wants' = IF ended THEN [wants EXCEPT ![e] = 0] ELSE wants

-----------------------------------------------------------------------------
(* Requests *)

\* The upsert.  The count starts at the minimum and is left alone later; what
\* has passed of the cooldown is judged by its new length.
Put(q, p) ==
    /\ put[q] = "idle"
    /\ put' = [put EXCEPT ![q] = IF p.enabled THEN "schedule" ELSE "remove"]
    /\ policy' = p
    /\ current' = IF policy = NoPolicy THEN p.min ELSE current
    /\ cooling' \in IF scaled THEN BOOLEAN ELSE {FALSE}
    /\ crossed' = crossed \union Active
    /\ UNCHANGED <<scaled, scheduled, evalVars, nodeVars, strayed, faults>>

\* The scheduler follows, in a call of its own.
PutSchedule(q) ==
    /\ put[q] \in {"schedule", "remove"}
    /\ scheduled' = (put[q] = "schedule")
    /\ put' = [put EXCEPT ![q] = "done"]
    /\ UNCHANGED <<rowVars, evalVars, nodeVars, crossed, strayed, faults>>

PutDies(q) ==
    /\ put[q] \in {"schedule", "remove"}
    /\ Fault
    /\ put' = [put EXCEPT ![q] = "done"]
    /\ UNCHANGED <<rowVars, scheduled, evalVars, nodeVars, crossed, strayed>>

-----------------------------------------------------------------------------
(* Evaluations: processAutoscale *)

\* What an evaluation begins with.  The others that are under way, and it, have
\* crossed one another.
Begin(e) ==
    /\ scheduled /\ ~Busy(e)
    /\ eval' = [eval EXCEPT ![e] = "read"]
    /\ seen' = [seen EXCEPT ![e] = [policy |-> policy, current |-> current]]
    /\ crossed' = IF Active = {} THEN crossed \ {e} ELSE crossed \union Active \union {e}
    /\ UNCHANGED <<rowVars, putVars, wants, nodeVars, strayed, faults>>

\* Mutant: the cooldown is not looked at.
EvalBeginHot(e) == policy /= NoPolicy /\ policy.enabled /\ Begin(e)

\* findUnique; a policy that is disabled or cools down ends the evaluation.
EvalBegin(e) == policy /= NoPolicy /\ policy.enabled /\ ~cooling /\ Begin(e)

\* Nothing was measured in the last two minutes.
EvalNoMetrics(e) ==
    /\ eval[e] = "read"
    /\ eval' = [eval EXCEPT ![e] = "idle"]
    /\ Forget(e)
    /\ UNCHANGED <<rowVars, putVars, wants, nodeVars, crossed, strayed, faults>>

\* The decision, and the command if it changes the count.
EvalDecide(e, observed) ==
    LET desired == Desired(seen[e].policy, seen[e].current, observed)
    IN  /\ eval[e] = "read"
        /\ IF desired = seen[e].current
           THEN /\ eval' = [eval EXCEPT ![e] = "idle"]
                /\ UNCHANGED <<wants, task, strayed>>
           ELSE /\ eval' = [eval EXCEPT ![e] = "record"]
                /\ wants' = [wants EXCEPT ![e] = desired]
                /\ task' = [task EXCEPT ![e] = "sent"]
                /\ strayed' = \E f \in Evaluations \ {e} : Busy(f)
        /\ Forget(e)
        /\ UNCHANGED <<rowVars, putVars, listed, replicas, copies, crossed, faults>>

\* The count and the start of the cooldown.
EvalRecord(e) ==
    /\ eval[e] = "record"
    /\ eval' = [eval EXCEPT ![e] = "idle"]
    /\ current' = wants[e]
    /\ scaled' = TRUE
    /\ cooling' = TRUE
    /\ ForgetIf(e, task[e] = "none")
    /\ UNCHANGED <<policy, putVars, seen, nodeVars, crossed, strayed, faults>>

\* A statement fails; the command may have been dispatched.
EvalFails(e) ==
    /\ eval[e] /= "idle"
    /\ Fault
    /\ eval' = [eval EXCEPT ![e] = "idle"]
    /\ Forget(e)
    /\ ForgetIf(e, task[e] = "none")
    /\ UNCHANGED <<rowVars, putVars, nodeVars, crossed, strayed>>

CoolDown ==
    /\ cooling
    /\ cooling' = FALSE
    /\ UNCHANGED <<policy, current, scaled, putVars, evalVars, nodeVars, crossed, strayed, faults>>

-----------------------------------------------------------------------------
(* The node: scale_app *)

Step(e, from, to) ==
    /\ task[e] = from
    /\ task' = [task EXCEPT ![e] = to]
    /\ IF to = "none" THEN ForgetIf(e, eval[e] /= "record") ELSE UNCHANGED wants
    /\ listed' = [listed EXCEPT ![e] =
                     IF to = "listed" THEN replicas ELSE IF to = "trimmed" THEN @ ELSE {}]
    /\ UNCHANGED <<putVars, eval, seen, crossed>>

\* The containers of the app are listed once.
ScaleList(e) ==
    /\ Step(e, "sent", "listed")
    /\ UNCHANGED <<rowVars, replicas, copies, strayed, faults>>

\* Claimed between create and update of its row, the command has no signature.  The
\* agent reports it failed and does nothing.
ScaleRefuse(e) ==
    /\ Step(e, "sent", "done")
    /\ strayed' = TRUE
    /\ UNCHANGED <<rowVars, replicas, copies, faults>>

Beyond(e)  == {i \in listed[e] : i >= wants[e]}
Missing(e) == 0..(wants[e] - 1) \ listed[e]

\* Mutant: replicas are added, never removed.
ScaleRemoveNone(e) ==
    /\ Step(e, "listed", "trimmed")
    /\ UNCHANGED <<rowVars, replicas, copies, strayed, faults>>

ScaleRemove(e) ==
    /\ Step(e, "listed", "trimmed")
    /\ replicas' = replicas \ Beyond(e)
    /\ UNCHANGED <<rowVars, copies, strayed, faults>>

\* The error of a removal is ignored.
ScaleRemoveFails(e) ==
    /\ Step(e, "listed", "trimmed")
    /\ Fault
    /\ \E kept \in Beyond(e) : replicas' = replicas \ (Beyond(e) \ {kept})
    /\ strayed' = TRUE
    /\ UNCHANGED <<rowVars, copies>>

ScaleCreate(e) ==
    /\ Step(e, "trimmed", "done")
    /\ replicas' = replicas \union Missing(e)
    /\ UNCHANGED <<rowVars, copies, strayed, faults>>

\* A container is replaced, and the new one does not start: the rest is left.
ScaleCreateFails(e) ==
    /\ Step(e, "trimmed", "done")
    /\ Fault
    /\ \E i \in Missing(e) :
          replicas' = (replicas \union {j \in Missing(e) : j < i}) \ {i}
    /\ strayed' = TRUE
    /\ UNCHANGED <<rowVars, copies>>

\* The command's timeout ends it where it is, and is reported.
ScaleTimesOut(e) ==
    /\ \E from \in {"listed", "trimmed"} : Step(e, from, "done")
    /\ Fault
    /\ strayed' = TRUE
    /\ UNCHANGED <<rowVars, replicas, copies>>

\* Mutant: the highest number is reported, not the count.
ReportHighest(e) ==
    /\ Step(e, "done", "none")
    /\ current' = wants[e] - 1
    /\ UNCHANGED <<policy, scaled, cooling, replicas, copies, strayed, faults>>

\* applyResourceResult: the count of the output, or of the command if it failed.
Report(e) ==
    /\ Step(e, "done", "none")
    /\ current' = wants[e]
    /\ UNCHANGED <<policy, scaled, cooling, replicas, copies, strayed, faults>>

\* The agent waits for the answer in vain and sends the report again: the copy is
\* applied before whatever comes next, or is still on its way.
ReportTwice(e) ==
    /\ Step(e, "done", "none")
    /\ Fault
    /\ current' = wants[e]
    /\ copies' = copies \union {wants[e]}
    /\ UNCHANGED <<policy, scaled, cooling, replicas, strayed>>

\* A copy is applied, whatever has been scaled since.
ReportLate(n) ==
    /\ n \in copies
    /\ copies' = copies \ {n}
    /\ current' = n
    /\ strayed' = (strayed \/ n /= current \/ \E e \in Evaluations : Busy(e))
    /\ UNCHANGED <<policy, scaled, cooling, putVars, evalVars, task, listed, replicas, crossed, faults>>

\* The command is lost with a poll, or with the agent.
CommandLost(e) ==
    /\ \E from \in {"sent", "listed", "trimmed", "done"} : Step(e, from, "none")
    /\ Fault
    /\ strayed' = TRUE
    /\ UNCHANGED <<rowVars, replicas, copies>>

-----------------------------------------------------------------------------
Evaluation(e) ==
    \/ EvalBegin(e) \/ EvalNoMetrics(e) \/ EvalRecord(e) \/ EvalFails(e)
    \/ \E o \in Observations : EvalDecide(e, o)

Scaling(e) ==
    \/ ScaleList(e) \/ ScaleRefuse(e)
    \/ ScaleRemove(e) \/ ScaleRemoveFails(e) \/ ScaleCreate(e) \/ ScaleCreateFails(e)
    \/ ScaleTimesOut(e)
    \/ Report(e) \/ ReportTwice(e) \/ CommandLost(e)

Next ==
    \/ \E q \in Requests : PutSchedule(q) \/ PutDies(q) \/ \E p \in Policies : Put(q, p)
    \/ \E e \in Evaluations : Evaluation(e) \/ Scaling(e)
    \/ \E n \in copies : ReportLate(n)
    \/ CoolDown

Spec == Init /\ [][Next]_vars

\* The queue repeats the evaluation, cooldowns pass, what has begun goes on, and
\* metrics are there again and again.
Fairness ==
    /\ WF_vars(CoolDown)
    /\ WF_vars(\E e \in Evaluations : EvalBegin(e))
    /\ SF_vars(\E e \in Evaluations, o \in Observations : EvalDecide(e, o))
    /\ \A e \in Evaluations :
          /\ WF_vars(EvalRecord(e))
          /\ WF_vars(ScaleList(e) \/ ScaleRemove(e) \/ ScaleCreate(e) \/ Report(e))

FairSpec == Spec /\ Fairness

-----------------------------------------------------------------------------
(* Properties *)

\* The row, the evaluations and the node are in the states the code knows, and no
\* count is ever negative.
TypeOK ==
    /\ policy \in Policies \union {NoPolicy}
    /\ current \in Nat
    /\ scaled \in BOOLEAN
    /\ cooling \in BOOLEAN
    /\ put \in [Requests -> {"idle", "schedule", "remove", "done"}]
    /\ scheduled \in BOOLEAN
    /\ eval \in [Evaluations -> {"idle", "read", "record"}]
    /\ seen \in [Evaluations -> [policy : Policies \union {NoPolicy}, current : Nat]]
    /\ wants \in [Evaluations -> Nat]
    /\ task \in [Evaluations -> {"none", "sent", "listed", "trimmed", "done"}]
    /\ listed \in [Evaluations -> SUBSET Nat]
    /\ replicas \subseteq Nat
    /\ copies \subseteq Nat
    /\ crossed \subseteq Evaluations
    /\ strayed \in BOOLEAN
    /\ faults \in 0..MaxFaults

\* An evaluation dispatches during the cooldown only if another one, or a
\* request that changed the policy, was under way while it was.
CooldownKept ==
    [][\A e \in Evaluations :
          task[e] = "none" /\ task'[e] = "sent" /\ cooling => e \in crossed]_vars

\* At rest, the node runs the replicas the row counts, unless the last scaling met
\* another one, was refused or lost, or left containers that failed behind, or the
\* report of an earlier one came after it.
NodeAgrees ==
    scaled /\ ~strayed /\ (\A e \in Evaluations : ~Busy(e)) => replicas = 0..(current - 1)

\* When the policy stays as it is, the count ends up within it and stays,
\* whatever it was under the policy before.
BoundsReached ==
    \A p \in Policies :
        <>[](policy = p /\ p.enabled /\ scheduled) => <>[](current \in p.min..p.max)

=============================================================================
