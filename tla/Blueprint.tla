----------------------------- MODULE Blueprint -----------------------------
(***************************************************************************)
(* POST /blueprint/apply (routes/blueprint.ts): applying one blueprint,    *)
(* with one item of each kind, several times and perhaps at once, while    *)
(* users delete what it made.                                              *)
(*                                                                         *)
(* The handler looks for the project, reads which resources exist, and     *)
(* creates what was missing then, kind after kind. Each create may be      *)
(* followed by a second write: the job that provisions the resource, or    *)
(* the environment of an app. A schedule is not registered for a cron job, *)
(* nor a firewall applied. Rows are deleted softly, and the unique indexes *)
(* of the schema hold of deleted rows too.                                 *)
(***************************************************************************)
EXTENDS Integers, Sequences, FiniteSets, Faults

CONSTANTS
    Applies,
    MaxDeletes      \* bound on deletions

ASSUME BlueprintAssumption == MaxDeletes \in Nat /\ IsFiniteSet(Applies)

Items == {"project", "app", "database", "bucket", "function", "cron", "firewall", "loadBalancer"}
Order == <<"project", "app", "database", "bucket", "function", "cron", "firewall", "loadBalancer">>
Unique == {"project", "app", "bucket", "function"}
WithJob == {"database", "bucket", "function", "loadBalancer"}
Completed == WithJob \union {"app"}     \* a second write follows

VARIABLES
    stage,      \* stage[a]: where apply a stands
    pos,        \* pos[a]: the item it is at, in Order
    hasProject, \* hasProject[a]: what it found
    plan,       \* plan[a]: the items it is to create
    rows,       \* rows[i]: living rows of item i
    gone,       \* gone[i]: there is a deleted row of i
    completed,  \* completed[i]: second writes
    \* history
    overlapped, \* two applies were under way at once
    deletes

blueprintVars == <<stage, pos, hasProject, plan, rows, gone, completed, overlapped, deletes>>
tableVars == <<rows, gone, completed, deletes>>

BlueprintInit ==
    /\ stage = [a \in Applies |-> "idle"]
    /\ pos = [a \in Applies |-> 1]
    /\ hasProject = [a \in Applies |-> FALSE]
    /\ plan = [a \in Applies |-> {}]
    /\ rows = [i \in Items |-> 0]
    /\ gone = [i \in Items |-> FALSE]
    /\ completed = [i \in Items |-> 0]
    /\ overlapped = FALSE
    /\ deletes = 0

Over == {"idle", "done", "thrown"}

-----------------------------------------------------------------------------
FindProject(a) ==
    /\ stage[a] = "idle"
    /\ stage' = [stage EXCEPT ![a] = "found"]
    /\ hasProject' = [hasProject EXCEPT ![a] = rows["project"] > 0]
    /\ overlapped' = (overlapped \/ \E b \in Applies : stage[b] \notin Over)
    /\ UNCHANGED <<pos, plan, tableVars, faults>>

\* Without a project only the firewalls, which belong to the workspace, are looked at.
\* The parallel reads of the tables are one step.
Existing(a) ==
    IF hasProject[a] THEN {"project"} \union {i \in Items : rows[i] > 0}
    ELSE {i \in {"firewall"} : rows[i] > 0}

ComputePlan(a) ==
    /\ stage[a] = "found"
    /\ stage' = [stage EXCEPT ![a] = "create"]
    /\ plan' = [plan EXCEPT ![a] = Items \ Existing(a)]
    /\ UNCHANGED <<pos, hasProject, tableVars, overlapped, faults>>

At(a, i) == stage[a] = "create" /\ pos[a] <= Len(Order) /\ i = Order[pos[a]]

PassItem(a) ==
    /\ \E i \in Items : At(a, i) /\ i \notin plan[a]
    /\ pos' = [pos EXCEPT ![a] = @ + 1]
    /\ UNCHANGED <<stage, hasProject, plan, tableVars, overlapped, faults>>

CreateItem(a) ==
    \E i \in plan[a] :
        /\ At(a, i)
        /\ i \in Unique => rows[i] = 0 /\ ~gone[i]
        /\ rows' = [rows EXCEPT ![i] = @ + 1]
        /\ IF i \in Completed
           THEN stage' = [stage EXCEPT ![a] = "complete"] /\ UNCHANGED pos
           ELSE pos' = [pos EXCEPT ![a] = @ + 1] /\ UNCHANGED stage
        /\ UNCHANGED <<hasProject, plan, gone, completed, deletes, overlapped, faults>>

\* Mutant: a name that is taken ends the apply as if it had been made before.
ItemConflictsDone(a) ==
    /\ \E i \in plan[a] \intersect Unique : At(a, i) /\ (rows[i] > 0 \/ gone[i])
    /\ stage' = [stage EXCEPT ![a] = "done"]
    /\ UNCHANGED <<pos, hasProject, plan, tableVars, overlapped, faults>>

ItemConflicts(a) ==
    /\ \E i \in plan[a] \intersect Unique : At(a, i) /\ (rows[i] > 0 \/ gone[i])
    /\ stage' = [stage EXCEPT ![a] = "thrown"]
    /\ UNCHANGED <<pos, hasProject, plan, tableVars, overlapped, faults>>

CompleteItem(a) ==
    /\ stage[a] = "complete"
    /\ stage' = [stage EXCEPT ![a] = "create"]
    /\ pos' = [pos EXCEPT ![a] = @ + 1]
    /\ completed' = [completed EXCEPT ![Order[pos[a]]] = @ + 1]
    /\ UNCHANGED <<hasProject, plan, rows, gone, deletes, overlapped, faults>>

FinishApply(a) ==
    /\ stage[a] = "create" /\ pos[a] > Len(Order)
    /\ stage' = [stage EXCEPT ![a] = "done"]
    /\ UNCHANGED <<pos, hasProject, plan, tableVars, overlapped, faults>>

\* No node is online, a statement fails, the API dies.
ApplyFails(a) ==
    /\ stage[a] \notin Over /\ Fault
    /\ stage' = [stage EXCEPT ![a] = "thrown"]
    /\ UNCHANGED <<pos, hasProject, plan, tableVars, overlapped>>

DeleteItem(i) ==
    /\ rows[i] > 0 /\ deletes < MaxDeletes
    /\ rows' = [rows EXCEPT ![i] = @ - 1]
    /\ gone' = [gone EXCEPT ![i] = TRUE]
    /\ deletes' = deletes + 1
    /\ UNCHANGED <<stage, pos, hasProject, plan, completed, overlapped, faults>>

BlueprintNext ==
    \/ \E a \in Applies :
        \/ FindProject(a) \/ ComputePlan(a) \/ PassItem(a) \/ CreateItem(a)
        \/ ItemConflicts(a) \/ CompleteItem(a) \/ FinishApply(a) \/ ApplyFails(a)
    \/ \E i \in Items : DeleteItem(i)

BlueprintSpec == BlueprintInit /\ faults = 0 /\ [][BlueprintNext]_<<blueprintVars, faults>>

-----------------------------------------------------------------------------
(* Properties *)

BlueprintTypeOK ==
    /\ stage \in [Applies -> {"idle", "found", "create", "complete", "done", "thrown"}]
    /\ pos \in [Applies -> Nat \ {0}]
    /\ hasProject \in [Applies -> BOOLEAN]
    /\ plan \in [Applies -> SUBSET Items]
    /\ rows \in [Items -> Nat] /\ gone \in [Items -> BOOLEAN]
    /\ completed \in [Items -> Nat]
    /\ overlapped \in BOOLEAN /\ deletes \in Nat

\* Applying a blueprint again makes nothing twice, unless two applies overlapped and no
\* index of the schema forbids it. An apply is refused only when one overlapped it,
\* something failed, or a deleted row still holds the name. After an apply that ended
\* well everything is there, if nothing failed or was deleted; and a failure leaves at
\* most one item without its second write, which later applies pass over.
AppliesConverge ==
    /\ \A i \in Items : rows[i] > 1 => overlapped /\ i \notin Unique
    /\ \A a \in Applies :
        /\ stage[a] = "thrown" => overlapped \/ faults > 0 \/ \E i \in Unique : gone[i]
        /\ stage[a] = "done" /\ faults = 0 /\ deletes = 0 => \A i \in Items : rows[i] > 0
    /\ (\A a \in Applies : stage[a] \in Over) =>
        Cardinality({i \in Completed : rows[i] > completed[i]}) <= faults
=============================================================================
