-------------------------- MODULE DeploymentContract --------------------------
(***************************************************************************)
(* What the control plane promises of the deployments of its apps, with no *)
(* jobs, transactions, crashes or repeated reports in it:                  *)
(*                                                                         *)
(*   - a deployment that was created ends at most once on the node, with   *)
(*     one outcome;                                                        *)
(*   - an app serves a deployment of its own whose outcome is good, and    *)
(*     changes over in one step: what was live is replaced in the step in  *)
(*     which the other goes live.  Only an app over which two changes were *)
(*     contested may keep a deployment that is live and not served;        *)
(*   - the one run of a deployment is opened once and never opened again,  *)
(*     and is closed as a success only after a good outcome.               *)
(*                                                                         *)
(* What a deployment is told to be may otherwise come and go: a late       *)
(* report or a safety net takes even a live one back.                      *)
(***************************************************************************)

CONSTANTS Apps, Deployments, AppOf, NoDeployment

VARIABLES
    executed,    \* executed[d]: how the node ended d
    told,        \* told[d]: what a reader is told of d
    serving,     \* serving[a]: the deployment a points at
    ran,         \* ran[d]: the run of d
    contested    \* apps that two changes were under way for at once

contractVars == <<executed, told, serving, ran, contested>>

\* The other deployments of the app of d that are live.
Live(d) == {e \in Deployments \ {d} : AppOf[e] = AppOf[d] /\ told[e] = "live"}

CInit ==
    /\ executed = [d \in Deployments |-> "none"]
    /\ told = [d \in Deployments |-> "none"]
    /\ serving = [a \in Apps |-> NoDeployment]
    /\ ran = [d \in Deployments |-> "none"]
    /\ contested = {}

Create(d) ==
    /\ told[d] = "none"
    /\ told' = [told EXCEPT ![d] = "pending"]
    /\ UNCHANGED <<executed, serving, ran, contested>>

Execute(d, outcome) ==
    /\ told[d] # "none" /\ executed[d] = "none"
    /\ executed' = [executed EXCEPT ![d] = outcome]
    /\ UNCHANGED <<told, serving, ran, contested>>

Tell(d, what) ==
    /\ told[d] # "none"
    /\ told' = [told EXCEPT ![d] = what]
    /\ UNCHANGED <<executed, serving, ran, contested>>

Contest(a) ==
    /\ contested' = contested \union {a}
    /\ UNCHANGED <<executed, told, serving, ran>>

GoLive(d) ==
    /\ executed[d] = "ok"
    /\ \E replaced \in SUBSET Live(d) :
          /\ replaced = Live(d) \/ AppOf[d] \in contested
          /\ told' = [e \in Deployments |-> IF e = d THEN "live"
                                            ELSE IF e \in replaced THEN "replaced" ELSE told[e]]
    /\ serving' = [serving EXCEPT ![AppOf[d]] = d]
    /\ UNCHANGED <<executed, ran, contested>>

OpenRun(d) ==
    /\ ran[d] = "none"
    /\ ran' = [ran EXCEPT ![d] = "running"]
    /\ UNCHANGED <<executed, told, serving, contested>>

CloseRun(d, how) ==
    /\ ran[d] # "none"
    /\ how = "succeeded" => executed[d] = "ok"
    /\ ran' = [ran EXCEPT ![d] = how]
    /\ UNCHANGED <<executed, told, serving, contested>>

CStep ==
    \/ \E d \in Deployments :
          \/ Create(d)
          \/ \E o \in {"ok", "bad", "refused"} : Execute(d, o)
          \/ \E w \in {"pending", "failed"} : Tell(d, w)
          \/ GoLive(d)
          \/ OpenRun(d)
          \/ \E h \in {"succeeded", "failed"} : CloseRun(d, h)
    \/ \E a \in Apps : Contest(a)

\* It says something that was not said.
CNext == contractVars' # contractVars /\ CStep

CSpec == CInit /\ [][CNext]_contractVars

=============================================================================
