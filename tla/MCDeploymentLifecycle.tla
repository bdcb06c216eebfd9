------------------------ MODULE MCDeploymentLifecycle ------------------------
(***************************************************************************)
(* Instances of DeploymentLifecycle for TLC: one app, which every pair of  *)
(* deployments that can disturb each other shares.                         *)
(***************************************************************************)
EXTENDS DeploymentLifecycle, TLC

CONSTANT app1

MCAppOf == [d \in Deployments |-> app1]

\* The two deployments are interchangeable until one of them is created.
MCSymmetry == Permutations(Deployments)

\* Of two faults the second strikes the handler of a report, where deployments of an
\* app meet.
SecondInHandler == faults = 1 /\ faults' = 2 => handler' /= handler

=============================================================================
