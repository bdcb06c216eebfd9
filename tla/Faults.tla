------------------------------- MODULE Faults -------------------------------
(***************************************************************************)
(* The faults of the modules that MCControlPlane composes, and of          *)
(* DeploymentPage: crashes, failed statements and lost answers.            *)
(***************************************************************************)
EXTENDS Integers

CONSTANT MaxFaults      \* bound on faults

ASSUME FaultAssumption == MaxFaults \in Nat

VARIABLE faults

Fault == faults < MaxFaults /\ faults' = faults + 1

=============================================================================
