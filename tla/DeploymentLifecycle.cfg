\* Two deployments of an app that may be finalized together, two faults, of
\* which the second strikes a handler.  More faults, and the operators, are in
\* DeploymentLifecycle_Liveness.cfg; what is proved of these properties has no bound
\* on either.
CONSTANTS
    app1 = app1
    Apps = {app1}
    Deployments = {d1, d2}
    AppOf <- MCAppOf
    NoDeployment = NoDeployment
    MaxPerDay = 1
    MaxFaults = 2
    MaxOperations = 0
SPECIFICATION Spec
SYMMETRY MCSymmetry
ACTION_CONSTRAINT SecondInHandler
\* TypeOK is proved (DeploymentLifecycleProofs).
INVARIANTS
    RunningIsCurrent
    CurrentSucceeded
PROPERTIES
    HandOver
    DeploymentsKeepContract
\* All deployments may have settled.
CHECK_DEADLOCK FALSE
