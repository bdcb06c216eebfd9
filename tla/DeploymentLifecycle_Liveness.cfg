\* One deployment, whose steps fail three times at any point.
CONSTANTS
    app1 = app1
    Apps = {app1}
    Deployments = {d1}
    AppOf <- MCAppOf
    NoDeployment = NoDeployment
    MaxPerDay = 2
    MaxFaults = 3
    MaxOperations = 2
SPECIFICATION FairSpec
\* What concerns each deployment alone.
INVARIANTS
    DispatchedOnce
    RunOutcomeTrue
PROPERTIES
    SafetyNet
    DeploySettles
\* All deployments may have settled.
CHECK_DEADLOCK FALSE
