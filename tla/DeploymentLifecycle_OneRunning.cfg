\* No fault, no operator: two deployments and their reports.
CONSTANTS
    app1 = app1
    Apps = {app1}
    Deployments = {d1, d2}
    AppOf <- MCAppOf
    NoDeployment = NoDeployment
    MaxPerDay = 2
    MaxFaults = 0
    MaxOperations = 0
SPECIFICATION Spec
INVARIANTS
    OneRunning
\* All deployments may have settled.
CHECK_DEADLOCK FALSE
