\* No fault, no operator: a deployment, its report, its safety net.
CONSTANTS
    app1 = app1
    Apps = {app1}
    Deployments = {d1}
    AppOf <- MCAppOf
    NoDeployment = NoDeployment
    MaxPerDay = 2
    MaxFaults = 0
    MaxOperations = 0
SPECIFICATION Spec
PROPERTIES
    NetSparesReported
\* All deployments may have settled.
CHECK_DEADLOCK FALSE
