\* Two evaluations whose commands may overlap, two changes of the policy, one
\* fault.
CONSTANTS
    Evaluations = {e1, e2}
    Requests = {q1, q2}
    Policies <- MCPolicies
    NoPolicy = NoPolicy
    Observations <- MCObservations
    Target <- MCTarget
    MaxFaults = 1
SPECIFICATION FairSpec
ACTION_CONSTRAINT FirstComesFirst
INVARIANTS
    NodeAgrees
PROPERTIES
    CooldownKept
    BoundsReached
\* No policy may be enabled.
CHECK_DEADLOCK FALSE
