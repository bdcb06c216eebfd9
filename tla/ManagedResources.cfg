\* A resource of any kind, four requests or second attempts, one fault.
CONSTANTS
    MaxTasks = 4
    Kinds = {"database", "bucket", "function", "loadbalancer"}
    MaxFaults = 1
SPECIFICATION FairSpec
\* TypeOK is proved (ManagedResourcesProofs).
INVARIANTS
    StatusHasCause
    OrphanHasCause
PROPERTIES
    TransientEnds
\* Everything asked for may have been done.
CHECK_DEADLOCK FALSE
