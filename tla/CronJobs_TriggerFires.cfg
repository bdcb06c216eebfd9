\* A request that creates a job and one that triggers it, no fault.
CONSTANTS
    Requests = {q1, q2}
    Runs = {r1}
    Shared = Shared
    Ends = {"success", "timeout"}
    MaxFaults = 0
SPECIFICATION FairSpec
PROPERTIES
    TriggerFires
\* All requests may have been served and all runs be over.
CHECK_DEADLOCK FALSE
