\* Two commands, two polls running at once, one row per claim (so that a claim
\* leaves a queued row behind), two faults.
CONSTANTS
    Commands = {c1, c2}
    Requests = {r1, r2}
    NoRequest = NoRequest
    Batch = 1
    MaxFaults = 2
SPECIFICATION FairSpec
INVARIANTS
    AtMostOnce
PROPERTIES
    DeliveryKeepsContract
    QueueDrains
\* All commands may have been issued, executed and reported.
CHECK_DEADLOCK FALSE
