\* Two at a time of two deliveries, two pushes and a user; two firewalls on two nodes,
\* one of which cannot enforce; two applies of a blueprint and a deletion; two hosts;
\* three commands on a node; three requests about two people; three writes of a secret;
\* three changes of an installation on two repositories; two runs of jobs, which have one
\* unit of time and a buffer of one; two releases, three commits; two changes of what a
\* person may do, about one team. One fault in each; of firewalls and of domains four
\* requests, deploys, changes of DNS and faults together.
CONSTANTS
    MaxFaults = 1
    Deliveries = {d1, d2}
    Pushes = {p1, p2}
    Users = {w1}
    Apps = {a1, a2, a3}
    NoApp = NoApp
    Placed = {a1, a2}
    MaxPerDay = 1
    MaxMakers = 2
    Firewalls = {f1, f2}
    Nodes = {n1, n2}
    Broken = {n2}
    MaxActs = 4
    Applies = {b1, b2}
    MaxDeletes = 1
    Hosts = {h1, h2}
    NoHost = NoHost
    MAX_ATTEMPTS = 2
    MaxChecks = 2
    MaxMoves = 4
    MaxOrders = 3
    People = {u1, u2}
    MaxRequests = 3
    MaxWrites = 3
    Repos = {r1, r2}
    MaxChanges = 3
    Runs = {j1, j2}
    JobTimeout = 1
    JobBuffer = 1
    MaxReleases = 2
    MaxCommits = 3
    Teams = {t1}
    MaxTurns = 2
SPECIFICATION MCSpec
ACTION_CONSTRAINT FirstComesFirst
\* PartsTypeOK is proved (ControlPlaneProofs).
INVARIANTS
    DeploysOnce
    MissHasCause
    EnforcedHasCause
    AppliesConverge
    RoutesLead
    BoxFollowsOrders
    OwnersRemain
    LastValueReachesApp
    LinkFollowsHub
    JobsEndAsReported
    RunsWhatItNames
    AccessHasCause
\* Each service may have done all it was asked to do.
CHECK_DEADLOCK FALSE
