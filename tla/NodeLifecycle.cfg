\* Two nodes that may present the same token, a sweep that runs again and again, two
\* heartbeats on their way per node, one fault, one request of an operator.
CONSTANTS
    Nodes = {n1, n2}
    Tokens = {t1}
    NoToken = NoToken
    Sweeps = {s1}
    MaxBeats = 2
    MaxFaults = 1
    MaxOperations = 1
SPECIFICATION FairSpec
INVARIANTS
    TokenAdmitsOne
PROPERTIES
    RemovedStaysGone
    SilentEndsOffline
    LiveComesBack
