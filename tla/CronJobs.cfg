\* Two requests after the one that creates the job, two runs that may overlap and
\* end in two ways, one fault.
CONSTANTS
    Requests = {q1, q2, q3}
    Runs = {r1, r2}
    Shared = Shared
    Ends = {"success", "timeout"}
    MaxFaults = 1
SPECIFICATION Spec
SYMMETRY MCSymmetry
INVARIANTS
    RunTruthful
    RunningMeansBusy
    ScheduleFollowsRow
PROPERTIES
    RetiredDispatchesNothing
\* All requests may have been served and all runs be over.
CHECK_DEADLOCK FALSE
