\* A page or a command that watches, two events on their way, a log of which two lines are
\* read at once and two of those that came live are kept; five clicks on a canvas. One fault in each.
CONSTANTS
    LogLimit = 2
    LiveLimit = 1
    MaxWire = 2
    MaxClicks = 5
    MaxFaults = 1
SPECIFICATION DashboardSpec
INVARIANTS
    
    AppliesWhatItShows
    YamlKeepsDrawing
\* A deployment ends, and its page is looked at for so long.
CHECK_DEADLOCK FALSE
