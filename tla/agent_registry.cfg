SPECIFICATION FairSpec
CONSTANTS
    Daemons = {p1, p2}
    Sweepers = {w1}
    MaxAgents = 2
    MaxFaults = 1
PROPERTIES
    RowsAreSound
    EnrolmentLeavesOneAgent
    StatusSettles
