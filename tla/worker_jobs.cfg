SPECIFICATION FairSpec
CONSTANTS
    t1 = t1
    Tasks = {t1}
    Schedules = {c1, c2}
    TaskOf <- MCTaskOf
    Processes = {p1}
    Schedulers = {s1}
    None = None
    MaxJobs = 2
    MaxFaults = 1
INVARIANTS
    RowsAreAccountedFor
    SchedulerDoesNotPileUp
PROPERTIES
    JobSettles
    ScheduleIsServed
\* A tick may find the bound on jobs used up and every schedule deleted.
CHECK_DEADLOCK FALSE
