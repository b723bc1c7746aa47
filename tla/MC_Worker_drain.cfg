CONSTANTS
    j1 = j1
    j2 = j2
    Job <- MC_Job
    Concurrency <- MC_Concurrency

SPECIFICATION Spec
INVARIANT
    DrainWaitsForActiveJobs
CHECK_DEADLOCK FALSE
