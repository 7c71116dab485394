CONSTANTS
    j1 = j1
    j2 = j2
    j3 = j3
    Jobs = {j1, j2, j3}
    NULL = NULL
    N = 2
SPECIFICATION FairSpec
INVARIANTS
    TypeOK
    NoLostWakeup
    DestructorDrains
PROPERTIES
    RunsEachJobOnce
    SubmittedJobsRun
    DestructorReturns
