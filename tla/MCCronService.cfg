SPECIFICATION SumFairSpec
CONSTANTS
    at = at  every = every  wrong = wrong
    Jobs = {at, every, wrong}
    AtJobs = {at}
    IllJobs = {wrong}
    Additions = {{at, every}, {wrong}}
    Period = 1
    MaxCrashes = 1
    MaxFaults = 1
    MaxCli = 1
    AuPlans <- MCAuPlans
    AuFailures = 1
    AuLapses = 1
INVARIANTS
    AtMostOnce
    NoneForgotten
    RemovedStaysGone
    CredentialsSafe
PROPERTIES
    RunsForever
CHECK_DEADLOCK FALSE
