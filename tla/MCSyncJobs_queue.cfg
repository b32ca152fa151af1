SPECIFICATION FairSpec
CONSTANTS
    r1 = r1
    d1 = d1
    s1 = s1
    s2 = s2
    w1 = w1
    w2 = w2
    x1 = x1
    None = None
    Rules = {r1}
    Jobs <- QueueJobs
    RuleOf <- QueueRuleOf
    DryRuns = {d1}
    Workers = {w1}
    Writers = {x1}
    MaxAttempts = 1
INVARIANTS
    TypeOK
    ProviderAccessIsReserved
    OneRunningJobPerRule
    
PROPERTIES
    RunningJobEnds
    StopIsHonoured
