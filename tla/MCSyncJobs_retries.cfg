SPECIFICATION Spec
CONSTANTS
    r1 = r1
    d1 = d1
    s1 = s1
    s2 = s2
    w1 = w1
    w2 = w2
    x1 = x1
    None = None
    Rules = {r1}
    Jobs <- OneRuleJobs
    RuleOf <- OneRuleOf
    DryRuns = {d1}
    Workers = {w1, w2}
    Writers = {}
    MaxAttempts = 2
SYMMETRY WorkerSymmetry
INVARIANTS
    
    QuietWhenPaused
    MutationNeedsDryRun
PROPERTIES
    ParkedStaysParked
    ClosedIsFinal
