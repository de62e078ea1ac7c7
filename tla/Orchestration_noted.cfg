SPECIFICATION FairSpec
CONSTANTS
    m1 = m1
    m2 = m2
    s1 = s1
    s2 = s2
    Machines <- MCMachines
    Switches = {s1, s2}
    Device = device
    Plans <- MCPlans
    MaxProbes = 2
INVARIANT FailureIsNoted
