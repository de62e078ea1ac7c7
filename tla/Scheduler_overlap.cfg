SPECIFICATION Spec
CONSTANTS
    MaxTasks = 1
    Priorities <- MCPriorities
    RunPriority <- MCRunPriority
    Admins = {}
    MaxEdits = 0
    MaxKills = 1
    MaxLate = 0
INVARIANT OneCommandAtATime
