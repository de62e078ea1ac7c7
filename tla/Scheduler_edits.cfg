SPECIFICATION Spec
CONSTANTS
    MaxTasks = 2
    Priorities <- MCPriorities
    RunPriority <- MCRunPriority
    Admins = {a1, a2}
    MaxEdits = 2
    MaxKills = 1
    MaxLate = 1
INVARIANTS TypeOK CompletedAgree SuccessIsReal AtMostOneInterrupted NoNeedlessRerun
