SPECIFICATION Spec
CONSTANTS
    MaxTasks = 1
    Priorities <- MCPriorities
    RunPriority <- MCRunPriority
    Admins = {a1}
    MaxEdits = 1
    MaxKills = 0
    MaxLate = 0
PROPERTY TogglePauseKeepsResults
