SPECIFICATION FairSpec
CONSTANTS
    MaxTasks = 3
    Priorities <- MCPriorities
    RunPriority <- MCRunPriority
    Admins = {}
    MaxEdits = 0
    MaxKills = 2
    MaxLate = 1
PROPERTIES ImplementsQueue EveryTaskFinishes
