\* Every interleaving of a process, its monitor task and their callers.
SPECIFICATION FairSpec
CONSTANTS
    Codes <- MCCodes
    Expected <- MCExpected
    Delays <- MCDelays
    DefaultDelay = 1
    None = None
INVARIANTS TypeOK NoProcessLeftBehind OutcomeTellsReturnCode SleepsAsAsked
PROPERTIES CancelIsFinal CancelEnds KeepAliveRevives ImplementsManagedProcess
