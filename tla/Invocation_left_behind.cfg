\* The database is lost while a process is being terminated.
SPECIFICATION Spec
CONSTANTS
    Codes <- MCCodes
    Expected <- MCExpected
    Delays <- MCDelays
    DefaultDelay = 1
    None = None
INVARIANT KilledIfStillRunning
