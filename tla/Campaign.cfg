SPECIFICATION Spec
CONSTANTS
    p1 = p1
    p2 = p2
    a1 = a1
    a2 = a2
    Profile = {p1, p2}
    Key <- MCKey
    FaultKey <- MCFaultKey
    Log <- MCLog
    NoProfile = noprofile
    NoKey = nokey
    NoTask = notask
    nokey = nokey
    noprofile = noprofile
    notask = notask
    Analyzer = {a1, a2}
    MaxAnalyses = 2
    MaxIncidents = 1
    Requests <- MCRequests
    MaxRequests = 2
INVARIANTS TypeOK AnalysedAfterTheRun FlagsTellTheLog SummariesAgree Interleaved TargetKept FaultsHaveAPlace LoadsHaveAServer VendorsAreEquipped
SYMMETRY Symmetry
PROPERTY ConversionDecides
CHECK_DEADLOCK FALSE
