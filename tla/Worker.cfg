SPECIFICATION FairSpec
CONSTANTS
    Setups <- MCSetups
    MaxStarts = 3
INVARIANTS TypeOK DaemonsEndWithVendor ExitsAlone OneDiscipline FaultsSurvived
PROPERTIES ClockSetFirst DaemonsAreManaged WorkerEnds
