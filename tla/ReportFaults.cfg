SPECIFICATION Spec
CONSTANTS
    Order <- TwoProviders
    Records <- MCRecords
    NoRecord <- MCNoRecord
    Retries = 2
    MaxAge = 0
    MaxNow = 1
    MaxFaults = 2
    MaxFlips = 2
INVARIANTS TypeOK NoNeedlessCopy EveryProviderTried IdsSurvive HealthyIsTrue
PROPERTIES WriteIsAtomic RecordCatchesUp
