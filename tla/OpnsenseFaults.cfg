\* Requests that fail, mislead or are ignored, kills, dry runs and edits.
CONSTANTS
    d1 = d1
    d2 = d2
    none = none
    Dests <- TwoLists
    NoDest = none
    MaxFaults = 2
    MaxEdits = 2
    MaxCrashes = 1
SPECIFICATION FairSpec
INVARIANTS TypeOK SuccessIsReal
PROPERTIES EnabledOnlyOverItsList ConfigurationConverges
