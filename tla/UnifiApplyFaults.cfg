\* Requests that fail, mislead or are ignored, kills, and edits.
CONSTANTS
    d1 = d1
    d2 = d2
    none = none
    Dests <- TwoLists
    NoDest = none
    MaxFaults = 3
    MaxEdits = 1
    MaxCrashes = 1
SPECIFICATION FairSpec
INVARIANTS TypeOK EnabledOnlyWithItsList EditsSurvive
PROPERTIES Converges RunIsOneStep
