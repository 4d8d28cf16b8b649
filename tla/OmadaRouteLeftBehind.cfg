\* One list of routes that cannot be read.
CONSTANTS
    c1 = c1
    c2 = c2
    Lists <- SomeLists
    MaxGroups = 2
    GroupIds <- FourIds
    MaxFaults = 1
    MaxEdits = 0
    MaxCrashes = 0
SPECIFICATION Spec
INVARIANT CompleteRollbackLeavesNothing
