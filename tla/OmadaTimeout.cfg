\* One answer that times out while it is read.
CONSTANTS
    c1 = c1
    c2 = c2
    Lists <- SomeLists
    MaxGroups = 2
    GroupIds <- FourIds
    MaxFaults = 1
    MaxEdits = 0
    MaxCrashes = 0
SPECIFICATION Spec
PROPERTY PartialFailureIsReported
