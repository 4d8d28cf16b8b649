\* The loop, a --once run and a dry run share one state directory, with kills,
\* failing state files and failing runs.
CONSTANTS
    loop = loop
    once = once
    dry = dry
    Free = Free
    Procs <- AllProcs
    LoopProcs <- OneLoop
    DryProcs <- OneDry
    MaxCrashes = 1
    MaxIOFaults = 1
    MaxRunFaults = 1
    MaxFlips = 1
    MaxStops = 0
    MaxFailures = 1
SPECIFICATION Spec
INVARIANTS TypeOK AtMostOneRunning DirtyIsRecorded PendingBlocksWrites
    NoChangeAnnouncedTwice AnnouncedIsRecorded SuccessMeansApplied
