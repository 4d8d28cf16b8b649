\* Fair runs of the loop beside a --once run, with a signal and one fault of each kind.
CONSTANTS
    loop = loop
    once = once
    dry = dry
    Free = Free
    Procs <- TwoProcs
    LoopProcs <- OneLoop
    DryProcs <- NoProc
    MaxCrashes = 1
    MaxIOFaults = 1
    MaxRunFaults = 1
    MaxFlips = 1
    MaxStops = 1
    MaxFailures = 1
SPECIFICATION FairSpec
INVARIANT EveryChangeAnnounced
PROPERTIES RunsEnd EventuallyHealthy
