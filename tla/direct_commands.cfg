SPECIFICATION HFairSpec
CONSTANTS
    Init1 = Init1
    None = None
    NoPid = NoPid
    NoProcess = NoProcess
    NoFile = NoFile
    Procs = {a, b}
    Starters = {a, b}
    Pollers = {b}
    Closers = {b}
    Exiting = {a}
    Crashing = {a}
    Pids = {k1, k2}
    ExitPhases = {"identified"}
    MaxClock = 2
INVARIANTS
    TypeOK
    NoStrangerSignalled
    LossHasACause
PROPERTIES
    ClosedBrowserIsDead
    SignalledBrowserEnds
    OnlyOutdatedOverrule
