SPECIFICATION Spec
CONSTANTS
    Init1 = Init1
    None = None
    NoPid = NoPid
    NoProcess = NoProcess
    NoFile = NoFile
    Procs = {a, b}
    Starters = {a}
    Pollers = {b}
    Closers = {}
    Exiting = {a}
    Crashing = {}
    Pids = {k1, k2}
    ExitPhases = {"identified"}
    MaxClock = 2
SYMMETRY Symmetry
INVARIANTS
    OneBrowser
