SPECIFICATION Spec
CONSTANTS
    Init1 = Init1
    None = None
    NoPid = NoPid
    NoProcess = NoProcess
    NoFile = NoFile
    Procs = {a, b}
    Starters = {a}
    Pollers = {}
    Closers = {b}
    Exiting = {}
    Crashing = {}
    Pids = {k1}
    ExitPhases = {"launching", "identified"}
    MaxClock = 2
INVARIANTS
    NoStrangerSignalled
