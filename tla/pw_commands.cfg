SPECIFICATION FairSpec
CONSTANTS
    Nobody = Nobody
    NoLaunch = NoLaunch
    NoFile = NoFile
    Procs = {a, b}
    Starters = {a}
    Pollers = {b}
    Closers = {b}
    Crashing = {a}
    Launches = {l1, l2}
    Failures = {"timeout", "interrupt", "write", "spawn", "launch", "killed", "exit"}
INVARIANTS
    TypeOK
    FailedLaunchIsOver
PROPERTIES
    ClosedBrowserIsDown
    StaleStateGoes
