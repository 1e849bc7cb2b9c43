SPECIFICATION Spec
CONSTANTS
    Nobody = Nobody
    NoLaunch = NoLaunch
    NoFile = NoFile
    Procs = {a}
    Starters = {a}
    Pollers = {}
    Closers = {}
    Crashing = {}
    Launches = {l1, l2, l3}
    Failures = {"exit"}
INVARIANTS
    OneBrowser
