SPECIFICATION Spec
CONSTANTS
    a = a
    b = b
    i1 = i1
    i2 = i2
    Absent = Absent
    NoFile = NoFile
    Free = Free
    Ids = {i1}
    Procs = {a, b}
    Can <- CanSweep
    MaxCommands = 1
    MaxFaults = 0
    Impatient = {}
    Crashing = {a}
    CrashPoints = {"quarantine"}
    ShortVisits = FALSE
    Archives <- AllArchives
    Apart <- Unmixed
CHECK_DEADLOCK FALSE
PROPERTIES
    ImplementsLibrary
