SPECIFICATION Spec
CONSTANTS
    a = a
    b = b
    i1 = i1
    i2 = i2
    Absent = Absent
    NoFile = NoFile
    Free = Free
    Ids = {i1, i2}
    Procs = {a, b}
    Can <- CanRoot
    MaxCommands = 1
    MaxFaults = 2
    Impatient = {b}
    Crashing = {a}
    CrashPoints = {"finalise", "rollback", "add", "copy"}
    ShortVisits = FALSE
    Archives <- AllArchives
    Apart <- Unmixed
CHECK_DEADLOCK FALSE
SYMMETRY Symmetry
INVARIANTS
    TypeOK
    PublishedUnvisited
    NothingLeft
PROPERTIES
    LosesOnlySwept
    RepairHeals
