SPECIFICATION FairSpec
CONSTANTS
    Procs = {a, b}
    Ids = {p1}
    Names = {n1}
    Engines = {"playwright"}
    Browsers = {pwOnly}
    Locales = {}
    dual = dual
    pwOnly = pwOnly
    Supports <- MCSupports
    None = None
    NoProfile = NoProfile
    Free = Free
    NoFile = NoFile
    Nothing = Nothing
INVARIANTS
    TypeOK
    StoredDocumentValid
    BackupTrailsPrimary
PROPERTIES
    ImplementsRegistry
    LockComesFree
    CommandReturns
