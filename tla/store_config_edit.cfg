SPECIFICATION Spec
CONSTANTS
    Procs = {a, b}
    Ids = {p1}
    Names = {n1}
    Engines = {"direct", "playwright"}
    Browsers = {}
    Locales = {l1}
    dual = dual
    pwOnly = pwOnly
    Supports <- MCSupports
    None = None
    NoProfile = NoProfile
    Free = Free
    NoFile = NoFile
    Nothing = Nothing
SYMMETRY Symmetry
PROPERTY
    ConfigEditStoresOneValue
