SPECIFICATION Spec
CONSTANTS
    Absent = Absent
    Damaged = Damaged
    NoBuild = NoBuild
    NoProc = NoProc
    Procs = {p1, p2}
    Builds = {"c1", "c2", "c3", "t1"}
    Paths <- MCPaths
    Contents <- MCContents
    KindOf <- MCKindOf
    Inventory <- MCInventory
    Image <- MCImage
    Manifest <- MCManifest
    Allowed <- MCAllowed
    InitialFiles <- MCInitialFiles
    UserContents <- MCUserContents
    Editable = {"cfg"}
    MaxTx = 3
    MaxBackups = 8
    Environment = {"locked", "editDuring"}
SYMMETRY Windows
INVARIANTS
    TypeOK
    SinglePending
    PendingRecoverable
    SettledIsWhole
PROPERTIES
    ProtectedUntouched
