SPECIFICATION Spec
CONSTANTS
    Absent = Absent
    Damaged = Damaged
    NoBuild = NoBuild
    NoProc = NoProc
    Procs = {p1}
    Builds = {"c1", "c2"}
    Paths <- MCPaths
    Contents <- MCContents
    KindOf <- MCKindOf
    Inventory <- MCInventory
    Image <- MCImage
    Manifest <- MCManifest
    Allowed <- MCAllowed
    InitialFiles <- MCInitialFiles
    UserContents <- MCUserContents
    Editable = {"exe"}
    MaxTx = 2
    MaxBackups = 8
    Environment = {"locked", "damage"}
PROPERTIES
    EditsKept
    InstallsAreAtomic
    RestartRecovers
