SPECIFICATION Spec
CONSTANTS
    Absent = Absent
    NoBuild = NoBuild
    NoProc = NoProc
    Procs = {p1}
    Builds = {"c1", "c2", "t1", "t2"}
    Paths <- MCPaths
    KindOf <- MCKindOf
    Ships <- MCShips
    Image <- MCImage
    Manifest <- MCManifest
    Allowed <- MCAllowed
    InitialFiles <- MCInitialFiles
    UserContents <- MCUserContents
    Size <- MCSize
    Executable = "exe"
    FirstReleases <- MCFirstReleases
    Rank <- MCRank
    Editable = {"exe"}
    Ids = {1, 2, 3}
    LegacyDigest = "c1"
    MaxReleases = 1
    Environment = {"failures"}
INVARIANTS
    TypeOK
    CurrentWasOffered
    RepairedIsExact
PROPERTIES
    UpdatesArrive
