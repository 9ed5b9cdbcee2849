SPECIFICATION PrepareSpec
CONSTANTS
    Names = {"a", "b", "c", "d", "d/e"}
    Unsafe = {"d/e"}
    Absent = Absent
    Broken = Broken
    MaxPlugins = 3
    Requests <- MCRequests
    BriefRequests <- MCBriefRequests
    Parts = {"a", "b"}
    MaxDepth = 3
    None = None
    Dir = Dir
    Empty = ""
    Owned <- MCOwned
    Programs = {"b"}
    Operations <- MCOperations
    MaxEntries = 8
    Packages <- MCPackages
    Raw <- MCRaw
    MaxActions = 2
    MaxAfterFomod = 0
    Flags = {"x"}
    Installers <- MCInstallers
INVARIANTS
    PrepareTypeOK
    OrderIsExact
    LayoutIsExact
    FomodIsExact
