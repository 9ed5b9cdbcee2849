SPECIFICATION Spec
CONSTANTS
    None = None
    NoProc = NoProc
    Procs = {p1}
    Hashes = {"a", "b"}
    Layouts = {"ab"}
    Source <- MCSource
    Files = {f1}
    Versions = {"v1", "v2"}
    Definitions <- MCDefinitions
    FirstVersion = "v1"
    MaxEdits = 1
    Environment = {"failures", "rot"}
INVARIANT TypeOK
PROPERTIES
    ReferencedKept
    ModifiedKept
    LaunchedOnComplete
    CacheHeals
