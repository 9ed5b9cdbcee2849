SPECIFICATION Spec
CONSTANTS
    None = None
    Folders = {td, tr}
    Known = {"esm", "asset"}
    Extra = {"personal"}
    Configs = {main, saved1}
    Environment = {"failures", "editFiles", "editConfigs"}
INVARIANTS
    ConfigsResolve
    StagingRestorable
PROPERTIES
    CustomFilesKept
    ConfigEditsKept
    MigrationEnds
