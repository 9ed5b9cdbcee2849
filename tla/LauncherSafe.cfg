SPECIFICATION Spec
CONSTANTS
    None = None
    Procs = {1, 2, 3}
    Builds = {"v1", "v2"}
    Acknowledging = {"v2"}
    FirstBuild = "v1"
    Edited = "edited"
    Commands = {"other", "update", "restart"}
    MaxOpens = 1
    MaxCommands = 1
    MaxCrashes = 1
    Environment = {"crashes", "failures", "edits"}
INVARIANTS
    TypeOK
    RunningStageWhole
PROPERTIES
    HandoffIsWhole
    
    RestartArrives
CHECK_DEADLOCK FALSE
