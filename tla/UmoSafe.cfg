SPECIFICATION Spec
CONSTANTS
    Nothing = Nothing
    Ours = Ours
    Applications = {vortex}
    Files = {f1, f2}
    MaxCrashes = 1
    MaxTakeOvers = 2
    Environment = {"failures", "damage"}
INVARIANTS
    TypeOK
    HandlerRestorable
    HelperKept
PROPERTY CancelEnds
