SPECIFICATION Spec
CONSTANTS
    None = None
    Procs = {p1, p2}
    Hosts = {"public", "other"}
    Sources = {"manual"}
    HostOf <- MCHostOf
    BuiltIns <- MCBuiltIns
    FirstAdvert <- MCFirstAdvert
    MaxChanges = 3
    MaxPublish = 1
    MaxMishaps = 1
INVARIANTS
    TypeOK
    SelectedExists
PROPERTIES
    PlaysAdvertised
    PlayArrives
