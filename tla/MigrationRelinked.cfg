SPECIFICATION Spec
CONSTANTS
    None = None
    Folders = {td, tr}
    Known = {"asset"}
    Extra = {"personal"}
    Configs = {main, saved1}
    Environment = {"failures", "relink", "reinstall", "editFiles"}
PROPERTY RemovedUnreferenced
