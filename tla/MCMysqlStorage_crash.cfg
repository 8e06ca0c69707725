CONSTANTS
    Names <- MCNames
    MaxDepth = 2
    MaxId = 3
    Contents = {"x"}
    Crashes = TRUE
    SelfRename = FALSE
SPECIFICATION Spec
INVARIANTS
    RenameTargetKept
