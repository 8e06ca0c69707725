\* Every triple of files of up to three lines over three texts.
CONSTANTS
    Text = {"x", "y", "z"}
    MaxLen = 3
    Files <- MCFiles
    DiffPanics <- MCDiffPanics
    DiffMatches <- MCDiffMatches
SPECIFICATION Spec
INVARIANTS
    DiffApplies
    DiffMinimal
    IdenticalSidesMerge
    TrivialSide
    ConflictsCounted
PROPERTIES
    ChunksTerminate
\* Merge returns: the final state has no successor.
CHECK_DEADLOCK FALSE
