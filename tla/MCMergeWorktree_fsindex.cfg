\* Three-way and fast-forward merges on a filesystem storer, every cell of the
\* classification table on each of two paths; no interrupts, edits or
\* commits.
CONSTANTS
    Path = {p1, p2}
    V1 = v1
    V2 = v2
    V3 = v3
    Value <- MCValue
    NoFile = NoFile
    NoRef = NoRef
    Commit0 <- MCCommit0
    Parents0 <- MCParents0
    Trees0 <- MCTrees0
    Head0 = "O"
    Branch = {"topic", "ahead"}
    BranchTip <- MCBranchTip
    NewCommit = {}
    SharedIndex = FALSE
    InterruptAt = {}
    MaxInterrupts = 0
    MaxEdits = 0
SPECIFICATION Spec


PROPERTIES IndexOutcome
