\* Merges, commits and aborts on a memory storer: one interrupt of a merge
\* call, one user edit, one commit.
CONSTANTS
    Path = {p1, p2}
    V1 = v1
    V2 = v2
    V3 = v3
    Value <- MCValue
    NoFile = NoFile
    NoRef = NoRef
    Commit0 <- MCCommit0
    Parents0 <- MCParents0
    Trees0 <- MCFewTrees0
    Head0 = "O"
    Branch = {"topic", "ahead"}
    BranchTip <- MCBranchTip
    NewCommit = {n1}
    SharedIndex = TRUE
    InterruptAt = {"commit_clear", "ff_reset", "set_orig", "reset_index", "loop", "stage"}
    MaxInterrupts = 1
    MaxEdits = 1
SPECIFICATION Spec


INVARIANTS NoCommitLost
