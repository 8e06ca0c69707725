\* The criss-cross merge over a virtual ancestor on a filesystem storer:
\* the inner merge of X and Y writes the worktree, and the outer merge
\* resets only the index.
CONSTANTS
    Path = {p1, p2}
    V1 = v1
    V2 = v2
    V3 = v3
    Value <- MCValue
    NoFile = NoFile
    NoRef = NoRef
    Commit0 <- MCCommit0
    Parents0 <- MCParents0
    Trees0 <- MCCrissTrees0
    Head0 = "O"
    Branch = {"criss"}
    BranchTip <- MCBranchTip
    NewCommit = {}
    SharedIndex = FALSE
    InterruptAt = {}
    MaxInterrupts = 0
    MaxEdits = 0
SPECIFICATION Spec

PROPERTIES CleanMergeMatchesWorktree
