\* The walk over every DAG of five commits with strictly increasing dates.
CONSTANTS
    Commit <- MCCommit
    Histories <- TiedHistories
SPECIFICATION Spec
INVARIANTS
    TypeOK
    StaleBelowResult
    ResultIsBest
PROPERTIES
    Termination
\* getCommonParents returns: the final state has no successor.
CHECK_DEADLOCK FALSE
