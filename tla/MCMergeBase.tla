---------------------------- MODULE MCMergeBase ----------------------------
(***************************************************************************)
(* Model-checking instances of MergeBase.  Commits are 1..N numbered in a *)
(* topological order: every parent has a smaller number than its child,  *)
(* so every graph built here is a DAG, as a commit graph is.  A commit    *)
(* has at most two parents (Worktree.Commit writes HEAD and MERGE_HEAD).  *)
(***************************************************************************)
EXTENDS MergeBase

\* Number of commits in a history.
N == 5

MCCommit == 1..N

\* The possible parent sets of commit i.
ParentSets(i) == {S \in SUBSET (1..(i - 1)) : Cardinality(S) <= 2}

RECURSIVE ParentGraphs(_)
\* Every parent function over 1..n.
ParentGraphs(n) ==
    IF n = 0 THEN {<<>>}
    ELSE {Append(g, S) : g \in ParentGraphs(n - 1), S \in ParentSets(n)}

\* Author dates that follow the topology strictly: a child is newer than
\* each of its parents.  This is the history a single clock produces.
MonotoneHistories ==
    {[parents |-> P, when |-> [c \in MCCommit |-> c]] : P \in ParentGraphs(N)}

\* Author dates for histories with ties: one clock reading per commit.
TiedDate == 1..N

\* Author dates that grow along every parent edge while unrelated commits
\* may share a timestamp.  Less (After) is then false both ways between
\* the tied entries and the heap layout decides which pops first, so the
\* walk is checked under every tie order.  The heap only compares dates,
\* so one dating per order suffices: the dates used are 1..k, no gap.
TiedHistories ==
    UNION {{[parents |-> P, when |-> W] :
               W \in {W \in [MCCommit -> TiedDate] :
                        /\ \A c \in MCCommit : \A p \in P[c] : W[p] < W[c]
                        /\ \A d \in Range(W) : d = 1 \/ d - 1 \in Range(W)}} :
           P \in ParentGraphs(N)}

\* Number of commits in a skewed history.
SkewN == 4

SkewCommit == 1..SkewN

\* Author dates in any order, ties included.  A child can be older than
\* its parent: `git rebase` keeps each commit's author date while placing
\* it on top of newer commits.  A child can also share its parent's date:
\* commit timestamps have a resolution of one second, and a script that
\* commits twice within a second produces the tie.
SkewedHistories ==
    UNION {{[parents |-> P, when |-> W] : W \in [SkewCommit -> SkewCommit]} :
           P \in ParentGraphs(SkewN)}

=============================================================================
