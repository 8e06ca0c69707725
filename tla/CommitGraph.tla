---------------------------- MODULE CommitGraph ----------------------------
(***************************************************************************)
(* Ancestry over a commit graph given as a function P from commits to     *)
(* their parent sets (Commit.ParentHashes).  These are reference           *)
(* definitions: the merge-base walk (MergeBase) is checked against them,  *)
(* and the merge model (MergeWorktree) takes its merge base from them.    *)
(***************************************************************************)

RECURSIVE AncestorsOf(_, _)
\* c and every commit reachable from c through parent links.
AncestorsOf(P, c) == {c} \cup UNION {AncestorsOf(P, p) : p \in P[c]}

\* The common ancestors of a and b, each counted as its own ancestor.
CommonAncestorsOf(P, a, b) == AncestorsOf(P, a) \cap AncestorsOf(P, b)

\* The best common ancestors: common ancestors that are not a strict
\* ancestor of another common ancestor (the contract of spec 4.C).
BestCommonAncestorsOf(P, a, b) ==
    LET C == CommonAncestorsOf(P, a, b)
    IN  {x \in C : ~\E y \in C : y # x /\ x \in AncestorsOf(P, y)}

=============================================================================
