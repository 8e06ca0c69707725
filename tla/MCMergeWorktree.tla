-------------------------- MODULE MCMergeWorktree --------------------------
(***************************************************************************)
(* The history merged: base B, ours O and theirs T branching from B, and  *)
(* A, a child of O.  HEAD is on O; branch "topic" points to T (a three-   *)
(* way merge) and "ahead" to A (a fast-forward).  A path's base, ours     *)
(* and theirs contents are drawn from MCCases, one triple over three      *)
(* values and absence per cell of the classification table of spec 4.E,  *)
(* or from the smaller MCFewCases; A carries theirs' content.  "orphan"  *)
(* points to R, a root commit with no history in common with O.           *)
(*                                                                         *)
(* O is itself the merge of X and Y, two children of B, and so is C, the *)
(* tip of "criss": O and C have the two best common ancestors X and Y (a  *)
(* criss-cross), and their merge builds a virtual ancestor.  In the       *)
(* histories of MCCases X and Y carry B's content; those of MCCrissCases *)
(* give every path its own content on B, X, Y, O and C.                  *)
(***************************************************************************)
EXTENDS MergeWorktree

CONSTANTS V1, V2, V3   \* three blob contents, model values

MCCommit0 == {"B", "X", "Y", "O", "C", "T", "A", "R"}
MCParents0 == [c \in MCCommit0 |->
                 CASE c \in {"B", "R"} -> {} [] c = "A" -> {"O"}
                   [] c \in {"O", "C"} -> {"X", "Y"} [] OTHER -> {"B"}]
MCBranchTip == [b \in {"topic", "ahead", "orphan", "criss"} |->
                  CASE b = "topic" -> "T" [] b = "ahead" -> "A"
                    [] b = "criss" -> "C" [] OTHER -> "R"]

\* createVirtualParent merges X and Y over their one merge base, B.
ASSUME BestCommonAncestorsOf(MCParents0, "X", "Y") = {"B"}

MCValue == {V1, V2, V3}

\* One <<base, ours, theirs>> content triple per cell of the classification
\* table of spec 4.E, with both-modified and both-added each once with equal
\* and once with different sides.
MCCases ==
    { <<V1, V1, V1>>,         \* unchanged
      <<V1, V1, V2>>,         \* modified by theirs
      <<NoFile, NoFile, V1>>,     \* added by theirs
      <<V1, V1, NoFile>>,       \* deleted by theirs
      <<V1, V2, V1>>,         \* modified by ours
      <<NoFile, V1, NoFile>>,     \* added by ours
      <<V1, NoFile, V1>>,       \* deleted by ours
      <<V1, V2, V2>>,         \* both modified alike
      <<V1, V2, V3>>,         \* both modified differently
      <<NoFile, V1, V1>>,       \* both added alike
      <<NoFile, V1, V2>>,       \* both added differently
      <<V1, NoFile, NoFile>>,     \* both deleted
      <<V1, V2, NoFile>>,       \* modified / deleted
      <<V1, NoFile, V2>> }      \* deleted / modified

\* The cells the lifecycle runs take: a change of theirs only, a clean or
\* conflicting both-modified, and the two modify/delete conflicts.
MCFewCases ==
    { <<V1, V1, V2>>, <<V1, V2, V3>>,
      <<V1, V2, NoFile>>, <<V1, NoFile, V2>> }

\* <<base, X, Y, ours, theirs-of-criss>> content per path: a change of Y
\* only that O changes again; a conflict of X and Y that O and C resolve
\* alike; a modify/delete and a delete/modify of X and Y; a both-added of
\* X and Y; X and Y alike and O and C both modified.
MCCrissCases ==
    { <<V1, V1, V2, V3, V2>>,
      <<V1, V2, V3, V2, V2>>,
      <<V1, V2, NoFile, V2, V3>>,
      <<V1, NoFile, V2, V2, V3>>,
      <<NoFile, V1, V2, V1, V2>>,
      <<V1, V1, V1, V2, V3>> }

\* The criss-cross cells the lifecycle runs take: a conflict of X and Y
\* that O and C resolve alike, and a delete/modify of X and Y that O and C
\* both modify, whose virtual base has no ours entry to read.
MCFewCrissCases == { <<V1, NoFile, V2, V2, V3>> }

CommitContent(c, x) ==
    CASE c \in {"B", "R", "X", "Y", "C"} -> x[1] [] c = "O" -> x[2] [] OTHER -> x[3]

CrissContent(c, x) ==
    CASE c \in {"B", "R", "T"} -> x[1] [] c = "X" -> x[2] [] c = "Y" -> x[3]
      [] c = "C" -> x[5] [] OTHER -> x[4]

TreesFrom(cases) ==
    {[c \in MCCommit0 |-> [p \in Path |-> CommitContent(c, f[p])]] :
        f \in [Path -> cases]}

MCTrees0 == TreesFrom(MCCases)
MCFewTrees0 == TreesFrom(MCFewCases)
CrissTreesFrom(cases) ==
    {[c \in MCCommit0 |-> [p \in Path |-> CrissContent(c, f[p])]] :
        f \in [Path -> cases]}

MCCrissTrees0 == CrissTreesFrom(MCCrissCases)

\* The outcome runs take both families: every cell of the table merged
\* over the one base B, and the criss-cross merged over a virtual one.
MCOutcomeTrees0 == MCTrees0 \cup MCCrissTrees0
MCLifecycleTrees0 == MCFewTrees0 \cup CrissTreesFrom(MCFewCrissCases)
=============================================================================
