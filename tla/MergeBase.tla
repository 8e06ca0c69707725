----------------------------- MODULE MergeBase -----------------------------
(***************************************************************************)
(* The merge-base walk: Worktree.getCommonParents (worktree_merge.go) over *)
(* the PriorityQueue of unnamed/part_001.                                  *)
(*                                                                         *)
(* The commit graph is an input of the walk: it is fixed in Init from the *)
(* set Histories, each a record [parents, when] where parents[c] is the    *)
(* set of parent commits of c and when[c] its author timestamp, the heap  *)
(* priority (markCommit).  One step of the model is one iteration of the  *)
(* `for prQ.interesting()` loop: heap.Pop, the flag arithmetic, and the    *)
(* heap.Push of every parent.                                              *)
(*                                                                         *)
(* The queue prQ is a function from the queued commits to their flag      *)
(* sets: PriorityQueue.Push never adds a second entry for a hash, it ORs   *)
(* the flags into the entry already there.  Flags live on the queue entry *)
(* (prioritizedCommit), not on the commit: a popped commit that is pushed *)
(* again starts over with the pushed flags only.                          *)
(***************************************************************************)
EXTENDS Naturals, Sequences, FiniteSets, Functions, TLC, CommitGraph

CONSTANTS
    Commit,     \* the commits of the repository
    Histories   \* candidate commit graphs: records [parents, when]

VARIABLES
    parents,    \* parents[c]: the parents of commit c (ParentHashes)
    when,       \* when[c]: author timestamp of c, the heap priority
    ours,       \* oldC, pushed with markParent1
    theirs,     \* newC, pushed with markParent2
    prQ,        \* the priority queue: queued commit -> its flags
    res,        \* the result slice, in emission order
    pc          \* "walk" inside the loop, "done" once getCommonParents returns

vars == <<parents, when, ours, theirs, prQ, res, pc>>

\* The bits of the flag word (part_001 lines 9-15); markNone is never used.
Marks == {"markParent1", "markParent2", "markStale", "markResult"}

-----------------------------------------------------------------------------
(* The reference the walk is checked against (CommitGraph).              *)

BestCommonAncestors == BestCommonAncestorsOf(parents, ours, theirs)

-----------------------------------------------------------------------------
(* The priority queue (unnamed/part_001).                                 *)

EmptyQueue == [c \in {} |-> {}]

\* heap.Push of every commit of S with flags f: a commit already queued
\* has f ORed into its flags (PriorityQueue.Push), a new one is appended.
PushAll(q, S, f) ==
    [c \in DOMAIN q \cup S |->
        (IF c \in DOMAIN q THEN q[c] ELSE {}) \cup (IF c \in S THEN f ELSE {})]

\* PriorityQueue.interesting: some queued entry lacks markStale.
interesting(q) == \E c \in DOMAIN q : "markStale" \notin q[c]

\* A plausible fault of Less: the comparison reversed, oldest first.
IsTopOldest(q, el) == \A c \in DOMAIN q : when[el] <= when[c]

\* heap.Pop returns an entry of greatest priority (Less uses After, so the
\* newest pops first); among equal timestamps the heap layout decides,
\* which the model leaves open.
IsTop(q, el) == \A c \in DOMAIN q : when[c] <= when[el]

\* A plausible fault of the pop: only non-stale entries are removed.
RemoveTopUnlessStale(q, el) ==
    IF "markStale" \in q[el] THEN q ELSE [c \in DOMAIN q \ {el} |-> q[c]]

\* The queue once el has been popped.
RemoveTop(q, el) == [c \in DOMAIN q \ {el} |-> q[c]]

\* flags := el.flags & (markParent1 | markParent2 | markStale)
PoppedFlags(f) == f \cap {"markParent1", "markParent2", "markStale"}

\* flags == (markParent1 | markParent2): reached from both sides, not stale.
IsResultFlags(f) == f = {"markParent1", "markParent2"}

\* A plausible fault of the flag arithmetic: staleness pushed from one
\* side alone.
PushedFlagsStaleFromParent1(f) ==
    IF "markParent1" \in f THEN f \cup {"markStale"} ELSE f

\* A plausible fault of the flag arithmetic: the flags taken after
\* el.flags |= markResult, so the result mark travels to the parents.
PushedFlagsMarkResult(f) ==
    IF IsResultFlags(f) THEN f \cup {"markStale", "markResult"} ELSE f

\* The flags pushed to the parents: a result makes its ancestors stale.
PushedFlags(f) == IF IsResultFlags(f) THEN f \cup {"markStale"} ELSE f

-----------------------------------------------------------------------------
(* getCommonParents                                                       *)

Init ==
    /\ \E h \in Histories : parents = h.parents /\ when = h.when
    /\ ours \in Commit
    /\ theirs \in Commit \ {ours}
    \* Merge only walks when ours is not an ancestor of theirs (isFastForward
    \* is false); createVirtualParent walks two best bases, which are not
    \* ancestors of each other either.
    /\ ours \notin AncestorsOf(parents, theirs)
    /\ prQ = PushAll(PushAll(EmptyQueue, {ours}, {"markParent1"}),
                     {theirs}, {"markParent2"})
    /\ res = <<>>
    /\ pc = "walk"

\* One iteration of the loop body: pop the newest entry, emit it when both
\* sides reached it and it is not marked as a result yet, push its parents.
PopAndPushParents ==
    /\ pc = "walk"
    /\ interesting(prQ)
    /\ \E el \in DOMAIN prQ :
        /\ IsTop(prQ, el)
        /\ LET flags == PoppedFlags(prQ[el])
               emit  == IsResultFlags(flags) /\ "markResult" \notin prQ[el]
           IN  /\ prQ' = PushAll(RemoveTop(prQ, el), parents[el], PushedFlags(flags))
               /\ res' = IF emit THEN Append(res, el) ELSE res
    /\ UNCHANGED <<parents, when, ours, theirs, pc>>

\* The loop condition fails and the slice is returned.
Return ==
    /\ pc = "walk"
    /\ ~interesting(prQ)
    /\ pc' = "done"
    /\ UNCHANGED <<parents, when, ours, theirs, prQ, res>>

Next == PopAndPushParents \/ Return

\* The walk is one synchronous loop in a single goroutine: once it can
\* take a step it keeps taking steps.
Spec == Init /\ [][Next]_vars /\ WF_vars(Next)

-----------------------------------------------------------------------------
(* Properties                                                             *)

TypeOK ==
    /\ ours \in Commit /\ theirs \in Commit
    /\ DOMAIN prQ \subseteq Commit
    \* a queued entry carries parent or stale marks, never markResult: the
    \* result mark is set on the popped entry only
    /\ \A c \in DOMAIN prQ : prQ[c] \in (SUBSET (Marks \ {"markResult"})) \ {{}}
    /\ res \in Seq(Commit)
    /\ pc \in {"walk", "done"}

\* Every queued entry marked stale lies strictly below a commit already
\* returned: markStale is only ever pushed from a result downwards, so the
\* walk never stops exploring a line of history that no result covers.
StaleBelowResult ==
    \A c \in DOMAIN prQ :
        "markStale" \in prQ[c] =>
            \E r \in Range(res) : c # r /\ c \in AncestorsOf(parents, r)

\* When getCommonParents returns, res holds exactly the best common
\* ancestors of oldC and newC (spec 4.C), each of them once, whatever the
\* order in which the heap pops entries of equal timestamp.  A commit is
\* emitted twice if it is popped, pushed again from a descendant popped
\* later, and popped a second time with both parent marks: the heap keeps
\* no record of what it has already popped.
ResultIsBest ==
    pc = "done" => IsInjective(res) /\ Range(res) = BestCommonAncestors

\* The loop always ends: the queue becomes uninteresting.
Termination == <>(pc = "done")

=============================================================================
