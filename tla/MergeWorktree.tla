--------------------------- MODULE MergeWorktree ---------------------------
(***************************************************************************)
(* The merge orchestrator of worktree_merge.go together with the commit   *)
(* and abort that end a merge (worktree_commit.go Commit, AbortMerge).    *)
(*                                                                         *)
(* Persisted state: the commit graph and trees, HEAD, MERGE_HEAD,          *)
(* ORIG_HEAD, MERGE_MSG, the index and the worktree.  In-memory state:    *)
(* the blob cache w.blobs and the locals of the call in progress.  A call *)
(* is a sequence of steps, one per storage write the code makes, so that  *)
(* an interrupt (a crash of the process or a storage error returned up    *)
(* the stack) can end it between any two of them.                         *)
(*                                                                         *)
(* Blob contents are model values.  A file of the worktree is a content,  *)
(* NoFile, or a file the merge wrote: <<"merged", b, o, t>> for a clean   *)
(* diff3 result, <<"conflict", b, o, t>> for one with conflict markers,    *)
(* <<"added", o, t>> for writeBothAddedConflictFile.                       *)
(*                                                                         *)
(* The index maps each path to its entries as a function from stage (0    *)
(* Merged, 1 Ancestor, 2 Ours, 3 Theirs) to blob; a path not in the index *)
(* maps to the empty function.                                             *)
(***************************************************************************)
EXTENDS Naturals, FiniteSets, Sequences, Functions, TLC, CommitGraph

CONSTANTS
    Path,           \* the paths of the repository
    Value,          \* blob contents
    NoFile,         \* a path absent from a tree or the worktree (ZeroHash)
    NoRef,          \* a reference that is not set
    Commit0,        \* the commits present at the start
    Parents0,       \* Parents0[c]: parents of an initial commit
    Trees0,         \* candidate assignments of a tree to every initial commit
    Head0,          \* the commit HEAD's branch points to at the start
    Branch,         \* branch names that can be merged
    BranchTip,      \* BranchTip[b]: the commit branch b points to
    NewCommit,      \* ids for the commits Commit creates (bounds their number)
    SharedIndex,    \* TRUE: Storer.Index() returns one object (memory storer);
                    \* FALSE: a fresh decoded copy per call (filesystem storer)
    InterruptAt,    \* the steps after which a call may be interrupted
    MaxInterrupts,  \* bound on interrupts
    MaxEdits        \* bound on user edits of the worktree

AllCommit == Commit0 \cup NewCommit

VARIABLES
    parents,    \* parents[c]: ParentHashes of c ({} for an unused id)
    tree,       \* tree[c]: path -> content of commit c's tree
    made,       \* the ids Commit has used
    head,       \* the commit HEAD's branch points to
    mergeHead,  \* MERGE_HEAD or NoRef
    origHead,   \* ORIG_HEAD or NoRef
    mergeMsg,   \* MERGE_MSG: "none", "conflicts" or "clean"
    index,      \* the index: path -> (stage -> blob)
    work,       \* the worktree: path -> file
    blobs,      \* w.blobs: path -> (stage -> blob)
    pc,         \* the step of the call in progress, "idle" between calls
    m,          \* the locals of the merge call in progress
    ret,        \* what the last call returned
    pre,        \* history: HEAD and index when the last merge set MERGE_HEAD
    interrupts, \* interrupts so far
    edits       \* user edits so far

vars == <<parents, tree, made, head, mergeHead, origHead, mergeMsg, index,
          work, blobs, pc, m, ret, pre, interrupts, edits>>

-----------------------------------------------------------------------------
(* Index entries, trees and blobs.                                        *)

NoEntry == [s \in {} |-> NoFile]
Entry(v) == 0 :> v
EmptyCache == [p \in Path |-> NoEntry]

\* The content a path's Merged entry stages, NoFile when it has none.
StagedContent(e) == IF 0 \in DOMAIN e THEN e[0] ELSE NoFile

\* resetIndex / a hard reset: one Merged entry per file of tree t.
TreeIndex(t) == [p \in Path |-> IF t[p] = NoFile THEN NoEntry ELSE Entry(t[p])]

\* Add(path): stage the worktree file, or drop the entry of a deleted one.
Add(idx, w, p) == [idx EXCEPT ![p] = IF w[p] = NoFile THEN NoEntry ELSE Entry(w[p])]

\* A plausible fault of addConflictFile: an entry recorded for the zero
\* hash placeholder too.
ConflictStagesWithZero(b, o, t) == LET h == <<b, o, t>> IN [s \in 1..3 |-> h[s]]

\* addConflictFile(idx, path, base, ours, theirs): the path's entries are
\* replaced by one entry per stage whose hash is not ZeroHash.
ConflictStages(b, o, t) ==
    LET h == <<b, o, t>> IN [s \in {s \in 1..3 : h[s] # NoFile} |-> h[s]]

\* A plausible fault of compareCommitsChanges: the base blob read by
\* getBlob(ours.base, path) is never cached as AncestorMode.
CacheBlobsNoBase(c, p, f) == [c EXCEPT ![p] = [s \in DOMAIN f \ {1} |-> f[s]] @@ c[p]]

\* addOrUpdateBlobToCache for every stage of f: a stage already cached is
\* replaced.
CacheBlobs(c, p, f) == [c EXCEPT ![p] = f @@ c[p]]

\* writeBothAddedConflictFile: the marker file around ours and theirs,
\* renamed over the path.
writeBothAddedConflictFile(o, t) == <<"added", o, t>>

\* copyFileToOurs: theirs' file created at the path (w.Remove of a path
\* theirs deleted leaves the worktree the same way, without the file).
copyFileToOurs(wt, p, t) == [wt EXCEPT ![p] = t]

\* The paths with entries of stage other than Merged (getUnmergedFiles).
Unmerged(idx) == {p \in Path : DOMAIN idx[p] \ {0} # {}}

\* ConflictEntries: the entries of stage other than Merged, grouped by path.
ConflictEntries(idx) ==
    [p \in Unmerged(idx) |-> [s \in DOMAIN idx[p] \ {0} |-> idx[p][s]]]

\* ReadFileByStage(path, st): the worktree file for Merged; otherwise the
\* blob cached for the path at that stage.  Either may be ErrFileNotFound.
ReadFileByStage(p, st) ==
    CASE st = 0 /\ work[p] # NoFile -> work[p]
      [] st # 0 /\ st \in DOMAIN blobs[p] -> blobs[p][st]
      [] OTHER -> "ErrFileNotFound"

\* The merkletrie change of a path between two trees, as compareCommitsChanges
\* turns it into a StatusCode.
Status(b, x) ==
    CASE b = x      -> "Unmodified"
      [] b = NoFile -> "Added"
      [] x = NoFile -> "Deleted"
      [] OTHER      -> "Modified"

\* hasUncommittedFiles: staged changes (HEAD tree vs index), or unstaged
\* changes other than deletions (index vs worktree).
HasUncommittedFiles(h) ==
    \/ index # TreeIndex(tree[h])
    \/ \E p \in Path : work[p] # NoFile /\ work[p] # StagedContent(index[p])

\* The outcomes of diff3 Merge for a path modified on both sides: identical
\* sides merge to that side; otherwise a clean merge or conflict markers.
Diff3Outcomes(b, o, t) ==
    IF o = t THEN {[conflicts |-> 0, file |-> o]}
    ELSE {[conflicts |-> 0, file |-> <<"merged", b, o, t>>],
          [conflicts |-> 1, file |-> <<"conflict", b, o, t>>]}

\* The locals between calls.  ours, theirs and base are those of the
\* mergeCommits call in progress: an inner one of createVirtualParent
\* (level "inner") or the outer one; tip is theirs of the Merge call, vq
\* the merge bases createVirtualParent has still to merge, virtual and
\* vidx the isVirtual flag and index of the base, bc the content the tree
\* diffs saw at each path of the base and bb the blob getBlob returns for
\* it.
NoLocals == [ours |-> NoRef, theirs |-> NoRef, base |-> NoRef, todo1 |-> {},
             todo2 |-> {}, snap |-> EmptyCache, cur |-> NoRef, conflicts |-> {},
             tip |-> NoRef, vq |-> <<>>, level |-> "outer", virtual |-> FALSE,
             vidx |-> EmptyCache, bc |-> [p \in Path |-> NoFile],
             bb |-> [p \in Path |-> NoFile]]

\* What getBlob of a virtual base cannot read: BlobObject(ZeroHash), for a
\* path whose entries have neither a Merged nor an Ours stage.
NoBlob == "NoBlob"

\* getBlob(c, path) for a virtual base whose index has entries e at the
\* path: the first Merged or Ours entry; a path without entries is read
\* from c.commit, the merge base of the last pair createVirtualParent
\* merged.
VirtualBlob(e, fromCommit) ==
    CASE e = NoEntry   -> IF fromCommit = NoFile THEN NoBlob ELSE fromCommit
      [] 0 \in DOMAIN e -> e[0]
      [] 2 \in DOMAIN e -> e[2]
      [] OTHER          -> NoBlob

\* The contents the tree diff may see at a path of a virtual base: the
\* index noder keeps the first entry of each name, and the order of the
\* entries of one path after the index is encoded and decoded is not
\* fixed (the encoder sorts by name only).
NoderView(e) == IF e = NoEntry THEN {NoFile} ELSE {e[s] : s \in DOMAIN e}

-----------------------------------------------------------------------------
(* Merge                                                                  *)

Init ==
    /\ parents = [c \in AllCommit |-> IF c \in Commit0 THEN Parents0[c] ELSE {}]
    /\ \E T0 \in Trees0 :
          tree = [c \in AllCommit |->
                    IF c \in Commit0 THEN T0[c] ELSE [p \in Path |-> NoFile]]
    /\ made = {}
    /\ head = Head0
    /\ mergeHead = NoRef /\ origHead = NoRef /\ mergeMsg = "none"
    /\ index = TreeIndex(tree[Head0])
    /\ work = tree[Head0]
    /\ blobs = EmptyCache
    /\ pc = "idle" /\ m = NoLocals /\ ret = "none"
    /\ pre = [head |-> NoRef, index |-> EmptyCache]
    /\ interrupts = 0 /\ edits = 0

\* isFastForward: ours is theirs or an ancestor of it.
isFastForward(ours, theirs) == ours \in AncestorsOf(parents, theirs)

\* Merge, fast-forward branch: updateHEAD to theirs; the hard reset is the
\* next step.
MergeFastForward(b) ==
    /\ pc = "idle"
    /\ isFastForward(head, BranchTip[b])
    /\ head' = BranchTip[b]
    /\ pc' = "ff_reset"
    /\ m' = [NoLocals EXCEPT !.theirs = BranchTip[b]]
    /\ UNCHANGED <<parents, tree, made, mergeHead, origHead, mergeMsg, index,
                   work, blobs, ret, pre, interrupts, edits>>

\* Reset(theirs, HardReset): index and worktree become theirs' tree.
FastForwardReset ==
    /\ pc = "ff_reset"
    /\ index' = TreeIndex(tree[m.theirs])
    /\ work' = tree[m.theirs]
    /\ pc' = "idle" /\ m' = NoLocals /\ ret' = "FastForwarded"
    /\ UNCHANGED <<parents, tree, made, head, mergeHead, origHead, mergeMsg,
                   blobs, pre, interrupts, edits>>

\* nonFastForwardMerge returning before it writes anything: a merge in
\* progress, uncommitted changes, or computeParent finding no common parent.
MergeRejected(b) ==
    /\ pc = "idle"
    /\ ~isFastForward(head, BranchTip[b])
    /\ \/ mergeHead # NoRef /\ ret' = "InProgress"
       \/ mergeHead = NoRef /\ HasUncommittedFiles(head)
          /\ ret' = "UncommittedChanges"
       \/ mergeHead = NoRef /\ ~HasUncommittedFiles(head)
          /\ BestCommonAncestorsOf(parents, head, BranchTip[b]) = {}
          /\ ret' = "NoCommonParent"
    /\ UNCHANGED <<parents, tree, made, head, mergeHead, origHead, mergeMsg,
                   index, work, blobs, pc, m, pre, interrupts, edits>>

\* nonFastForwardMerge past its guards: computeParent.  With one best
\* common ancestor MERGE_HEAD is set next; with several,
\* createVirtualParent first merges them, in the order getCommonParents
\* found them, before anything is set.
MergeStart(b) ==
    /\ pc = "idle"
    /\ ~isFastForward(head, BranchTip[b])
    /\ mergeHead = NoRef
    /\ ~HasUncommittedFiles(head)
    /\ LET bases == BestCommonAncestorsOf(parents, head, BranchTip[b])
           call  == [NoLocals EXCEPT !.ours = head, !.theirs = BranchTip[b],
                                     !.tip = BranchTip[b]]
       IN  \/ /\ \E base \in bases :
                    /\ bases = {base}
                    /\ m' = [call EXCEPT !.base = base]
              /\ mergeHead' = BranchTip[b]
              /\ pc' = "set_orig"
           \/ /\ Cardinality(bases) > 1
              /\ \E order \in [1 .. Cardinality(bases) -> bases] :
                    /\ \A i, j \in DOMAIN order : i # j => order[i] # order[j]
                    /\ m' = [call EXCEPT !.base = order[1], !.vq = Tail(order)]
              /\ pc' = "virtual_next"
              /\ UNCHANGED mergeHead
    /\ pre' = [head |-> head, index |-> index]
    /\ UNCHANGED <<parents, tree, made, head, origHead, mergeMsg, index, work,
                   blobs, ret, interrupts, edits>>

\* The loop of createVirtualParent.  While merge bases are left, the next
\* one is merged into base by mergeCommits(nil, base, other): its
\* computeParent finds the pair's merge base cb (one, in the histories
\* checked), it resets the index to base's tree and merges into the index
\* and the worktree, and what it returns as the new base is cb.  Once
\* none is left, base is marked virtual with the index Storer.Index()
\* returns, and nonFastForwardMerge sets MERGE_HEAD.
VirtualNext ==
    /\ pc = "virtual_next"
    /\ \/ /\ m.vq # <<>>
          /\ \E cb \in BestCommonAncestorsOf(parents, m.base, Head(m.vq)) :
                m' = [m EXCEPT !.ours = m.base, !.theirs = Head(m.vq), !.base = cb,
                               !.vq = Tail(@), !.level = "inner"]
          /\ pc' = "reset_index"
          /\ UNCHANGED mergeHead
       \/ /\ m.vq = <<>>
          /\ m' = [m EXCEPT !.ours = head, !.theirs = m.tip, !.virtual = TRUE,
                            !.vidx = index, !.level = "outer"]
          /\ mergeHead' = m.tip
          /\ pc' = "set_orig"
    /\ UNCHANGED <<parents, tree, made, head, origHead, mergeMsg, index, work,
                   blobs, ret, pre, interrupts, edits>>

\* SetReference(ORIG_HEAD = ours).
SetOrigHead ==
    /\ pc = "set_orig"
    /\ origHead' = m.ours
    /\ pc' = "reset_index"
    /\ UNCHANGED <<parents, tree, made, head, mergeHead, mergeMsg, index, work,
                   blobs, m, ret, pre, interrupts, edits>>

\* mergeCommits: resetIndex(ours' tree), the two tree diffs, and the index
\* object compareCommitsChanges reads once as oursIdx.  todo1 holds the
\* paths of statuses1, todo2 those of statuses2 not in statuses1; the
\* result map starts empty.  A virtual base is diffed through the index
\* object base.idx, which is the index itself when Storer.Index() returns
\* one shared object; getBlob reads the same object later in the loop,
\* where a path's own entry is still the one resetIndex left.
ResetIndex ==
    /\ pc = "reset_index"
    /\ LET O  == tree[m.ours]  T == tree[m.theirs]
           BI == IF SharedIndex THEN TreeIndex(O) ELSE m.vidx
           Seen == IF m.virtual
                   THEN {f \in [Path -> UNION {NoderView(BI[p]) : p \in Path}] :
                           \A p \in Path : f[p] \in NoderView(BI[p])}
                   ELSE {tree[m.base]}
       IN  /\ \E bc \in Seen :
                 m' = [m EXCEPT !.todo1 = {p \in Path : bc[p] # O[p]},
                                !.todo2 = {p \in Path : bc[p] # T[p] /\ bc[p] = O[p]},
                                !.snap = TreeIndex(O), !.bc = bc,
                                !.bb = IF m.virtual
                                       THEN [p \in Path |-> VirtualBlob(BI[p], tree[m.base][p])]
                                       ELSE tree[m.base],
                                !.conflicts = {}]
           /\ index' = TreeIndex(O)
    /\ pc' = "loop"
    /\ UNCHANGED <<parents, tree, made, head, mergeHead, origHead, mergeMsg,
                   work, blobs, ret, pre, interrupts, edits>>

\* The base, ours and theirs content of path p in the merge in progress,
\* the base as the tree diffs saw it.
B3(p) == <<m.bc[p], tree[m.ours][p], tree[m.theirs][p]>>

\* Both sides added, or both modified, p: the cases that write a file into
\* the worktree before they touch the index.
WritesFile(p) ==
    LET h == B3(p)  s1 == Status(h[1], h[2])  s2 == Status(h[1], h[3])
    IN  s1 = s2 /\ s1 \in {"Added", "Modified"}

\* The cases of compareCommitsChanges whose first call is getBlob of the
\* base: both modified, modify/delete and delete/modify.
ReadsBase(p) ==
    LET h == B3(p)  s1 == Status(h[1], h[2])  s2 == Status(h[1], h[3])
    IN  \/ s1 = "Modified" /\ s2 \in {"Modified", "Deleted"}
        \/ s1 = "Deleted" /\ s2 = "Modified"

\* getBlob of the virtual base fails: compareCommitsChanges returns the
\* error, and so does the merge, with what the loop wrote so far left in
\* the index and the worktree.
GetBlobFails(p) ==
    /\ pc = "loop"
    /\ p \in m.todo1
    /\ ReadsBase(p) /\ m.bb[p] = NoBlob
    /\ pc' = "idle" /\ m' = NoLocals /\ ret' = "Error"
    /\ UNCHANGED <<parents, tree, made, head, mergeHead, origHead, mergeMsg,
                   index, work, blobs, pre, interrupts, edits>>

\* A plausible fault: the conflict recorded in the index but not in the
\* result map logMergeConflicts reads.
RecordConflictUncounted(p, b, o, t) ==
    LET idx == [m.snap EXCEPT ![p] = ConflictStages(b, o, t)]
    IN  /\ index' = idx
        /\ m' = [m EXCEPT !.snap = idx, !.todo1 = @ \ {p}, !.cur = NoRef]

\* addConflictFile(oursIdx, p, ...) for the blobs cached for p: the entries
\* go into the oursIdx object, which is then stored as the index.
RecordConflict(p, b, o, t) ==
    LET idx == [m.snap EXCEPT ![p] = ConflictStages(b, o, t)]
    IN  /\ index' = idx
        /\ m' = [m EXCEPT !.snap = idx, !.todo1 = @ \ {p}, !.cur = NoRef,
                          !.conflicts = @ \cup {p}]

\* A plausible fault: w.Add stages into an index object oursIdx never sees.
AddMergedUnseen(idx, p) ==
    /\ index' = idx
    /\ m' = [m EXCEPT !.todo1 = @ \ {p}, !.cur = NoRef]

\* w.Add(p) during the loop: it stages the file in the index Storer.Index()
\* returns, which is oursIdx itself only with a shared index object.
AddMerged(idx, p) ==
    /\ index' = idx
    /\ m' = [m EXCEPT !.snap = IF SharedIndex THEN idx ELSE @,
                      !.todo1 = @ \ {p}, !.cur = NoRef]

\* The first loop of compareCommitsChanges for a path of statuses1 that
\* writes no file: modify/delete and delete/modify record a conflict
\* (after caching the blobs getBlob read); every other case is NoConflict
\* and leaves ours' entry as resetIndex made it.
MergeOursPath(p) ==
    /\ pc = "loop"
    /\ p \in m.todo1
    /\ ~WritesFile(p)
    /\ ~(ReadsBase(p) /\ m.bb[p] = NoBlob)
    /\ LET h == B3(p)  s1 == Status(h[1], h[2])  s2 == Status(h[1], h[3])
           b == m.bb[p]
       IN  \/ /\ s1 = "Modified" /\ s2 = "Deleted"
              /\ blobs' = CacheBlobs(blobs, p, ConflictStages(b, h[2], NoFile))
              /\ RecordConflict(p, b, h[2], NoFile)
           \/ /\ s1 = "Deleted" /\ s2 = "Modified"
              /\ blobs' = CacheBlobs(blobs, p, ConflictStages(b, NoFile, h[3]))
              /\ RecordConflict(p, b, NoFile, h[3])
           \/ /\ ~(s1 = "Modified" /\ s2 = "Deleted")
              /\ ~(s1 = "Deleted" /\ s2 = "Modified")
              /\ m' = [m EXCEPT !.todo1 = @ \ {p}]
              /\ UNCHANGED <<index, blobs>>
    /\ UNCHANGED <<parents, tree, made, head, mergeHead, origHead, mergeMsg,
                   work, pc, ret, pre, interrupts, edits>>

\* Both modified: the three blobs are cached and mergeFiles renames the
\* diff3 result over p.  Both added: the two blobs are cached and
\* writeBothAddedConflictFile renames the marker file over p.  The index
\* is updated by the next step.
WriteMergeFile(p) ==
    /\ pc = "loop"
    /\ p \in m.todo1
    /\ WritesFile(p)
    /\ ~(ReadsBase(p) /\ m.bb[p] = NoBlob)
    /\ LET h == B3(p)  b == IF h[1] = NoFile THEN NoFile ELSE m.bb[p]
       IN  /\ blobs' = CacheBlobs(blobs, p, ConflictStages(b, h[2], h[3]))
           /\ \/ /\ h[1] # NoFile
                 /\ \E r \in Diff3Outcomes(b, h[2], h[3]) :
                       /\ work' = [work EXCEPT ![p] = r.file]
                       /\ m' = [m EXCEPT !.cur = [path |-> p, conflicts |-> r.conflicts]]
              \/ /\ h[1] = NoFile
                 /\ work' = [work EXCEPT ![p] = writeBothAddedConflictFile(h[2], h[3])]
                 /\ m' = [m EXCEPT !.cur = [path |-> p, conflicts |-> 1]]
    /\ pc' = "stage"
    /\ UNCHANGED <<parents, tree, made, head, mergeHead, origHead, mergeMsg,
                   index, ret, pre, interrupts, edits>>

\* The index update after the rename: addConflictFile(oursIdx, ...) for a
\* both-added path or a diff3 result with conflicts, w.Add otherwise.
StageMergeFile ==
    /\ pc = "stage"
    /\ LET p == m.cur.path  h == B3(p)
       IN  IF m.cur.conflicts # 0
           THEN RecordConflict(p, IF h[1] = NoFile THEN NoFile ELSE m.bb[p], h[2], h[3])
           ELSE AddMerged(Add(index, work, p), p)
    /\ pc' = "loop"
    /\ UNCHANGED <<parents, tree, made, head, mergeHead, origHead, mergeMsg,
                   work, blobs, ret, pre, interrupts, edits>>

\* The second loop, over the paths only theirs changed: copyFileToOurs
\* (Create, copy, Add) for an added or modified file, w.Remove for a
\* deleted one.
MergeTheirsPath(p) ==
    /\ pc = "loop"
    /\ m.todo1 = {}
    /\ p \in m.todo2
    /\ LET t == tree[m.theirs][p]
       IN  /\ work' = copyFileToOurs(work, p, t)
           /\ index' = Add(index, copyFileToOurs(work, p, t), p)
    /\ m' = [m EXCEPT !.todo2 = @ \ {p}]
    /\ UNCHANGED <<parents, tree, made, head, mergeHead, origHead, mergeMsg,
                   blobs, pc, ret, pre, interrupts, edits>>

\* logMergeConflicts: MERGE_MSG is written and the call returns
\* ErrMergeWithConflicts or ErrMergeCommitNeeded.
LogMergeConflicts ==
    /\ pc = "loop"
    /\ m.level = "outer"
    /\ m.todo1 = {} /\ m.todo2 = {}
    /\ mergeMsg' = IF m.conflicts # {} THEN "conflicts" ELSE "clean"
    /\ ret' = IF m.conflicts # {} THEN "Conflicted" ELSE "CommitNeeded"
    /\ pc' = "idle" /\ m' = NoLocals
    /\ UNCHANGED <<parents, tree, made, head, mergeHead, origHead, index, work,
                   blobs, pre, interrupts, edits>>

\* An inner mergeCommits of createVirtualParent returns: its result map is
\* dropped and the merge base it computed becomes createVirtualParent's
\* base; the index and the worktree keep what its loop wrote.
InnerMergeDone ==
    /\ pc = "loop"
    /\ m.level = "inner"
    /\ m.todo1 = {} /\ m.todo2 = {}
    /\ pc' = "virtual_next"
    /\ UNCHANGED <<parents, tree, made, head, mergeHead, origHead, mergeMsg,
                   index, work, blobs, m, ret, pre, interrupts, edits>>

\* A call ends between two of its steps: the process crashes (the blob
\* cache, in memory, is lost) or a storage call fails and the error is
\* returned (the cache stays).  Nothing is rolled back (spec 7).
Interrupt ==
    /\ pc \in InterruptAt
    /\ interrupts < MaxInterrupts
    /\ interrupts' = interrupts + 1
    /\ \E lost \in BOOLEAN : blobs' = IF lost THEN EmptyCache ELSE blobs
    /\ pc' = "idle" /\ m' = NoLocals /\ ret' = "Error"
    /\ UNCHANGED <<parents, tree, made, head, mergeHead, origHead, mergeMsg,
                   index, work, pre, edits>>

-----------------------------------------------------------------------------
(* Commit and AbortMerge                                                  *)

\* Commit refuses while the index has unmerged entries.
CommitRefused ==
    /\ pc = "idle"
    /\ Unmerged(index) # {}
    /\ ret' = "HasUnmergedFiles"
    /\ UNCHANGED <<parents, tree, made, head, mergeHead, origHead, mergeMsg,
                   index, work, blobs, pc, m, pre, interrupts, edits>>

\* autoAddModifiedAndDeleted: every tracked path whose worktree file was
\* modified or deleted is added.
AutoAdd(idx, w) ==
    [p \in Path |-> IF idx[p] # NoEntry /\ w[p] # StagedContent(idx[p])
                    THEN Add(idx, w, p)[p] ELSE idx[p]]

\* buildTreeHelper.BuildTree: the tree of the index's Merged entries (the
\* model's paths are flat, so the subtrees it builds and sorts are not
\* modelled).
BuildTree(idx) == [p \in Path |-> StagedContent(idx[p])]

\* Commit: parents HEAD and, while a merge is in progress, MERGE_HEAD; the
\* tree is built from the index (after the auto-add of CommitOptions.All);
\* updateHEAD moves the branch.  Clearing the merge state is the next step.
CommitWrite(all) ==
    /\ pc = "idle"
    /\ Unmerged(index) = {}
    /\ made # NewCommit
    /\ LET c   == CHOOSE c \in NewCommit \ made : TRUE
           idx == IF all THEN AutoAdd(index, work) ELSE index
       IN  /\ index' = idx
           /\ tree' = [tree EXCEPT ![c] = BuildTree(idx)]
           /\ parents' = [parents EXCEPT ![c] =
                            IF mergeHead # NoRef THEN {head, mergeHead} ELSE {head}]
           /\ made' = made \cup {c}
           /\ head' = c
    /\ pc' = "commit_clear"
    /\ UNCHANGED <<mergeHead, origHead, mergeMsg, work, blobs, m, ret, pre,
                   interrupts, edits>>

\* removeMergeHead, RemoveMergeMsg, removeOrigHead, w.blobs = nil.
CommitClear ==
    /\ pc = "commit_clear"
    /\ mergeHead' = NoRef /\ mergeMsg' = "none" /\ origHead' = NoRef
    /\ blobs' = EmptyCache
    /\ pc' = "idle" /\ ret' = "Committed"
    /\ UNCHANGED <<parents, tree, made, head, index, work, m, pre, interrupts,
                   edits>>

\* A plausible fault: the hard reset to HEAD instead of ORIG_HEAD.
AbortMergeToHead ==
    /\ pc = "idle"
    /\ mergeHead' = NoRef /\ mergeMsg' = "none"
    /\ \/ /\ origHead = NoRef
          /\ ret' = "NoOrigHead"
          /\ UNCHANGED <<head, index, work, pc>>
       \/ /\ origHead # NoRef
          /\ index' = TreeIndex(tree[head])
          /\ work' = tree[head]
          /\ pc' = "abort_clear"
          /\ UNCHANGED <<ret, head>>
    /\ UNCHANGED <<parents, tree, made, origHead, blobs, m, pre, interrupts,
                   edits>>

\* AbortMerge: MERGE_HEAD and MERGE_MSG are removed; without ORIG_HEAD the
\* call returns the error, otherwise it hard-resets to ORIG_HEAD (HEAD,
\* index and worktree) and clears the rest in the next step.
AbortMerge ==
    /\ pc = "idle"
    /\ mergeHead' = NoRef /\ mergeMsg' = "none"
    /\ \/ /\ origHead = NoRef
          /\ ret' = "NoOrigHead"
          /\ UNCHANGED <<head, index, work, pc>>
       \/ /\ origHead # NoRef
          /\ head' = origHead
          /\ index' = TreeIndex(tree[origHead])
          /\ work' = tree[origHead]
          /\ pc' = "abort_clear"
          /\ UNCHANGED ret
    /\ UNCHANGED <<parents, tree, made, origHead, blobs, m, pre, interrupts,
                   edits>>

\* removeOrigHead and w.blobs = nil.
AbortClear ==
    /\ pc = "abort_clear"
    /\ origHead' = NoRef /\ blobs' = EmptyCache
    /\ pc' = "idle" /\ ret' = "Aborted"
    /\ UNCHANGED <<parents, tree, made, head, mergeHead, mergeMsg, index, work,
                   m, pre, interrupts, edits>>

-----------------------------------------------------------------------------
(* The user between calls                                                 *)

\* Outside a merge the user edits, creates or deletes a worktree file.
EditFile(p, v) ==
    /\ pc = "idle" /\ mergeHead = NoRef
    /\ edits < MaxEdits
    /\ work' = [work EXCEPT ![p] = v]
    /\ edits' = edits + 1
    /\ UNCHANGED <<parents, tree, made, head, mergeHead, origHead, mergeMsg,
                   index, blobs, pc, m, ret, pre, interrupts>>

\* Outside a merge the user stages a path (Add).
StageFile(p) ==
    /\ pc = "idle" /\ mergeHead = NoRef
    /\ index' = Add(index, work, p)
    /\ UNCHANGED <<parents, tree, made, head, mergeHead, origHead, mergeMsg,
                   work, blobs, pc, m, ret, pre, interrupts, edits>>

\* The user resolves a conflicted path: writes its content and adds it,
\* which leaves one Merged entry (spec 9).
ResolveFile(p, v) ==
    /\ pc = "idle"
    /\ p \in Unmerged(index)
    /\ work' = [work EXCEPT ![p] = v]
    /\ index' = Add(index, work', p)
    /\ UNCHANGED <<parents, tree, made, head, mergeHead, origHead, mergeMsg,
                   blobs, pc, m, ret, pre, interrupts, edits>>

-----------------------------------------------------------------------------

\* The steps a call takes once it has started.
CallStep ==
    \/ FastForwardReset \/ SetOrigHead \/ ResetIndex \/ StageMergeFile
    \/ LogMergeConflicts \/ CommitClear \/ AbortClear
    \/ VirtualNext \/ InnerMergeDone
    \/ \E p \in Path : MergeOursPath(p) \/ WriteMergeFile(p) \/ MergeTheirsPath(p)
                     \/ GetBlobFails(p)

Next ==
    \/ CallStep
    \/ Interrupt
    \/ \E b \in Branch : MergeFastForward(b) \/ MergeRejected(b) \/ MergeStart(b)
    \/ CommitRefused \/ \E all \in BOOLEAN : CommitWrite(all)
    \/ AbortMerge
    \/ \E p \in Path :
          \/ StageFile(p)
          \/ \E v \in Value \cup {NoFile} : EditFile(p, v) \/ ResolveFile(p, v)

\* Every property checked of the merge is a safety property, so the
\* specification carries no fairness.
Spec == Init /\ [][Next]_vars

-----------------------------------------------------------------------------
(* Properties                                                             *)

Steps == {"idle", "ff_reset", "set_orig", "reset_index", "loop", "stage",
          "virtual_next", "commit_clear", "abort_clear"}

TypeOK ==
    /\ head \in AllCommit /\ made \subseteq NewCommit
    /\ mergeHead \in AllCommit \cup {NoRef} /\ origHead \in AllCommit \cup {NoRef}
    /\ mergeMsg \in {"none", "conflicts", "clean"}
    /\ pc \in Steps
    \* spec 3: one Merged entry, or one to three conflict entries and no
    \* Merged one; no entry carries the zero hash
    /\ \A p \in Path :
          /\ DOMAIN index[p] \in {{}, {0}} \cup ((SUBSET {1, 2, 3}) \ {{}})
          /\ \A s \in DOMAIN index[p] : index[p][s] # NoFile
    /\ interrupts \in 0..MaxInterrupts /\ edits \in 0..MaxEdits

\* The step on which a three-way merge call returns its sentinel.
MergeReturns ==
    pc = "loop" /\ pc' = "idle" /\ ret' \in {"CommitNeeded", "Conflicted"}

\* Spec 8, index invariant: when nonFastForwardMerge returns
\* ErrMergeCommitNeeded every index entry is Merged, and when it returns
\* ErrMergeWithConflicts some path has two or more conflict entries: the
\* sentinel logMergeConflicts picks from the per-path diff types agrees
\* with what the loop wrote into the index.
ResultMatchesIndex ==
    [][MergeReturns =>
        /\ ret' = "CommitNeeded" => Unmerged(index') = {}
        /\ ret' = "Conflicted" =>
              \E p \in Path : Cardinality(DOMAIN index'[p] \cap {1, 2, 3}) >= 2
      ]_vars

\* The index entries spec 4.E step 9 prescribes for a path whose base, ours
\* and theirs content are b, o, t, where bb is the blob getBlob reads for
\* the base (b itself unless the base is virtual).
ExpectedEntries(b, bb, o, t) ==
    CASE o = b -> {IF t = NoFile THEN NoEntry ELSE Entry(t)}
      [] t = b -> {IF o = NoFile THEN NoEntry ELSE Entry(o)}
      [] b = NoFile -> {(2 :> o) @@ (3 :> t)}
      [] o = NoFile /\ t = NoFile -> {NoEntry}
      [] t = NoFile -> {(1 :> bb) @@ (2 :> o)}
      [] o = NoFile -> {(1 :> bb) @@ (3 :> t)}
      [] o = t -> {Entry(o)}
      [] OTHER -> {Entry(<<"merged", bb, o, t>>), (1 :> bb) @@ (2 :> o) @@ (3 :> t)}

\* When a three-way merge returns, the index holds for every path the
\* entries the classification table prescribes against the base the merge
\* diffed, whatever order the two loops over Go maps visited the paths in:
\* no path's staged result is lost or overwritten by the processing of
\* another, and none written by the inner merges of a virtual base is left.
IndexOutcome ==
    [][MergeReturns =>
        \A p \in Path : index'[p] \in ExpectedEntries(B3(p)[1], m.bb[p], B3(p)[2], B3(p)[3])
      ]_vars

\* Spec 3, the blob cache: read_file_by_stage answers for every conflict
\* entry conflict_entries lists, with the entry's own blob.  The entries
\* reach the index through addConflictFile on the oursIdx object, and the
\* blobs reach w.blobs through addOrUpdateBlobToCache as getBlob reads
\* them, in different steps of compareCommitsChanges and mergeFiles; a
\* later path's write of oursIdx, a base read from a virtual ancestor, or
\* a blob of the inner merges left in the cache could part them.
ConflictStagesReadable ==
    LET ce == ConflictEntries(index)
    IN  \A p \in DOMAIN ce : \A st \in DOMAIN ce[p] : ReadFileByStage(p, st) = ce[p][st]

\* Spec 4.E: a merge that returns ErrMergeCommitNeeded leaves every path
\* merged, the worktree holding what the index stages, so that a commit
\* of the index, or of the worktree with CommitOptions.All, records the
\* merge.  It is at stake when createVirtualParent's inner merges write
\* into the worktree, which the outer merge's resetIndex does not reset.
CleanMergeMatchesWorktree ==
    [][MergeReturns /\ ret' = "CommitNeeded" =>
        \A p \in Path : work'[p] = StagedContent(index'[p])
      ]_vars

\* Spec 8, abort completeness: an AbortMerge that completes leaves HEAD
\* and the index as they were when the merge set MERGE_HEAD, removes
\* MERGE_HEAD, ORIG_HEAD and MERGE_MSG and empties the blob cache -- also
\* after the merge was interrupted or a fast-forward ran in between.
AbortRestores ==
    [][pc = "abort_clear" /\ pc' = "idle" =>
        /\ head' = pre.head /\ index' = pre.index
        /\ mergeHead' = NoRef /\ origHead' = NoRef /\ mergeMsg' = "none"
        /\ blobs' = EmptyCache
      ]_vars

\* Every commit Commit made stays reachable from HEAD: no abort or reset
\* moves the branch off a commit the user already made.
NoCommitLost == \A c \in made : c \in AncestorsOf(parents, head)

=============================================================================
