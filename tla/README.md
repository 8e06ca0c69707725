# TLA+ models of the merge core

This directory holds TLA+ models of the merge engine in `src/`, a fork of go-git's
worktree that adds three-way merge, conflict staging and abort, together with
its MySQL-backed billy filesystem. Each module is translated from the Go source.
The `.cfg` files make the modules checkable by TLC, and `PROJECT.json` lists the
components, runs, mutants, the mapping from definitions to source lines, the
findings and the hazards.

## The system and how its parts interact

| Part | Source | What it does |
|------|--------|--------------|
| Myers differ | `src/unnamed/part_000` | Shortest edit script between two line sequences (`Diff`, `GetShortestPath`, `Backtrack`). |
| diff3 merger | `src/diff3.go` | Three-way merge of base/ours/theirs line sequences into merged text with conflict markers (`Merge`, `writeChunks`, `writeChunk`). Uses the differ twice. |
| merge-base walk | `src/worktree_merge.go` `getCommonParents`, `src/unnamed/part_001` | Date-ordered priority-queue walk that finds the best common ancestors of two commits. |
| virtual ancestor | `src/worktree_merge.go` `createVirtualParent`, `mergeCommits` | With several merge bases, merges them pairwise into an in-memory commit that becomes the base. |
| merge orchestrator | `src/worktree_merge.go` `Merge`, `nonFastForwardMerge`, `compareCommitsChanges`, `logMergeConflicts`, `AbortMerge`, `ConflictEntries`, `ReadFileByStage`, the blob cache | Fast-forward or three-way merge of a branch into HEAD. It classifies every changed path, writes the worktree and the staged index entries, and records MERGE_HEAD, ORIG_HEAD and MERGE_MSG. |
| commit | `src/worktree_commit.go` `Commit` and helpers | Refuses a commit while the index has unmerged entries. Otherwise makes a commit (a merge commit when MERGE_HEAD is set) and clears the merge state. |
| MySQL filesystem | `src/worktree_commit.go` lines 370-830 (storage), `src/go-git-mysql/mysqlfs/mysqlfs_integration_test.go` (Mysqlfs and File handles) | A billy filesystem whose files are rows: open/create/rename/remove, and file handles that cache content. |

A call to `Merge` first reads HEAD and the branch. If HEAD is an ancestor of the
branch, it moves HEAD and hard-resets. Otherwise it runs the merge-base walk, and
the virtual-ancestor step when there are several bases. It sets MERGE_HEAD and
ORIG_HEAD, and resets the index to ours. It diffs base→ours and base→theirs over
trees, and then handles one path at a time. A path that both sides changed goes
through diff3, which runs the Myers differ. Every worktree write goes through the
billy filesystem, which is the MySQL filesystem when the repository is stored in
MySQL.

## Modules

### MergeBase (with MCMergeBase)

State: the commit graph `parents` and timestamps `when` are fixed in Init and
stand for `getParents` and `markCommit`. The other variables are the two
commits, the queue `prQ` and the result slice `res`. `prQ` maps each queued
commit to its flag set, because `PriorityQueue.Push` ORs flags into an entry
that is already queued. One step, `PopAndPushParents`, is one iteration of the
loop:
- pop the newest entry;
- compute `flags`;
- emit the commit if its flags are exactly parent1|parent2;
- push every parent with the flags, plus markStale after a result.

`Return` is the loop test failing. Ties in timestamps are left
nondeterministic, because the heap layout decides them.

The walk is checked against a reference definition:
`BestCommonAncestors` is the set of common ancestors that are not strict
ancestors of another common ancestor, computed with a RECURSIVE `AncestorsOf`.

Runs:
- `merge_base_walk` (pass). It covers every DAG of 5 commits whose commits have
  at most 2 parents, with dates that increase along every parent edge while
  unrelated commits may tie (one dense ranking per date order, since the
  heap only compares dates), and every
  (ours, theirs) pair that reaches the walk (ours not an ancestor of theirs). It
  checks three properties:
  - `ResultIsBest`: on return, the result holds each best common ancestor
    exactly once, whatever order the heap pops tied entries in (the model
    lets any entry of greatest date pop).
  - `StaleBelowResult`: a stale entry lies strictly below a result.
  - `Termination`: the loop ends, under weak fairness, since the loop is one
    synchronous goroutine.
  Five commits are enough for criss-cross histories with two bases, for
  diamonds, and for bases at different depths.
- `merge_base_skew` (violation of `ResultIsBest`). It uses 4 commits whose
  dates are any function onto 1..4, ties included: rebase and cherry-pick
  keep the author date, and dates have one-second resolution. TLC's shortest
  trace has a child dated in the same second as its only parent; a parent
  dated after its child fails the same way. The walk returns nothing. `computeParent` then reports
  `No common parent`, although the two commits share an ancestor.

### MergeWorktree (with MCMergeWorktree)

This module models the merge orchestrator of `worktree_merge.go` together with
`Commit` of `worktree_commit.go`. It is a step model: a call is split at the
points where the code writes to storage, and `pc` names the next step.

State:
- The repository: `parents` (the commit graph, which grows by commits),
  `tree` (path → content of each commit), `head`, and the merge state files
  `mergeHead`, `origHead` and `mergeMsg`.
- The index: `index[p]` maps each stage (0 = merged, 1 = ancestor, 2 = ours,
  3 = theirs) to a blob. The worktree is `work`, and the in-memory blob cache
  is `blobs`.
- The locals of the running call are in `m`: ours, theirs and base, the two
  to-do sets of paths of `compareCommitsChanges`, the `oursIdx` snapshot
  `snap`, the conflicted paths, and the path whose merged file is being
  staged. The call's return value is `ret`.
- `pre` records HEAD and the index at merge start, so the abort property can
  refer to them.

Actions, each named after the code it translates:
- `MergeFastForward` then `FastForwardReset`: the isFastForward branch of
  `Merge`.
- `MergeRejected`: the InProgress, UncommittedChanges and NoCommonParent
  returns.
- `MergeStart`, `SetOrigHead`, `ResetIndex`: nonFastForwardMerge up to the
  loops, with `computeParent`.
- `VirtualNext`, `InnerMergeDone`: `createVirtualParent` (see below).
- `GetBlobFails`: `getBlob` of a virtual base that has no blob to give; the
  merge returns the error.
- `MergeOursPath`, `WriteMergeFile`, `StageMergeFile`, `MergeTheirsPath`:
  one path of the two map loops. The order is free, since Go map order is
  random.
- `LogMergeConflicts`: the return with CommitNeeded or Conflicted.
- `CommitRefused`, `AutoAdd`, `CommitWrite`, `CommitClear`: Commit.
- `AbortMerge`, `AbortClear`: AbortMerge.
- `Interrupt`: a crash or a storage error between two steps. The call
  returns an error, and the in-memory cache may be lost.
- `EditFile`, `StageFile`, `ResolveFile`: the user.

diff3 is abstracted to its outcomes (`Diff3Outcomes`): equal sides, a clean
merge, or a conflict. The Diff3 module checks the merger itself, and its
`diff3_rules` run justifies the abstraction. `IdenticalSidesMerge` shows
that equal sides merge to that side with no conflict.
`ConflictsCounted` shows that the count mergeFiles tests is nonzero exactly
when markers are written.

The read APIs are operators over the state, not actions, since they change
nothing:
- `ConflictEntries` is the index's entries of stage other than Merged.
- `ReadFileByStage` reads the worktree for Merged and the blob cache for
  the other stages.

`BuildTree` is the tree Commit builds from the Merged entries. Paths are
flat in the model, so the subtrees that `buildTreeHelper` builds and sorts
are left out.

Virtual ancestor. When HEAD and the branch have two best common ancestors,
`MergeStart` takes them in either order (the walk's order depends on dates)
and `VirtualNext` runs `createVirtualParent`:
- the inner `mergeCommits` of the pair runs the same `ResetIndex` and loop
  actions as the outer merge, with `m.level = "inner"`, and writes the real
  index and worktree; it does not log conflicts, and `InnerMergeDone` returns
  to the loop of `createVirtualParent`;
- the base handed to the outer merge is what `mergeCommits` returns, the
  pair's own merge base, marked virtual with `Storer.Index()` as its `idx`;
- all of this happens before MERGE_HEAD and ORIG_HEAD are written.

The outer diffs read the virtual base through `mindex.NewRootNode`, which
keeps one entry per path, and the order of the entries of a conflicted path
is not fixed: `NoderView` lets the diff see any of them. `getBlob` reads
the Merged or Ours stage (`VirtualBlob`), falls back to the commit's file
for a path without entries, and fails when neither exists (`NoBlob`).

`SharedIndex` chooses the storer:
- TRUE is the memory storer. `Storer.Index()` returns the same object, so
  the `oursIdx` snapshot sees later `w.Add` calls.
- FALSE is the filesystem storer, which decodes a fresh copy on each call.
  It is the storer the tests use.

With the memory storer the virtual base's `idx` is the live index, which
the outer `resetIndex` sets to ours' tree, so the virtual base equals ours.

Fairness: none. Every property of this module is a safety property. A
"every call returns" property was dropped: the loops of the merge are Go
`range` loops and createVirtualParent a bounded `for`, so it held by the
shape of the model whatever the code does.

Bounds: two paths, enough for one path's index write to interfere with
another's. Contents are three model values and absence. The outcome run
draws each path from 14 triples, one per cell of the table of spec 4.E. The
lifecycle run uses 4 triples and allows one interrupt, one edit and one new
commit. More interrupts or edits multiply the state space without reaching
new orders of writes. The criss-cross history adds commits X and Y between B
and both O and C (the tip of `criss`). `MCCrissCases` gives each path its
content on B, X, Y, O and C, six 5-tuples that make the inner merge clean, conflicting,
delete/modify and both-added. The lifecycle run takes only the
delete/modify tuple, whose virtual base has no Ours stage.

Runs:
- `merge_outcome` (pass): on the memory storer, every pair of table cells,
  in every loop order, and every pair of criss-cross tuples merged over a
  virtual ancestor. Properties:
  - `IndexOutcome`: the staged entries are those of spec 4.E.
  - `ResultMatchesIndex`: CommitNeeded/Conflicted agrees with the unmerged
    entries.
  - `ConflictStagesReadable` (an invariant): for every entry that
    `ConflictEntries` lists, `ReadFileByStage` returns that entry's blob.
    The entries reach the index through `addConflictFile` on the `oursIdx`
    object. The blobs reach the cache through `addOrUpdateBlobToCache`,
    in other steps. The run has no crashes. Under the lifecycle cfg an
    interrupt that drops the in-memory cache breaks the property in five
    steps (hazard at line 171).
- `merge_lifecycle` (pass): on the filesystem storer, interrupted merges,
  fast-forwards, commits and aborts, and a criss-cross merge whose getBlob
  fails. Properties:
  - `AbortRestores`: a completed abort restores the pre-merge HEAD and
    index, and clears MERGE_HEAD, ORIG_HEAD, MERGE_MSG and the cache.
- Violation runs, each a finding in `PROJECT.json`:
  - `merge_fs_index`: with the filesystem storer, a conflict on one path
    writes the stale `oursIdx` back and undoes the staged clean merge of
    another.
  - `commit_interrupted`: a commit interrupted after moving the branch but
    before clearing MERGE_HEAD. A later AbortMerge then resets the branch off
    the new commit, and the commit is lost.
  - `merge_virtual_worktree` (`CleanMergeMatchesWorktree`: a merge that
    returns CommitNeeded leaves the worktree equal to the staged index): on
    the filesystem storer, the inner merge of X and Y writes a conflict file
    into the worktree. O and C agree on the path, so the outer merge, which
    resets only the index, leaves the file. Merge returns CommitNeeded with
    conflict markers in the worktree.

### Myers (checked in MCDiff3)

`Myers.tla` translates `GetShortestPath`, `getIndexV`, `Backtrack` and
`Diff` of `unnamed/part_000` into RECURSIVE operators:
- the two loops are `DLoop` and `KLoop`, with `Snake` for the diagonal run;
- each round of the backtrack is `BacktrackRound`;
- the channel from the Backtrack goroutine is the sequence of steps it sends,
  in order, so the script comes out from the ends of the files backwards.

A read of `v` outside its length is the Go panic. It is reported in a field,
not evaluated.

`MCDiff3` checks the two diffs that diff3 setup takes (base against ours,
base against theirs) of every triple of files of up to three lines over
three texts against two reference definitions:
- `DiffApplies`: the reversed script, read as instructions, turns a into b.
- `DiffMinimal`: the number of inserts and deletes is the LCS edit distance.
  The LCS length is a RECURSIVE operator.

Both are computed once per pair of files, in the constant table
`DiffChecks`. The three files never change after `Init`, so the two are
invariants judged in the state where setup is about to diff them
(`pc = "setup"`). They are part of the `diff3_rules` run, and both hold.

Both are guarded by the panic table, because the differ does panic on two
empty files: `v` has one element, and the first round reads `v[1]`. Spec 4.A
says the result must be empty. The orchestrator never diffs two empty blobs,
because it runs diff3 only on changed files. A one-line unit test reaches
this case, so it is listed as a hazard and no run checks it.

### Diff3 (with MCDiff3)

One call of `diff3.Merge`:
- `Setup` runs both Myers diffs and `getMatches`. `SetupPanics` is the case
  where the differ panics.
- Each iteration of the `writeChunks` loop is a step: `EmitChunk`, or
  `EmitFinalChunk`, which returns.
- `getNextMismatch`, `getNextMatch`, `isInBounds`, `isMatch`, `writeChunk`
  and `writeConflictToFile` are operators.

A file is its sequence of lines, and the output is the sequence of lines
and conflict markers written to the temporary file. The MC module computes
the Myers results once per pair of files, in a constant table, with the same
operators, and `Setup` looks them up.

`diff3_rules` checks every triple of files of up to three lines over three
texts (64,000 calls, 258,068 states). Besides `DiffApplies` and
`DiffMinimal`, it checks:
- `ChunksTerminate`: the loop always returns. The fairness is on the loop
  steps, which the one goroutine always takes.
- `IdenticalSidesMerge`: `merge(base, x, x) = x` with no conflict.
- `TrivialSide`: a side equal to the base yields the other side.
- `ConflictsCounted`: the returned count equals the number of conflict
  hunks. The orchestrator stages a file as merged exactly when the count is
  zero.

All four hold. The bounds cover chunks in which a side is emptied,
shortened, lengthened or changed in place, and files whose Myers alignments
differ between the two sides.

### MysqlStorage (with MCMysqlStorage)

This module models the file table of the `storage` type in
`src/worktree_commit.go` (lines 370–830).
- `rows` maps each AUTO_INCREMENT id to a record of path, parentID, mode and
  content. Paths are unique, as the `UNIQUE (path)` column makes them.
- A path is a sequence of names, and `<<>>` is `/`, which has no row.
- The name column is always `filepath.Base(path)`, so it is left out.

Each SQL statement is atomic and is one step. Calls are made one at a time.
- `NewFile` starts a call. `Create` is one `NewFile` of the recursion
  through `createParent`: either the `GetFile` check, or the INSERT with a
  NULL parentID.
- `Link` is an UPDATE once a parent has been returned. It is either the
  UPDATE of `CreateParentAddToFile`, or the last UPDATE of a file rename,
  which can fail on the UNIQUE path.
- `stack` holds the rows that wait for their parentID.
- `RemoveFile`, `UpdateFileContent` and the directory branch of
  `RenameFile` are single steps. The directory branch is one transaction,
  and a UNIQUE clash makes `MustExec` panic.
- The file branch of `RenameFile` is three steps:
  1. the `RemoveFile` of the target, with its error ignored;
  2. `MoveFile`: `GetFileID(Dir(to))` or `createParent`;
  3. the UPDATE, done by `Link`.
- `Crash` ends the call in progress between two statements. The table
  outlives the process.
- `call` and `last` record each call and what it returned, so that
  properties can compare a state with the state at the start of the call.

Bounds: paths of up to two names over `{a, b}`, and three ids. Three ids
are enough for a two-level `NewFile` plus one more file. Rows of a renamed
directory's children can take three names. Run `storage_ops` has 197,655
states, with crashes enabled, and checks:
- `NewFileCreatesChain`: a `NewFile` that succeeds has linked every prefix
  it created to the directory row of its `Dir`.
- `RenameKeepsFile`: a file rename between two distinct paths that succeeds
  leaves the same row at `to` and nothing at `from`.

Both hold. `storage_rename_crash` shows `RenameTargetKept` violated. A
crash between the DELETE of the target and the UPDATE of a file rename
leaves no file at the target. The spec says the merged file is renamed over
its target atomically.

TLC also found these bugs while the model was built. They are recorded as
hazards in `PROJECT.json`, and no run checks them:
- A directory rename never updates parentID. No test reaches it:
  `TestRenameFile3` creates `/dir1/dir2` as a file (mode 0666), so it goes
  through the file branch, which does update parentID.
- A file renamed to a path under a file gets that file as parent. Renaming
  `/a` to `/a/a` makes the file its own parent.
- `RenameFile(x, x)` deletes `x` and returns nil.
- A `NewFile` under a file returns an error after its INSERT, and
  `ReadDir("/")` then lists the row it leaves.

The passing run excludes self-renames (`SelfRename = FALSE`), because that
case is its own finding. No caller in the merge renames a file onto
itself. There is no fairness: no property is about progress.

### MysqlHandles, BillyFile (with MCMysqlHandles)

`MysqlHandles` models the billy.File handles of `Mysqlfs`, which are in
`src/go-git-mysql/mysqlfs/mysqlfs_integration_test.go`.
- `hs` maps each handle to the `File` the program holds: its state, row id,
  path, position, cached `Content`, and whether its flags allow reading and
  writing. A `free` handle is one the program does not hold.
- `rows` is the file table, reduced to path and content. Only top-level
  files are opened here. Directories and the parent chain belong to
  MysqlStorage.
- Each storage call (`GetFile`, `NewFile`, `RenameFile`, `RemoveFile`,
  `UpdateFileContent`) is one step here. Their statements, and crashes
  between them, are modelled in MysqlStorage.

The actions follow the code:
- `OpenFile` covers `Create` and `Open`. It finds the row, or INSERTs one
  when `O_CREATE` is set, and then runs `Duplicate`. `O_APPEND` puts the
  position at the end. `O_TRUNC` empties only the handle's copy.
- `Read` first reloads the copy from the row at the handle's path, even on
  a closed handle, and then runs `ReadAt`.
- `Write` runs `WriteAt` on the copy, then stores the whole copy by id.
- `Seek`, `Close` and `Truncate` change only the handle. `Truncate` does
  not check that the handle is closed.
- `Rename` and `RemoveFile` model `Mysqlfs.Rename` and `Mysqlfs.Remove`.
- A Go panic ends the process, and `Restart` starts it again with no
  handles. A panic happens on a nil `File` in `Read` when the path has no
  row, or on a negative slice index after a negative `Seek`.
- Errors that change nothing are left out: ErrClosed from `Write`, `Seek`
  and `Close`, and "write not supported".

`BillyFile` is the abstract specification: the billy.File contract as the
doc comments of `Mysqlfs` state it, and as os.File and go-billy's memfs
behave.
- Handles on one file share its content.
- A Write changes the file at the handle's position.
- `Create` and `Truncate` resize the file.
- A rename keeps the file, and a rename onto the file's own path changes
  nothing.

`MysqlHandles` maps to it with `INSTANCE BillyFile WITH files <- rows` and
each handle's state, id and position. `BillyContract` is that
specification, checked as a property.

Bounds:
- two handles and two paths;
- the bytes `x` and a zero byte, with contents of up to two bytes;
- the four flag sets go-git uses: Open, Create, `O_RDWR`, and
  `O_WRONLY|O_CREATE|O_APPEND`;
- seek offsets -1 and 1, and two ids;
- at most seven calls, set by `CallBound`, a state constraint on the ghost
  counter `calls`.

Seven calls cover all of these cases:
- two handles open, both writing;
- a rename followed by a new file at the old path;
- the negative-seek panic.

Handles are symmetric. Run `handles_ops` has 831,838 distinct states and
checks:
- `ReadSeesStore`: a successful Read returns the stored bytes of the row at
  the handle's path, from its position, whatever other handles did in
  between. The reference is `BytesAt`.
- `WriteStoresOverwrite`: a successful Write changes only the row with the
  handle's id. That row becomes the handle's copy with the written bytes
  over it, checked against the reference `Overwrite`. This covers the
  zero-filled gap and the tail that the append trick keeps.

Both hold. `handles_contract` shows `BillyContract` violated. TLC's
shortest trace is a Create, then `Truncate(2)` (not stored), then a Write
at 0 that stores `"x\0"`. Without truncation the same property fails on two
handles: the second handle's stale copy overwrites the first handle's
write. `Mysqlfs.Create` says it truncates, and `TestReadWriteFile` expects a
second handle to see the first one's write.

## Plan and status

1. MergeBase: done.
2. Merge orchestrator with commit and abort: done, with diff3 abstracted to
   its outcomes.
3. Myers and diff3: done.
4. Virtual ancestor (`createVirtualParent`), composed into MergeWorktree
   with several merge bases.
5. MySQL storage: done.
6. MySQL filesystem handles: done, with the billy.File contract as an
   abstract specification that they refine, and the storage calls taken
   as single steps.

7. Merge-state reads (`ConflictEntries`, `ReadFileByStage`) as operators,
   checked against the blob cache in `merge_outcome`.

Runs are capped at twelve. The differ's own run was folded into
`diff3_rules` to make room for `merge_virtual_worktree`. Two merge findings
were retired from runs to make room for the handles, and are kept as
hazards:
- a fast-forward while MERGE_HEAD is present;
- a delete/modify conflict that leaves theirs' file out of the worktree.

## Not modelled

The go-git library itself (object encoding, packfiles, the tree objects
`buildTreeHelper` writes), and logging and message wording are not
modelled. The calls MergeWorktree makes
into it (isFastForward, Reset, Add, Remove) are modelled from their
documented effect. Line splitting by `bufio.Scanner` and the temporary files
of diff3 are not modelled either. They are pure I/O or formatting
and no property distinguishes them. `MergeMsg` and `MergeMsgFileContent`
only return the stored message, and no property reads it. Storage errors
inside a step are not produced: a failing copy in `copyFileToOurs`, or a
failing status in `hasUncommittedFiles`. Both are listed as hazards. An
interrupt between steps stands for a crash or an error there.

Of `createVirtualParent`, three or more best common ancestors and a pair
whose own merge base is virtual are not modelled. With three, the loop keeps
only the merge base of the last pair, which is listed as a hazard.

Several parts of the MySQL filesystem are not modelled:
- `Stat`, `Lstat`, `ReadDir` and `Readlink` are reads that change nothing.
- `Symlink`, and the link resolution in `OpenFile` and `Stat`, are left
  out. A link's content is read as a path, and `Symlink` writes through
  `util.WriteFile`, which is outside `src/`. The unbounded recursion of
  `OpenFile` on a link cycle is listed as a hazard.
- `TempFile` is go-billy's `util.TempFile`.
