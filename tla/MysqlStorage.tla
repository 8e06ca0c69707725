---------------------------- MODULE MysqlStorage ----------------------------
(***************************************************************************)
(* The rows of the MySQL file table behind the billy filesystem of        *)
(* mysqlfs (the storage type of worktree_commit.go): NewFile with the     *)
(* recursion of createParent, RemoveFile, RenameFile (the transaction of  *)
(* a directory rename, the remove-then-update of a file rename) and       *)
(* UpdateFileContent.                                                      *)
(*                                                                         *)
(* Every SQL statement is atomic and the table outlives the process: a    *)
(* step is one statement (with the reads that lead to it), and Crash ends *)
(* the call in progress between two statements, leaving the rows as they *)
(* are.  Calls are made one at a time, as by the single-threaded merge.  *)
(*                                                                         *)
(* A path is the cleaned absolute path as a sequence of names (chroot of  *)
(* New roots every path at "/"); <<>> is "/", which has no row.  A row is *)
(* its id (AUTO_INCREMENT from 1), path, parentID (Null for NULL), mode   *)
(* (dir) and content; its name column is always the last name of its     *)
(* path (filepath.Base) and is left out.                                  *)
(***************************************************************************)
EXTENDS Naturals, Sequences, SequencesExt

CONSTANTS
    Names,      \* the names a path is made of
    MaxDepth,   \* the longest path
    MaxId,      \* the last id AUTO_INCREMENT hands out
    Contents,   \* the contents UpdateFileContent may store
    Crashes,    \* whether the process may die between two statements
    SelfRename  \* whether RenameFile is ever called with from = to

VARIABLES
    rows,       \* id -> [path, parent, dir, content]: the table
    nextId,     \* the next AUTO_INCREMENT id
    phase,      \* "idle", or the step the call in progress takes next
    want,       \* the path the pending NewFile of the recursion creates
    wantDir,    \* whether it is created as a directory
    stack,      \* the frames waiting for their parent: [kind, id, to]
    link,       \* the parent returned to the top frame (Null for nil)
    call,       \* the call in progress, as it was made
    last        \* the last call that returned, and what it returned

vars == <<rows, nextId, phase, want, wantDir, stack, link, call, last>>

Root == <<>>
Null == 0
Paths == {p \in SeqOf(Names, MaxDepth) : p # Root}
NoPath == <<"none">>

\* filepath.Dir of a path; the parent of a top-level path is "/".
Dir(p) == Front(p)

\* GetFile / GetFileID: the id of the row at a path, Null when none.
IdOf(p) == IF \E r \in DOMAIN rows : rows[r].path = p
           THEN CHOOSE r \in DOMAIN rows : rows[r].path = p
           ELSE Null

Exists(p) == IdOf(p) # Null
IsDirAt(p) == Exists(p) /\ rows[IdOf(p)].dir

\* The paths with a row.
Listed == {rows[r].path : r \in DOMAIN rows}

\* ChildrenByFileID: the rows whose parentID is id.
ChildrenByFileID(id) == {r \in DOMAIN rows : rows[r].parent = id}

\* Children: the rows with a NULL parentID for "/", else those of the row
\* found at the path (none when there is no row).
Children(p) ==
    IF p = Root THEN ChildrenByFileID(Null)
    ELSE IF Exists(p) THEN ChildrenByFileID(IdOf(p)) ELSE {}

NoCall == [op |-> "none", path |-> NoPath, to |-> NoPath, id |-> Null, before |-> {}]

\* The end of the call c: the model is idle and remembers what c returned.
Return(c, ret) ==
    /\ phase' = "idle"
    /\ want' = NoPath
    /\ wantDir' = FALSE
    /\ stack' = <<>>
    /\ link' = Null
    /\ call' = NoCall
    /\ last' = c @@ [ret |-> ret]

-----------------------------------------------------------------------------
(* NewFile and createParent                                               *)

\* The parent handed back up the recursion: the top frame is updated next,
\* or, with no frame left, the outermost call returns.
ReturnParent(id) ==
    IF stack = <<>>
    THEN Return(call, "ok")
    ELSE /\ phase' = "link" /\ link' = id
         /\ UNCHANGED <<want, wantDir, stack, call, last>>

\* A plausible fault of createParent: the `if parent == nil` lookup left
\* out, so a directory that already exists is returned as nil.
ExistingParentNil(q) == Null

\* createParent after NewFile returned nil: parent, err = s.GetFile(base).
ExistingParent(q) == IdOf(q)

\* One NewFile(q): GetFile(q); a directory there is returned as nil (and
\* createParent then finds it by GetFile), anything else is the error
\* "file already exists"; otherwise the INSERT with a NULL parentID, then
\* createParent: nothing for a top-level path, else NewFile(Dir(q)) with
\* the row waiting on the stack for its parentID.
NewFileStep(q, isDir) ==
    CASE IsDirAt(q) ->
            UNCHANGED <<rows, nextId>> /\ ReturnParent(ExistingParent(q))
      [] Exists(q) ->
            UNCHANGED <<rows, nextId>> /\ Return(call, "error")
      [] Dir(q) = Root ->
            /\ rows' = rows @@ (nextId :> [path |-> q, parent |-> Null, dir |-> isDir, content |-> ""])
            /\ nextId' = nextId + 1
            /\ ReturnParent(nextId)
      [] OTHER ->
            /\ rows' = rows @@ (nextId :> [path |-> q, parent |-> Null, dir |-> isDir, content |-> ""])
            /\ nextId' = nextId + 1
            /\ stack' = Append(stack, [kind |-> "link", id |-> nextId, to |-> NoPath])
            /\ want' = Dir(q)
            /\ wantDir' = TRUE
            /\ UNCHANGED <<phase, link, call, last>>

\* The ids the recursion of a NewFile of p may take: one per name.
IdsLeft(p) == nextId + Len(p) <= MaxId + 1

\* storage.NewFile(path, mode, flag), called by OpenFile with O_CREATE
\* (a file) or by MkdirAll (a directory).
NewFile(p, isDir) ==
    /\ phase = "idle"
    /\ IdsLeft(p)
    /\ call' = [NoCall EXCEPT !.op = "NewFile", !.path = p, !.before = Listed]
    /\ phase' = "create"
    /\ want' = p
    /\ wantDir' = isDir
    /\ UNCHANGED <<rows, nextId, stack, link, last>>

\* The pending NewFile of the recursion runs.
Create ==
    /\ phase = "create"
    /\ NewFileStep(want, wantDir)

\* A plausible fault of the last UPDATE of a file rename: the statement
\* of CreateParentAddToFile, which sets parentID only.
MoveRowParentOnly(r, to, parent) == [r EXCEPT !.parent = parent]

\* UPDATE ... SET name=?, path=?, parentID=? WHERE id=?
MoveRow(r, to, parent) == [r EXCEPT !.path = to, !.parent = parent]

\* The UPDATE after createParent returned: CreateParentAddToFile sets the
\* parentID of a new row; the last UPDATE of a file rename sets its path
\* and parentID, and fails on the UNIQUE path of another row.
Link ==
    /\ phase = "link"
    /\ LET fr == Last(stack)
       IN  CASE fr.kind = "link" ->
                  /\ rows' = [rows EXCEPT ![fr.id].parent = link]
                  /\ stack' = Front(stack)
                  /\ IF Front(stack) = <<>>
                     THEN Return(call, "ok")
                     ELSE link' = fr.id /\ UNCHANGED <<phase, want, wantDir, call, last>>
             [] IdOf(fr.to) \notin {Null, fr.id} ->
                  UNCHANGED rows /\ Return(call, "error")
             [] OTHER ->
                  /\ rows' = [r \in DOMAIN rows |->
                                IF r = fr.id THEN MoveRow(rows[r], fr.to, link)
                                ELSE rows[r]]
                  /\ Return(call, "ok")
    /\ UNCHANGED nextId

-----------------------------------------------------------------------------
(* RemoveFile, UpdateFileContent                                          *)

\* storage.RemoveFile(path): ErrNotExist without a row; a directory with
\* children is refused; else DELETE by id.
RemoveFile(p) ==
    /\ phase = "idle"
    /\ LET id == IdOf(p)
           c  == [NoCall EXCEPT !.op = "RemoveFile", !.path = p, !.before = Listed]
       IN  CASE id = Null -> UNCHANGED rows /\ Return(c, "error")
             [] rows[id].dir /\ ChildrenByFileID(id) # {} -> UNCHANGED rows /\ Return(c, "error")
             [] OTHER -> rows' = [r \in DOMAIN rows \ {id} |-> rows[r]] /\ Return(c, "ok")
    /\ UNCHANGED nextId

\* storage.UpdateFileContent(fileID, content): UPDATE by id, from a
\* handle that holds the id; no row is changed when the id is gone.
UpdateFileContent(id, c) ==
    /\ phase = "idle"
    /\ rows' = [r \in DOMAIN rows |-> IF r = id THEN [rows[r] EXCEPT !.content = c] ELSE rows[r]]
    /\ UNCHANGED <<nextId, phase, want, wantDir, stack, link, call, last>>

-----------------------------------------------------------------------------
(* RenameFile                                                             *)

\* A plausible fault of the directory branch: the child joined by its
\* path, filepath.Join(to, c.Path), instead of its name.
ChildPathJoinPath(to, p) == to \o p

\* filepath.Join(to, c.FileName): the child's new path.
ChildPath(to, p) == Append(to, Last(p))

\* The directory branch: one transaction sets the directory's path to `to`
\* and the path of each direct child to Join(to, child name); parentID is
\* left alone.  The directory is updated first, then the children, each
\* against the rows as they are at its statement.  MustExec panics on a UNIQUE violation and the transaction
\* is never committed.
RenameDir(c, from, to) ==
    LET f     == IdOf(from)
        kids  == ChildrenByFileID(f)
        moved == [r \in DOMAIN rows |->
                    CASE r = f     -> [rows[r] EXCEPT !.path = to]
                      [] r \in kids -> [rows[r] EXCEPT !.path = ChildPath(to, rows[r].path)]
                      [] OTHER     -> rows[r]]
        clash == \/ \E r \in DOMAIN rows \ {f} : rows[r].path = to
                 \/ \E r \in DOMAIN rows \ ({f} \cup kids) :
                        rows[r].path \in {moved[k].path : k \in kids}
    IN  IF clash THEN UNCHANGED rows /\ Return(c, "panic")
        ELSE rows' = moved /\ Return(c, "ok")

\* The first statement of the file branch: RemoveFile(to), its error
\* ignored.
RemoveTarget(to) ==
    LET id == IdOf(to)
    IN  IF id # Null /\ ~(rows[id].dir /\ ChildrenByFileID(id) # {})
        THEN rows' = [r \in DOMAIN rows \ {id} |-> rows[r]]
        ELSE UNCHANGED rows

\* storage.RenameFile(from, to): ErrNotExist without a row at from.
RenameFile(from, to) ==
    /\ phase = "idle"
    /\ IdsLeft(to)
    /\ LET c == [NoCall EXCEPT !.op = "RenameFile", !.path = from, !.to = to,
                               !.id = IdOf(from), !.before = Listed]
       IN  CASE ~Exists(from) -> UNCHANGED rows /\ Return(c, "error")
             [] IsDirAt(from) -> RenameDir(c, from, to)
             [] OTHER ->
                  /\ RemoveTarget(to)
                  /\ phase' = "move"
                  /\ call' = c
                  /\ UNCHANGED <<want, wantDir, stack, link, last>>
    /\ UNCHANGED nextId

\* The rest of the file branch: GetFileID(Dir(to)); a row there (of any
\* mode) becomes the parent at once; else createParent: nil for a
\* top-level `to`, or NewFile(Dir(to)) with the renamed row waiting.
MoveFile ==
    /\ phase = "move"
    /\ LET fr == [kind |-> "move", id |-> call.id, to |-> call.to]
       IN  CASE Exists(Dir(call.to)) \/ Dir(call.to) = Root ->
                  /\ stack' = <<fr>>
                  /\ phase' = "link"
                  /\ link' = IdOf(Dir(call.to))
                  /\ UNCHANGED <<rows, nextId, want, wantDir, call, last>>
             [] OTHER ->
                  /\ stack' = <<fr>>
                  /\ phase' = "create"
                  /\ want' = Dir(call.to)
                  /\ wantDir' = TRUE
                  /\ UNCHANGED <<rows, nextId, link, call, last>>

-----------------------------------------------------------------------------

\* The process dies between two statements of a call; the table stays.
Crash ==
    /\ Crashes
    /\ phase # "idle"
    /\ Return(call, "crash")
    /\ UNCHANGED <<rows, nextId>>

Init ==
    /\ rows = << >>
    /\ nextId = 1
    /\ phase = "idle"
    /\ want = NoPath
    /\ wantDir = FALSE
    /\ stack = <<>>
    /\ link = Null
    /\ call = NoCall
    /\ last = NoCall @@ [ret |-> "none"]

Next ==
    \/ \E p \in Paths, d \in BOOLEAN : NewFile(p, d)
    \/ Create
    \/ Link
    \/ \E p \in Paths : RemoveFile(p)
    \/ \E id \in 1 .. (nextId - 1), c \in Contents : UpdateFileContent(id, c)
    \/ \E from, to \in Paths : (SelfRename \/ from # to) /\ RenameFile(from, to)
    \/ MoveFile
    \/ Crash

Spec == Init /\ [][Next]_vars

-----------------------------------------------------------------------------
(* Properties                                                             *)

\* A child of a renamed directory takes one name more than the paths calls
\* are made with.
RowPaths == {p \in SeqOf(Names, MaxDepth + 1) : p # Root}

Row == [path : RowPaths, parent : Nat, dir : BOOLEAN, content : Contents \cup {""}]
Call == [op : {"none", "NewFile", "RemoveFile", "RenameFile"}, path : Paths \cup {NoPath},
         to : Paths \cup {NoPath}, id : Nat, before : SUBSET RowPaths]

TypeOK ==
    /\ \E ids \in SUBSET (1 .. MaxId) : rows \in [ids -> Row]
    /\ nextId \in 1 .. MaxId + 1
    /\ phase \in {"idle", "create", "link", "move"}
    /\ stack \in Seq([kind : {"link", "move"}, id : 1 .. MaxId, to : Paths \cup {NoPath}])
    /\ call \in Call
    /\ last \in [op : {"none", "NewFile", "RemoveFile", "RenameFile"},
                 path : Paths \cup {NoPath}, to : Paths \cup {NoPath}, id : Nat,
                 before : SUBSET RowPaths, ret : {"none", "ok", "error", "panic", "crash"}]

\* The ids of directory rows (a row's mode never changes).
DirIds == {r \in DOMAIN rows : rows[r].dir}

\* The prefixes of p, p included: the directories NewFile(p) may create.
Ancestry(p) == {SubSeq(p, 1, i) : i \in 1 .. Len(p)}

\* The prefixes of p from p up to, not including, the longest that is in
\* the set `had`: what NewFile(p) creates when `had` is the rows it finds.
MissingChain(p, had) ==
    {q \in Ancestry(p) : \A o \in Ancestry(p) : Len(o) >= Len(q) => o \notin had}

\* The row at q is linked where its path says: parentID is the row at
\* Dir(q), a directory, or NULL for a top-level q.
LinkedAt(q) ==
    /\ rows[IdOf(q)].parent = IdOf(Dir(q))
    /\ Dir(q) # Root => IsDirAt(Dir(q))

\* NewFile with createParent (worktree_commit.go): a NewFile that returns
\* without error has a row at its path, and the path and every prefix it
\* had to create on the way up, up to the first that already had a row,
\* have rows linked to the row of their Dir, a directory.  Takes several calls, some cut off by
\* a crash, to set up the prefixes.
NewFileCreatesChain ==
    (phase = "idle" /\ last.op = "NewFile" /\ last.ret = "ok") =>
        /\ Exists(last.path)
        /\ \A q \in MissingChain(last.path, last.before) : Exists(q) /\ LinkedAt(q)

\* RenameFile of a file (its else branch): a rename that returns nil
\* leaves the file's row, same id, at `to`, and no row at `from`; the code
\* does this in a DELETE of the target and an UPDATE of the file, the
\* second possibly after the recursion of createParent.
RenameKeepsFile ==
    (phase = "idle" /\ last.op = "RenameFile" /\ last.ret = "ok" /\ last.id \notin DirIds) =>
        /\ last.id \in DOMAIN rows
        /\ rows[last.id].path = last.to
        /\ last.path # last.to => ~Exists(last.path)

\* The merged file is renamed over its target atomically (spec.md, the
\* scoped resources and conflict-marker atomicity): when a RenameFile onto
\* an existing path has returned, or was cut off by a crash, `to` has a
\* row, the old one or the renamed one.
RenameTargetKept ==
    (phase = "idle" /\ last.op = "RenameFile" /\ last.to \in last.before /\ last.path # last.to)
        => Exists(last.to)

=============================================================================
