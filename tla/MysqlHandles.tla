---------------------------- MODULE MysqlHandles ----------------------------
(***************************************************************************)
(* The billy.File handles of mysqlfs (mysqlfs_integration_test.go): what  *)
(* OpenFile hands out (File.Duplicate of the row GetFile read), and       *)
(* Read, Write, Seek, Close and Truncate on it, beside Rename and Remove  *)
(* of the filesystem.  A handle is a value of the program holding the     *)
(* row's id, its path, a position and a cached copy of the content, so    *)
(* several handles on one file interleave through the table only.         *)
(*                                                                         *)
(* The storage calls are taken as one step each: their statements and the *)
(* crashes between them are the subject of MysqlStorage.  Only files at   *)
(* the top of the tree are opened here (mkdir and the parent chain are    *)
(* MysqlStorage's), so a row is its path and content.  A content is a     *)
(* sequence of bytes; Zero is the byte a gap is filled with.              *)
(*                                                                         *)
(* A Go panic (a nil File, a negative slice index) ends the process: its  *)
(* handles are gone and the table stays; Restart is the process started   *)
(* again.  Calls that return an error without changing anything           *)
(* (ErrClosed of Write, Seek and Close, "write not supported") are steps  *)
(* that change nothing and are left out.                                   *)
(***************************************************************************)
EXTENDS Integers, Sequences, SequencesExt

CONSTANTS
    Paths,      \* the files' paths
    Handles,    \* the handles the program may hold
    Bytes,      \* the bytes a Write may carry
    Zero,       \* the zero byte
    Chunks,     \* the slices a Write is called with
    ReadSizes,  \* the lengths of the buffers Read is called with
    Offsets,    \* the offsets Seek is called with
    OpenFlags,  \* the flags OpenFile is called with
    MaxLen,     \* the longest content a file may reach
    MaxPos,     \* the largest |position| a Seek may set
    MaxId       \* the last id AUTO_INCREMENT hands out

VARIABLES
    rows,       \* id -> [path, content]: the file table
    nextId,     \* the next AUTO_INCREMENT id
    hs,         \* handle -> its File: state, id, path, pos, content, flags
    alive,      \* FALSE from a panic until the process is started again
    last,       \* the last call, and the bytes a Read returned or a Write took
    calls       \* how many calls the program has made

vars == <<rows, nextId, hs, alive, last, calls>>

Null == 0
NoPath == "none"

\* A handle the program does not hold (yet, or since the process died).
Free == [state |-> "free", id |-> Null, path |-> NoPath, pos |-> 0,
         content |-> <<>>, rd |-> FALSE, wr |-> FALSE]

NoLast == [op |-> "none", h |-> "none", n |-> 0, data |-> <<>>]

\* GetFile / GetFileID: the id of the row at a path, Null when none.
IdOf(p) == IF \E r \in DOMAIN rows : rows[r].path = p
           THEN CHOOSE r \in DOMAIN rows : rows[r].path = p
           ELSE Null

\* Every byte of a content of length n is Zero: make([]byte, n).
Zeros(n) == [i \in 1 .. n |-> Zero]

\* DELETE FROM ... WHERE id=?
DeleteRow(id) == [r \in DOMAIN rows \ {id} |-> rows[r]]

-----------------------------------------------------------------------------
(* Mysqlfs.OpenFile and File.Duplicate                                    *)

\* isReadAndWrite(flag) || isReadOnly(flag): O_RDWR set, or the flag is
\* exactly O_RDONLY (O_RDONLY|O_CREATE is not readable).
Readable(fl) ==
    \/ fl.access = "rw"
    \/ fl.access = "r" /\ ~fl.create /\ ~fl.trunc /\ ~fl.append

\* isReadAndWrite(flag) || isWriteOnly(flag).
Writable(fl) == fl.access \in {"w", "rw"}

\* A plausible fault of Duplicate: O_APPEND one past the end.
DuplicateAppendPastEnd(id, p, c, fl) ==
    [state |-> "open", id |-> id, path |-> p,
     pos |-> IF fl.append THEN Len(c) + 1 ELSE 0,
     content |-> IF fl.trunc THEN <<>> ELSE c,
     rd |-> Readable(fl), wr |-> Writable(fl)]

\* File.Duplicate(perm, flag) of the File read from the row: a handle at
\* position 0 with the row's content; O_APPEND moves the position to the
\* end, then O_TRUNC empties the copy (and only the copy).
Duplicate(id, p, c, fl) ==
    [state |-> "open", id |-> id, path |-> p,
     pos |-> IF fl.append THEN Len(c) ELSE 0,
     content |-> IF fl.trunc THEN <<>> ELSE c,
     rd |-> Readable(fl), wr |-> Writable(fl)]

\* Mysqlfs.OpenFile(filename, flag, perm): GetFile; without a row,
\* storage.NewFile when O_CREATE is set (an INSERT of an empty row), else
\* ErrNotExist; then Duplicate.  Open is O_RDONLY, Create is
\* O_RDWR|O_CREATE|O_TRUNC.
OpenFile(h, p, fl) ==
    /\ alive
    /\ hs[h].state = "free"
    /\ LET id == IdOf(p)
       IN  IF id # Null
           THEN /\ hs' = [hs EXCEPT ![h] = Duplicate(id, p, rows[id].content, fl)]
                /\ UNCHANGED <<rows, nextId>>
           ELSE IF fl.create
           THEN /\ nextId <= MaxId
                /\ rows' = rows @@ (nextId :> [path |-> p, content |-> <<>>])
                /\ nextId' = nextId + 1
                /\ hs' = [hs EXCEPT ![h] = Duplicate(nextId, p, <<>>, fl)]
           ELSE UNCHANGED <<rows, nextId, hs>>
    /\ last' = [NoLast EXCEPT !.op = IF IdOf(p) = Null /\ ~fl.create THEN "OpenFailed" ELSE "OpenFile",
                               !.h = h]
    /\ UNCHANGED alive

-----------------------------------------------------------------------------
(* File.Read and File.ReadAt                                              *)

\* A plausible fault of ReadAt: one byte short at the end of the file,
\* l = size - off - 1.
ReadAtShort(c, off, n) ==
    IF off >= Len(c) THEN <<>>
    ELSE SubSeq(c, off + 1, IF off + n > Len(c) THEN Len(c) - 1 ELSE off + n)

\* ReadAt(b, off) of a content c with len(b) = n: EOF at or past the end,
\* else the bytes from off, at most n of them.
ReadAt(c, off, n) ==
    IF off >= Len(c) THEN <<>>
    ELSE SubSeq(c, off + 1, IF off + n > Len(c) THEN Len(c) ELSE off + n)

\* File.Read(b): GetFile(f.Path) first, whatever the handle's state; a
\* nil File (no row at the path any more) is dereferenced and panics.
\* The copy is replaced by the row's content, then ReadAt: ErrClosed,
\* "read not supported" without O_RDONLY or O_RDWR, a negative position
\* slices out of range and panics; else the position moves by what was
\* read.
Read(h, n) ==
    /\ alive
    /\ hs[h].state # "free"
    /\ LET f   == hs[h]
           id  == IdOf(f.path)
           c   == rows[id].content
           got == ReadAt(c, f.pos, n)
       IN  CASE id = Null \/ (f.state = "open" /\ f.rd /\ f.pos < 0) ->
                  /\ alive' = FALSE
                  /\ last' = [NoLast EXCEPT !.op = "Panic", !.h = h]
                  /\ UNCHANGED hs
             [] f.state = "open" /\ f.rd ->
                  /\ hs' = [hs EXCEPT ![h].content = c, ![h].pos = f.pos + Len(got)]
                  /\ last' = [op |-> "Read", h |-> h, n |-> n, data |-> got]
                  /\ UNCHANGED alive
             [] OTHER ->
                  /\ hs' = [hs EXCEPT ![h].content = c]
                  /\ last' = [NoLast EXCEPT !.op = "ReadFailed", !.h = h]
                  /\ UNCHANGED alive
    /\ UNCHANGED <<rows, nextId>>

-----------------------------------------------------------------------------
(* File.Write and File.WriteAt                                            *)

\* A plausible fault of WriteAt: the content cut to what was written,
\* without the `if len(f.Content) < prev` that keeps the old tail.
WriteAtNoTail(c, off, p) ==
    LET padded == IF off > Len(c) THEN c \o Zeros(off - Len(c)) ELSE c
    IN  SubSeq(padded, 1, off) \o p

\* File.WriteAt(p) at the position off >= 0: a gap past the end is filled
\* with zeros, p replaces the bytes from off, and append on the slice
\* leaves the old bytes after off+len(p) in place.
WriteAt(c, off, p) ==
    LET padded == IF off > Len(c) THEN c \o Zeros(off - Len(c)) ELSE c
        head   == SubSeq(padded, 1, off) \o p
    IN  IF Len(head) < Len(c) THEN head \o SubSeq(c, Len(head) + 1, Len(c)) ELSE head

\* UPDATE ... SET content=? WHERE id=?: no row changes when the id is gone.
UpdateFileContent(id, c) ==
    [r \in DOMAIN rows |-> IF r = id THEN [rows[r] EXCEPT !.content = c] ELSE rows[r]]

\* File.Write(p) on an open handle with O_WRONLY or O_RDWR: WriteAt on the
\* copy (a negative position slices out of range and panics), the
\* position moves by len(p), and the whole copy is stored by id.
Write(h, p) ==
    /\ alive
    /\ hs[h].state = "open"
    /\ hs[h].wr
    /\ LET f == hs[h]
           c == WriteAt(f.content, f.pos, p)
       IN  IF f.pos < 0
           THEN /\ alive' = FALSE
                /\ last' = [NoLast EXCEPT !.op = "Panic", !.h = h]
                /\ UNCHANGED <<rows, hs>>
           ELSE /\ Len(c) <= MaxLen
                /\ hs' = [hs EXCEPT ![h].content = c, ![h].pos = f.pos + Len(p)]
                /\ rows' = UpdateFileContent(f.id, c)
                /\ last' = [NoLast EXCEPT !.op = "Write", !.h = h, !.data = p]
                /\ UNCHANGED alive
    /\ UNCHANGED nextId

-----------------------------------------------------------------------------
(* File.Seek, File.Close, File.Truncate                                   *)

\* File.Seek(offset, whence) on an open handle: nothing checks that the
\* new position is not negative.
Seek(h, off, whence) ==
    /\ alive
    /\ hs[h].state = "open"
    /\ LET f   == hs[h]
           pos == CASE whence = "current" -> f.pos + off
                    [] whence = "start"   -> off
                    [] whence = "end"     -> Len(f.content) + off
       IN  /\ pos \in -MaxPos .. MaxPos
           /\ hs' = [hs EXCEPT ![h].pos = pos]
    /\ last' = [NoLast EXCEPT !.op = "Seek", !.h = h]
    /\ UNCHANGED <<rows, nextId, alive>>

\* File.Close: an open handle is marked closed.
Close(h) ==
    /\ alive
    /\ hs[h].state = "open"
    /\ hs' = [hs EXCEPT ![h].state = "closed"]
    /\ last' = [NoLast EXCEPT !.op = "Close", !.h = h]
    /\ UNCHANGED <<rows, nextId, alive>>

\* File.Truncate(size), closed or not: the copy is cut to size or filled
\* with zeros up to it; the row is not touched.
Truncate(h, size) ==
    /\ alive
    /\ hs[h].state # "free"
    /\ LET c == hs[h].content
       IN  hs' = [hs EXCEPT ![h].content =
                    IF size < Len(c) THEN SubSeq(c, 1, size) ELSE c \o Zeros(size - Len(c))]
    /\ last' = [NoLast EXCEPT !.op = "Truncate", !.h = h]
    /\ UNCHANGED <<rows, nextId, alive>>

-----------------------------------------------------------------------------
(* Mysqlfs.Rename and Mysqlfs.Remove                                      *)

\* Mysqlfs.Rename -> storage.RenameFile of a file: ErrNotExist without a
\* row at from; else RemoveFile(to), then the UPDATE of the file's row to
\* `to` (the parent of a top-level path is NULL).  With from = to the
\* RemoveFile deletes the file itself.
Rename(from, to) ==
    /\ alive
    /\ IdOf(from) # Null
    /\ LET id   == IdOf(from)
           kept == IF IdOf(to) # Null THEN DeleteRow(IdOf(to)) ELSE rows
       IN  rows' = [r \in DOMAIN kept |->
                      IF r = id THEN [kept[r] EXCEPT !.path = to] ELSE kept[r]]
    /\ last' = [NoLast EXCEPT !.op = "Rename"]
    /\ UNCHANGED <<nextId, hs, alive>>

\* Mysqlfs.Remove -> storage.RemoveFile: ErrNotExist without a row, else
\* DELETE by id.
RemoveFile(p) ==
    /\ alive
    /\ IdOf(p) # Null
    /\ rows' = DeleteRow(IdOf(p))
    /\ last' = [NoLast EXCEPT !.op = "Remove"]
    /\ UNCHANGED <<nextId, hs, alive>>

\* The process is started again after a panic: no handle survives.
Restart ==
    /\ ~alive
    /\ alive' = TRUE
    /\ hs' = [h \in Handles |-> Free]
    /\ last' = NoLast
    /\ UNCHANGED <<rows, nextId>>

Init ==
    /\ rows = << >>
    /\ nextId = 1
    /\ hs = [h \in Handles |-> Free]
    /\ alive = TRUE
    /\ last = NoLast
    /\ calls = 0

Next ==
    /\ calls' = calls + 1
    /\ \/ \E h \in Handles, p \in Paths, fl \in OpenFlags : OpenFile(h, p, fl)
       \/ \E h \in Handles, n \in ReadSizes : Read(h, n)
       \/ \E h \in Handles, p \in Chunks : Write(h, p)
       \/ \E h \in Handles, off \in Offsets, w \in {"start", "current", "end"} : Seek(h, off, w)
       \/ \E h \in Handles : Close(h)
       \/ \E h \in Handles, size \in 0 .. MaxLen : Truncate(h, size)
       \/ \E from, to \in Paths : Rename(from, to)
       \/ \E p \in Paths : RemoveFile(p)
       \/ Restart

Spec == Init /\ [][Next]_vars

-----------------------------------------------------------------------------
(* Properties                                                             *)

Content == BoundedSeq(Bytes \cup {Zero}, MaxLen)
Positions == -MaxPos .. (IF MaxPos > MaxLen THEN MaxPos ELSE MaxLen)

TypeOK ==
    /\ \E ids \in SUBSET (1 .. MaxId) : rows \in [ids -> [path : Paths, content : Content]]
    /\ nextId \in 1 .. MaxId + 1
    /\ hs \in [Handles -> [state : {"free", "open", "closed"}, id : 0 .. MaxId,
                           path : Paths \cup {NoPath}, pos : Positions, content : Content,
                           rd : BOOLEAN, wr : BOOLEAN]]
    /\ alive \in BOOLEAN
    /\ calls \in Nat
    /\ last \in [op : {"none", "OpenFile", "OpenFailed", "Read", "ReadFailed", "Write", "Seek", "Close",
                       "Truncate", "Rename", "Remove", "Panic"},
                 h : Handles \cup {"none"}, n : Nat, data : Seq(Bytes \cup {Zero})]

\* The billy.File contract, with the table's rows as the files and each
\* handle's id and position as the handle.
Contract == INSTANCE BillyFile WITH
    files <- rows,
    handles <- [h \in Handles |-> [state |-> hs[h].state, id |-> hs[h].id, pos |-> hs[h].pos]]

\* File.Read reads the table, not the handle's copy: the bytes a
\* successful Read returns are those of the row now at the handle's path,
\* from the handle's position, however other handles wrote, truncated,
\* renamed or removed in between.
ReadSeesStore ==
    [][last'.op = "Read" =>
         LET f == hs[last'.h]
         IN  last'.data = Contract!BytesAt(rows[IdOf(f.path)].content, f.pos, last'.n)]_vars

\* File.Write with WriteAt: a successful Write changes the row with the
\* handle's id and no other, to the handle's copy with the bytes written
\* over it at the handle's position (zeros filling a gap past the end,
\* the bytes after the written ones kept).
WriteStoresOverwrite ==
    [][last'.op = "Write" =>
         LET f == hs[last'.h]
         IN  rows' = [r \in DOMAIN rows |->
                        IF r = f.id THEN [rows[r] EXCEPT !.content = Contract!Overwrite(f.content, f.pos, last'.data)]
                        ELSE rows[r]]]_vars

\* The handles implement the billy.File contract (BillyFile): handles on
\* one file share its content, a Write lands on the file as it is, Create
\* (O_TRUNC) and Truncate shorten the file, a Read follows the file the
\* handle was opened on, and a rename onto the file's own path keeps it.
\* Violated by the cached Content of File: see the findings.
BillyContract == Contract!Spec

=============================================================================
