----------------------------- MODULE BillyFile ------------------------------
(***************************************************************************)
(* What a billy.Filesystem promises the holder of a billy.File, the way   *)
(* the doc comments of Mysqlfs state it (Create truncates, Rename          *)
(* replaces the target) and the way os.File and go-billy's memfs behave:  *)
(* the handles of one file share its content, a Write changes the file at *)
(* the handle's position, a Read returns the file's bytes there, Truncate *)
(* resizes the file, and a file keeps its identity across a Rename.        *)
(*                                                                         *)
(* A file is an id with a path and a content; a handle refers to a file by *)
(* id and has a position.  The process that holds the handles may end at  *)
(* any time, and its handles with it.                                     *)
(***************************************************************************)
EXTENDS Integers, Sequences, TLC

CONSTANTS Paths, Handles, Zero, Chunks, ReadSizes, Offsets, OpenFlags, MaxLen, MaxId

VARIABLES
    files,      \* id -> [path, content]: the files there are
    handles     \* handle -> [state, id, pos]

\* The bytes of c from position pos on, at most n: what a read of n bytes
\* at pos returns, by the positions it covers.
BytesAt(c, pos, n) ==
    LET k == IF pos + n > Len(c) THEN Len(c) - pos ELSE n
    IN  [i \in 1 .. (IF k > 0 THEN k ELSE 0) |-> c[pos + i]]

\* c with the bytes of p written over it from position pos on, by
\* position: p where it covers, else c, else the zero byte of a gap.
Overwrite(c, pos, p) ==
    LET n == IF pos + Len(p) > Len(c) THEN pos + Len(p) ELSE Len(c)
    IN  [i \in 1 .. n |-> IF i > pos /\ i <= pos + Len(p) THEN p[i - pos]
                          ELSE IF i <= Len(c) THEN c[i] ELSE Zero]

\* c cut to, or filled with zeros up to, size bytes.
Resize(c, size) == [i \in 1 .. size |-> IF i <= Len(c) THEN c[i] ELSE Zero]

FileAt(p) == {id \in DOMAIN files : files[id].path = p}

Linked(h) == handles[h].id \in DOMAIN files

SetContent(id, c) ==
    files' = [r \in DOMAIN files |-> IF r = id THEN [files[r] EXCEPT !.content = c] ELSE files[r]]

\* Open: a handle on the file at p, at its end with O_APPEND; O_TRUNC
\* empties the file; O_CREATE makes an empty file where there is none.
Open(h, p, fl) ==
    /\ handles[h].state = "free"
    /\ \/ \E id \in FileAt(p) :
            /\ handles' = [handles EXCEPT ![h] = [state |-> "open", id |-> id,
                             pos |-> IF fl.append THEN Len(files[id].content) ELSE 0]]
            /\ IF fl.trunc THEN SetContent(id, <<>>) ELSE UNCHANGED files
       \/ /\ FileAt(p) = {}
          /\ fl.create
          /\ \E id \in (1 .. MaxId) \ DOMAIN files :
                /\ files' = files @@ (id :> [path |-> p, content |-> <<>>])
                /\ handles' = [handles EXCEPT ![h] = [state |-> "open", id |-> id, pos |-> 0]]

\* Read of n bytes on an open, readable handle: the position moves past
\* the bytes the file has there.
Read(h, n) ==
    /\ handles[h].state = "open"
    /\ Linked(h)
    /\ handles[h].pos >= 0
    /\ LET f == handles[h]
       IN  handles' = [handles EXCEPT ![h].pos = f.pos + Len(BytesAt(files[f.id].content, f.pos, n))]
    /\ UNCHANGED files

\* Write of p on an open handle: the file's bytes from the position are
\* replaced by p; the position moves past them.
Write(h, p) ==
    /\ handles[h].state = "open"
    /\ handles[h].pos >= 0
    /\ LET f == handles[h]
       IN  /\ handles' = [handles EXCEPT ![h].pos = f.pos + Len(p)]
           /\ IF Linked(h) THEN SetContent(f.id, Overwrite(files[f.id].content, f.pos, p))
              ELSE UNCHANGED files

\* Seek: from the start, the position, or the file's end.
Seek(h) ==
    /\ handles[h].state = "open"
    /\ \E off \in Offsets :
          LET f == handles[h]
          IN  \/ handles' = [handles EXCEPT ![h].pos = off]
              \/ handles' = [handles EXCEPT ![h].pos = f.pos + off]
              \/ Linked(h) /\ handles' = [handles EXCEPT ![h].pos = Len(files[f.id].content) + off]
    /\ UNCHANGED files

Close(h) ==
    /\ handles[h].state = "open"
    /\ handles' = [handles EXCEPT ![h].state = "closed"]
    /\ UNCHANGED files

\* Truncate resizes the file.
Truncate(h, size) ==
    /\ handles[h].state # "free"
    /\ IF Linked(h) THEN SetContent(handles[h].id, Resize(files[handles[h].id].content, size))
       ELSE UNCHANGED files
    /\ UNCHANGED handles

\* Rename of a file replaces the file at `to`; renaming a file onto its
\* own path changes nothing.
Rename(from, to) ==
    /\ \E id \in FileAt(from) :
          files' = [r \in {s \in DOMAIN files : s = id \/ files[s].path # to} |->
                      IF r = id THEN [files[r] EXCEPT !.path = to] ELSE files[r]]
    /\ UNCHANGED handles

Remove(p) ==
    /\ FileAt(p) # {}
    /\ files' = [r \in DOMAIN files \ FileAt(p) |-> files[r]]
    /\ UNCHANGED handles

\* The process ends and another starts: no handle is held.
Restart ==
    /\ handles' = [h \in Handles |-> [state |-> "free", id |-> 0, pos |-> 0]]
    /\ UNCHANGED files

Init ==
    /\ files = << >>
    /\ handles = [h \in Handles |-> [state |-> "free", id |-> 0, pos |-> 0]]

Next ==
    \/ \E h \in Handles, p \in Paths, fl \in OpenFlags : Open(h, p, fl)
    \/ \E h \in Handles, n \in ReadSizes : Read(h, n)
    \/ \E h \in Handles, p \in Chunks : Write(h, p)
    \/ \E h \in Handles : Seek(h) \/ Close(h)
    \/ \E h \in Handles, size \in 0 .. MaxLen : Truncate(h, size)
    \/ \E from, to \in Paths : Rename(from, to)
    \/ \E p \in Paths : Remove(p)
    \/ Restart

Spec == Init /\ [][Next]_<<files, handles>>

=============================================================================
