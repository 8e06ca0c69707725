------------------------------- MODULE Diff3 -------------------------------
(***************************************************************************)
(* The three-way file merger of diff3.go: one call of diff3.Merge.  The  *)
(* helpers (getMatches, getNextMismatch, getNextMatch, writeChunk) are    *)
(* operators; setup and each iteration of the loop of writeChunks are     *)
(* steps, so a loop that stops moving its cursors shows as a run that    *)
(* never returns.                                                          *)
(*                                                                         *)
(* mergeHelper.getFileLines splits a blob into lines (bufio.Scanner), and *)
(* writeBlockToFile writes every line back with a '\n': a file here is    *)
(* its sequence of lines, and the merged file is the sequence of lines    *)
(* and conflict markers written to the temporary file.  The markers are   *)
(* delimStart, delimMiddle and delimEnd of worktree_merge.go.             *)
(***************************************************************************)
EXTENDS Naturals, Integers, Sequences, Myers

CONSTANT Files      \* the files Merge may be called on

VARIABLES
    base, ours, theirs,     \* the three files (baseB, oursB, theirsB)
    matchesA, matchesB,     \* getMatches of diffA and diffB
    at,                     \* the cursors lineBase, lineA, lineB
    out,                    \* the lines written to the temporary file
    conflicts,              \* the conflict count of writeChunks
    pc                      \* "setup", "chunks", "done", or "panicked"

vars == <<base, ours, theirs, matchesA, matchesB, at, out, conflicts, pc>>

DelimStart  == "<<<<<<< yours"
DelimMiddle == "======="
DelimEnd    == ">>>>>>> theirs"

\* The lines [from, to) of s, by 0-based fileLine number.
Lines(s, from, to) == SubSeq(s, from + 1, to)

\* getMatches: base line number -> other line number, for the Eql ops.
getMatches(fd) ==
    LET eql == {fd[j] : j \in {j \in DOMAIN fd : fd[j].type = "Eql"}}
    IN  [l \in {op.lineA : op \in eql} |-> (CHOOSE op \in eql : op.lineA = l).lineB]

\* A plausible fault of isMatch: the offset compared one line late.
isMatchOffByOne(matches, lineBase, offset, i) ==
    /\ lineBase + i \in DOMAIN matches
    /\ matches[lineBase + i] = offset + i + 1

\* diffFiles followed by getMatches: what writeChunks uses of a diff.
DiffMatches(x, y) == getMatches(Diff(x, y))

\* isMatch: base line lineBase+i is matched to line offset+i.
isMatch(matches, lineBase, offset, i) ==
    /\ lineBase + i \in DOMAIN matches
    /\ matches[lineBase + i] = offset + i

\* isInBounds: some of the three cursors moved by i is still in its file
\* (<=, so one past the last line counts).
isInBounds(f, i, lineBase, lineA, lineB) ==
    \/ lineBase + i <= Len(f.base)
    \/ lineA + i <= Len(f.a)
    \/ lineB + i <= Len(f.b)

\* getNextMismatch: the number of lines from the cursors on that both
\* sides match, or -1 when the count runs out of all three files.
RECURSIVE MismatchFrom(_, _, _, _, _)
MismatchFrom(f, lineBase, lineA, lineB, i) ==
    IF /\ isInBounds(f, i, lineBase, lineA, lineB)
       /\ isMatch(f.matchesA, lineBase, lineA, i)
       /\ isMatch(f.matchesB, lineBase, lineB, i)
    THEN MismatchFrom(f, lineBase, lineA, lineB, i + 1)
    ELSE IF isInBounds(f, i, lineBase, lineA, lineB) THEN i ELSE -1

getNextMismatch(f, lineBase, lineA, lineB) == MismatchFrom(f, lineBase, lineA, lineB, 0)

NoMatch == [baseIndex |-> -1, aIndex |-> -1, bIndex |-> -1]

\* getNextMatch: the first base line from lineBase on that both diffs
\* keep, with the lines it is kept as.
getNextMatch(f, lineBase) ==
    LET both == {n \in lineBase .. (Len(f.base) - 1) :
                    n \in DOMAIN f.matchesA /\ n \in DOMAIN f.matchesB}
    IN  IF both = {} THEN NoMatch
        ELSE LET n == CHOOSE n \in both : \A o \in both : n <= o
             IN  [baseIndex |-> n, aIndex |-> f.matchesA[n], bIndex |-> f.matchesB[n]]

\* writeConflictToFile: nothing for two empty blocks, else both blocks
\* between the markers, ours first.
writeConflictToFile(oursLines, theirsLines) ==
    IF oursLines = <<>> /\ theirsLines = <<>> THEN <<>>
    ELSE <<DelimStart>> \o oursLines \o <<DelimMiddle>> \o theirsLines \o <<DelimEnd>>

\* A plausible fault of the chunk writer: a side counts as unchanged when
\* its lines merely have the base's length.
writeChunkByLength(f, from, to) ==
    LET lenBase == to.baseIndex - from.baseIndex
        lenA    == to.aIndex - from.aIndex
        lenB    == to.bIndex - from.bIndex
        blockA  == Lines(f.a, from.aIndex, to.aIndex)
        blockB  == Lines(f.b, from.bIndex, to.bIndex)
        isEqlA  == (lenBase < 1 /\ lenA < 1) \/ (lenBase = lenA /\ from.aIndex # to.aIndex)
        isEqlB  == (lenBase < 1 /\ lenB < 1) \/ (lenBase = lenB /\ from.bIndex # to.bIndex)
    IN  CASE isEqlA /\ isEqlB -> [out |-> blockA, conflicts |-> 0]
          [] isEqlA -> [out |-> blockB, conflicts |-> 0]
          [] isEqlB -> [out |-> blockA, conflicts |-> 0]
          [] from.aIndex >= to.aIndex /\ from.bIndex >= to.bIndex -> [out |-> <<>>, conflicts |-> 0]
          [] blockA = blockB -> [out |-> blockA, conflicts |-> 0]
          [] OTHER -> [out |-> writeConflictToFile(blockA, blockB), conflicts |-> 1]

\* A plausible fault of the chunk writer: the isBlockEqual test left out,
\* so two sides that made the same change conflict.
writeChunkNoSameCheck(f, from, to) ==
    LET lenBase   == to.baseIndex - from.baseIndex
        lenA      == to.aIndex - from.aIndex
        lenB      == to.bIndex - from.bIndex
        baseLines == Lines(f.base, from.baseIndex, to.baseIndex)
        blockA    == Lines(f.a, from.aIndex, to.aIndex)
        blockB    == Lines(f.b, from.bIndex, to.bIndex)
        isEqlA    == \/ lenBase < 1 /\ lenA < 1
                     \/ lenBase = lenA /\ from.aIndex # to.aIndex /\ blockA = baseLines
        isEqlB    == \/ lenBase < 1 /\ lenB < 1
                     \/ lenBase = lenB /\ from.bIndex # to.bIndex /\ blockB = baseLines
    IN  CASE isEqlA /\ isEqlB -> [out |-> blockA, conflicts |-> 0]
          [] isEqlA -> [out |-> blockB, conflicts |-> 0]
          [] isEqlB -> [out |-> blockA, conflicts |-> 0]
          [] from.aIndex >= to.aIndex /\ from.bIndex >= to.bIndex -> [out |-> <<>>, conflicts |-> 0]
          [] OTHER -> [out |-> writeConflictToFile(blockA, blockB), conflicts |-> 1]

\* writeChunk of the range [from, to): blockA and blockB are the lines of
\* ours and theirs in the range; a side is unchanged (isEqlA, isEqlB) when
\* it and the base are both empty there, or it is as long as the base
\* range, not empty, and no line differs from the base line at the same
\* offset (notEqlA, notEqlB empty).  An unchanged side yields the other;
\* otherwise equal blocks are written once and different ones as a
\* conflict hunk.
writeChunk(f, from, to) ==
    LET lenBase   == to.baseIndex - from.baseIndex
        lenA      == to.aIndex - from.aIndex
        lenB      == to.bIndex - from.bIndex
        baseLines == Lines(f.base, from.baseIndex, to.baseIndex)
        blockA    == Lines(f.a, from.aIndex, to.aIndex)
        blockB    == Lines(f.b, from.bIndex, to.bIndex)
        isEqlA    == \/ lenBase < 1 /\ lenA < 1
                     \/ lenBase = lenA /\ from.aIndex # to.aIndex /\ blockA = baseLines
        isEqlB    == \/ lenBase < 1 /\ lenB < 1
                     \/ lenBase = lenB /\ from.bIndex # to.bIndex /\ blockB = baseLines
        areBothEmpty == from.aIndex >= to.aIndex /\ from.bIndex >= to.bIndex
    IN  CASE isEqlA /\ isEqlB -> [out |-> blockA, conflicts |-> 0]
          [] isEqlA -> [out |-> blockB, conflicts |-> 0]
          [] isEqlB -> [out |-> blockA, conflicts |-> 0]
          [] areBothEmpty -> [out |-> <<>>, conflicts |-> 0]
          [] blockA = blockB -> [out |-> blockA, conflicts |-> 0]
          [] OTHER -> [out |-> writeConflictToFile(blockA, blockB), conflicts |-> 1]

-----------------------------------------------------------------------------
(* diff3.Merge                                                            *)

\* The files and matches the helpers read (the fields of the diff3 value).
F == [base |-> base, a |-> ours, b |-> theirs, matchesA |-> matchesA, matchesB |-> matchesB]

Start == [baseIndex |-> 0, aIndex |-> 0, bIndex |-> 0]

\* The ends of the three files, where emitFinalChunk writes to.
Ends == [baseIndex |-> Len(base), aIndex |-> Len(ours), bIndex |-> Len(theirs)]

Init ==
    /\ base \in Files /\ ours \in Files /\ theirs \in Files
    /\ matchesA = [l \in {} |-> 0] /\ matchesB = [l \in {} |-> 0]
    /\ at = Start /\ out = <<>> /\ conflicts = 0
    /\ pc = "setup"

\* setup: diffFiles(base, ours) and diffFiles(base, theirs), then
\* writeChunks starts at line 0 of all three files.
Setup ==
    /\ pc = "setup"
    /\ ~DiffPanics(base, ours) /\ ~DiffPanics(base, theirs)
    /\ matchesA' = DiffMatches(base, ours)
    /\ matchesB' = DiffMatches(base, theirs)
    /\ pc' = "chunks"
    /\ UNCHANGED <<base, ours, theirs, at, out, conflicts>>

\* setup when a Myers run reads outside its vector: the runtime panic ends
\* the process.
SetupPanics ==
    /\ pc = "setup"
    /\ DiffPanics(base, ours) \/ DiffPanics(base, theirs)
    /\ pc' = "panicked"
    /\ UNCHANGED <<base, ours, theirs, matchesA, matchesB, at, out, conflicts>>

\* The chunk the loop emits next from the cursors: the i lines both sides
\* match from here (getNextMismatch > 0), or up to the next base line both
\* keep (getNextMatch); NoMatch when the loop is at its final chunk.
NextChunkEnd ==
    LET i == getNextMismatch(F, at.baseIndex, at.aIndex, at.bIndex)
    IN  CASE i = -1 -> NoMatch
          [] i = 0  -> getNextMatch(F, at.baseIndex)
          [] OTHER  -> [baseIndex |-> at.baseIndex + i,
                        aIndex |-> at.aIndex + i, bIndex |-> at.bIndex + i]

\* emitChunk: writeChunk of the range from the cursors to the match, whose
\* indexes are returned as the new cursors.
emitChunk(f, from, match) == [to |-> match, r |-> writeChunk(f, from, match)]

\* emitFinalChunk: writeChunk of the range from the cursors to the ends of
\* the three files.
emitFinalChunk(f, from) == writeChunk(f, from, Ends)

\* One iteration of the loop that goes on: emitChunk to the chunk's end,
\* which becomes the cursors; conflicts += conf.
EmitChunk ==
    /\ pc = "chunks"
    /\ NextChunkEnd # NoMatch
    /\ LET e == emitChunk(F, at, NextChunkEnd)
       IN  /\ out' = out \o e.r.out
           /\ conflicts' = conflicts + e.r.conflicts
           /\ at' = e.to
    /\ UNCHANGED <<base, ours, theirs, matchesA, matchesB, pc>>

\* A plausible fault of writeChunks: the conflicts of the final chunk are
\* not added to the count.
EmitFinalChunkUncounted ==
    /\ pc = "chunks"
    /\ NextChunkEnd = NoMatch
    /\ out' = out \o writeChunk(F, at, Ends).out
    /\ pc' = "done"
    /\ UNCHANGED <<base, ours, theirs, matchesA, matchesB, at, conflicts>>

\* The iteration that returns: emitFinalChunk from the cursors to the ends
\* of the three files, then Merge closes the file and returns the count.
EmitFinalChunk ==
    /\ pc = "chunks"
    /\ NextChunkEnd = NoMatch
    /\ LET r == emitFinalChunk(F, at)
       IN  /\ out' = out \o r.out
           /\ conflicts' = conflicts + r.conflicts
    /\ pc' = "done"
    /\ UNCHANGED <<base, ours, theirs, matchesA, matchesB, at>>

Next == Setup \/ SetupPanics \/ EmitChunk \/ EmitFinalChunk

\* One iteration of the loop of writeChunks.
Loop == EmitChunk \/ EmitFinalChunk

\* Merge is one synchronous call: an iteration of its loop that can be
\* taken is taken.  Only the loop needs fairness for ChunksTerminate.
Spec == Init /\ [][Next]_vars /\ WF_vars(Loop)

-----------------------------------------------------------------------------
(* Properties                                                             *)

\* The loop of writeChunks returns: each iteration moves the cursors on,
\* so Merge never hangs once the differ has returned.
ChunksTerminate == pc = "chunks" ~> pc = "done"

\* Idempotence of merging identical sides (spec section 8): when ours and
\* theirs are the same file, writeChunks writes that file with no conflict,
\* whatever alignment the two Myers runs choose against the base.
IdenticalSidesMerge ==
    pc = "done" /\ ours = theirs => out = ours /\ conflicts = 0

\* Trivial-side rule (spec section 8): a side equal to the base yields the
\* other side, with no conflict; writeChunk must find the unchanged side
\* unchanged (isEqlA, isEqlB) in every chunk, including chunks that the
\* other side shortened or emptied.
TrivialSide ==
    pc = "done" =>
        /\ ours = base => out = theirs /\ conflicts = 0
        /\ theirs = base => out = ours /\ conflicts = 0

\* The conflict count returned to the orchestrator (unResolvedConflicts)
\* is the number of conflict hunks in the file: the orchestrator stages the
\* path as resolved exactly when the count is 0, so a hunk that is not
\* counted leaves markers in a file staged as merged.
ConflictsCounted ==
    pc = "done" => conflicts = Len(SelectSeq(out, LAMBDA l : l = DelimStart))

=============================================================================
