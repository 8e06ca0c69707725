------------------------------- MODULE Myers -------------------------------
(***************************************************************************)
(* The line differ of unnamed/part_000: myersDifferer.GetShortestPath,    *)
(* Backtrack and Diff, as pure operators over sequences of line texts.    *)
(*                                                                         *)
(* A file is a sequence of texts; its fileLine number is the 0-based      *)
(* position, so line number n of a is a[n+1].  The vector v of the code   *)
(* is a function on 0..2*max, the trace a sequence of its snapshots       *)
(* (trace[d] of the code is trace[d+1] here).  A read of v outside its    *)
(* domain is the Go runtime panic "index out of range": the operators    *)
(* report it in a field panic instead of reading.                         *)
(*                                                                         *)
(* The goroutine of Backtrack hands its steps over an unbuffered channel *)
(* to the loop of Diff, which consumes them in the order they are sent:   *)
(* the channel is the sequence of steps.                                  *)
(***************************************************************************)
EXTENDS Naturals, Integers, Sequences

\* max = n + m and getIndexV: diagonal k lives at v[k + max].
MaxOf(a, b) == Len(a) + Len(b)
getIndexV(a, b, k) == k + MaxOf(a, b)

LOCAL Lesser(x, y) == IF x < y THEN x ELSE y

\* A plausible fault of the snake: it follows one equal line at most.
SnakeOneStep(a, b, x, y) ==
    IF x < Len(a) /\ y < Len(b) /\ a[x + 1] = b[y + 1] THEN x + 1 ELSE x

\* The snake: for x < n && y < m && a[x].text == b[y].text { x++; y++ }.
RECURSIVE Snake(_, _, _, _)
Snake(a, b, x, y) ==
    IF x < Len(a) /\ y < Len(b) /\ a[x + 1] = b[y + 1]
    THEN Snake(a, b, x + 1, y + 1)
    ELSE x

\* The choice of the diagonal to extend, shared by both loops:
\* k == -d || (k != d && v[k-1] < v[k+1]) takes the move down from k+1.
\* Go evaluates || and && from the left, so v is read only when k is
\* strictly inside -d..d.
MoveDown(a, b, v, d, k) ==
    \/ k = -d
    \/ k # d /\ v[getIndexV(a, b, k - 1)] < v[getIndexV(a, b, k + 1)]

\* One pass of the inner loop `for k := -d; k <= d; k = k + 2` from k on:
\* the result is the vector, whether some diagonal reached (n, m), and
\* whether a read fell outside v.
RECURSIVE KLoop(_, _, _, _, _)
KLoop(a, b, d, k, v) ==
    IF k > d THEN [v |-> v, found |-> FALSE, panic |-> FALSE]
    ELSE LET down == MoveDown(a, b, v, d, k)
             src  == getIndexV(a, b, IF down THEN k + 1 ELSE k - 1)
         IN  IF src \notin DOMAIN v
             THEN [v |-> v, found |-> FALSE, panic |-> TRUE]
             ELSE LET x0 == IF down THEN v[src] ELSE v[src] + 1
                      x  == Snake(a, b, x0, x0 - k)
                      v2 == [v EXCEPT ![getIndexV(a, b, k)] = x]
                  IN  IF x >= Len(a) /\ x - k >= Len(b)
                      THEN [v |-> v2, found |-> TRUE, panic |-> FALSE]
                      ELSE KLoop(a, b, d, k + 2, v2)

\* The outer loop `for d := 0; d <= max; d++`: a snapshot of v is appended
\* after every round, and after the round that reaches (n, m) the trace is
\* returned.  Falling out of the loop returns nil.
RECURSIVE DLoop(_, _, _, _, _)
DLoop(a, b, d, v, trace) ==
    IF d > MaxOf(a, b) THEN [trace |-> <<>>, panic |-> FALSE]
    ELSE LET r == KLoop(a, b, d, -d, v)
         IN  CASE r.panic -> [trace |-> trace, panic |-> TRUE]
               [] r.found -> [trace |-> Append(trace, r.v), panic |-> FALSE]
               [] OTHER   -> DLoop(a, b, d + 1, r.v, Append(trace, r.v))

\* GetShortestPath: v := make([]int, 2*max+1), all zero.
GetShortestPath(a, b) ==
    DLoop(a, b, 0, [i \in 0 .. 2 * MaxOf(a, b) |-> 0], <<>>)

\* A plausible fault of Backtrack: the `if d > 0` guard dropped, so the
\* first round also sends a step from before the start.
BacktrackRoundUnguarded(a, b, v, d, x, y, prevX, prevY) ==
    LET n == IF x > prevX /\ y > prevY THEN Lesser(x - prevX, y - prevY) ELSE 0
    IN  Append([j \in 1 .. n |->
                  [x |-> x - j + 1, y |-> y - j + 1, prevX |-> x - j, prevY |-> y - j]],
               [x |-> x - n, y |-> y - n, prevX |-> prevX, prevY |-> prevY])

\* The steps Backtrack sends for trace[d] from the point (x, y): the
\* diagonal steps down to the snake's start, then, when d > 0, the step
\* from the previous round's endpoint (prevX, prevY).
BacktrackRound(a, b, v, d, x, y, prevX, prevY) ==
    LET n == IF x > prevX /\ y > prevY THEN Lesser(x - prevX, y - prevY) ELSE 0
        diag == [j \in 1 .. n |->
                    [x |-> x - j + 1, y |-> y - j + 1, prevX |-> x - j, prevY |-> y - j]]
    IN  IF d > 0
        THEN Append(diag, [x |-> x - n, y |-> y - n, prevX |-> prevX, prevY |-> prevY])
        ELSE diag

\* The loop of the Backtrack goroutine, i counting up and d = trLen-i-1
\* walking the trace from its end.
RECURSIVE BLoop(_, _, _, _, _, _)
BLoop(a, b, trace, i, x, y) ==
    IF i >= Len(trace) THEN <<>>
    ELSE LET d     == Len(trace) - i - 1
             v     == trace[d + 1]
             k     == x - y
             prevK == IF MoveDown(a, b, v, d, k) THEN k + 1 ELSE k - 1
             prevX == v[getIndexV(a, b, prevK)]
             prevY == prevX - prevK
         IN  BacktrackRound(a, b, v, d, x, y, prevX, prevY)
               \o BLoop(a, b, trace, i + 1, prevX, prevY)

\* Backtrack starts at (lenA, lenB).
Backtrack(a, b, trace) == BLoop(a, b, trace, 0, Len(a), Len(b))

\* No line: the nil *fileLine of an op that has no line on that side.
NoLine == -1

\* Diff maps each step to an op: x == prevX inserts b's line prevY,
\* y == prevY deletes a's line prevX, any other step keeps both.  Lines
\* are recorded by their fileLine number.
StepToOp(s) ==
    CASE s.x = s.prevX -> [type |-> "Ins", lineA |-> NoLine, lineB |-> s.prevY]
      [] s.y = s.prevY -> [type |-> "Del", lineA |-> s.prevX, lineB |-> NoLine]
      [] OTHER         -> [type |-> "Eql", lineA |-> s.prevX, lineB |-> s.prevY]

\* Whether Diff(a, b) panics: GetShortestPath reads outside v.
DiffPanics(a, b) == GetShortestPath(a, b).panic

\* Diff: the ops in the order the channel delivers them, from the ends of
\* the two files back to their starts.
Diff(a, b) ==
    LET steps == Backtrack(a, b, GetShortestPath(a, b).trace)
    IN  [j \in 1 .. Len(steps) |-> StepToOp(steps[j])]

=============================================================================
