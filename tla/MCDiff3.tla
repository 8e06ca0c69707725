------------------------------ MODULE MCDiff3 ------------------------------
(***************************************************************************)
(* Diff3 over every triple of files of at most MaxLen lines over the line *)
(* texts Text.  The Myers runs of setup depend on two files only: they are *)
(* computed once per pair, in the constant tables below, by the same       *)
(* operators, and setup looks them up.                                     *)
(*                                                                         *)
(* The differ itself is checked on the same pairs, against the classical *)
(* reference: the longest common subsequence, and the edit script read as *)
(* instructions.                                                          *)
(***************************************************************************)
EXTENDS Diff3, SequencesExt

CONSTANTS
    Text,       \* the line texts
    MaxLen      \* the longest file

MCFiles == SeqOf(Text, MaxLen)

PanicTable == [p \in MCFiles \X MCFiles |-> GetShortestPath(p[1], p[2]).panic]

MatchTable ==
    [p \in MCFiles \X MCFiles |->
        IF PanicTable[p] THEN [l \in {} |-> 0] ELSE getMatches(Diff(p[1], p[2]))]

MCDiffPanics(x, y) == PanicTable[<<x, y>>]

MCDiffMatches(x, y) == MatchTable[<<x, y>>]
-----------------------------------------------------------------------------
(* The reference definitions of the differ.                               *)

\* Length of a longest common subsequence of s and t.
RECURSIVE LCSLength(_, _)
LCSLength(s, t) ==
    IF s = <<>> \/ t = <<>> THEN 0
    ELSE IF Head(s) = Head(t) THEN 1 + LCSLength(Tail(s), Tail(t))
    ELSE LET l == LCSLength(Tail(s), t)
             r == LCSLength(s, Tail(t))
         IN  IF l >= r THEN l ELSE r

\* The number of inserted and deleted lines of a shortest edit script.
EditDistance(s, t) == Len(s) + Len(t) - 2 * LCSLength(s, t)

\* The ops read as instructions on the file s, t supplying the text of the
\* inserted lines: an op names a line by its fileLine number, and must name
\* the next line of s (Del, Eql) and the next line of the output (Ins, Eql);
\* an Eql op keeps a line whose text is the same on both sides.  The result
\* is the output, or NoScript when an op does not fit.
NoScript == <<"no script">>

RECURSIVE ApplyFrom(_, _, _, _, _)
ApplyFrom(ops, s, t, i, res) ==
    IF ops = <<>> THEN IF i = Len(s) THEN res ELSE NoScript
    ELSE LET op   == Head(ops)
             next == Len(res)
         IN  CASE op.type = "Del" /\ op.lineA = i /\ i < Len(s) ->
                    ApplyFrom(Tail(ops), s, t, i + 1, res)
               [] op.type = "Ins" /\ op.lineB = next /\ next < Len(t) ->
                    ApplyFrom(Tail(ops), s, t, i, Append(res, t[next + 1]))
               [] op.type = "Eql" /\ op.lineA = i /\ op.lineB = next
                    /\ i < Len(s) /\ next < Len(t) /\ s[i + 1] = t[next + 1] ->
                    ApplyFrom(Tail(ops), s, t, i + 1, Append(res, s[i + 1]))
               [] OTHER -> NoScript

ApplyScript(ops, s, t) == ApplyFrom(ops, s, t, 0, <<>>)

-----------------------------------------------------------------------------
(* Properties of the differ                                               *)

\* Whether Diff(a, b), when it does not panic, is correct -- its ops, taken
\* in the order Backtrack sends them reversed (from the starts of the files
\* on), turn a into b -- and minimal -- its Ins and Del ops are as many as
\* the edit distance.  Computed once per pair of files, like the tables
\* setup reads.  The three files never change after Init, so the two
\* invariants below judge them in the state where setup is to diff them.
DiffChecks ==
    [a \in MCFiles |-> [b \in MCFiles |->
        LET d == Diff(a, b)
        IN  IF PanicTable[<<a, b>>] THEN [applies |-> TRUE, minimal |-> TRUE]
            ELSE [applies |-> ApplyScript(Reverse(d), a, b) = b,
                  minimal |-> Len(SelectSeq(d, LAMBDA op : op.type # "Eql"))
                                = EditDistance(a, b)]]]

\* Differ correctness (spec section 8), for the two diffs setup takes
\* (base against ours, base against theirs) of every triple of files: the
\* edit script turns the one file into the other; every line of the first
\* is kept or deleted once and every line of the second kept or inserted
\* once, in order.  A fault in Backtrack's choice of the previous diagonal
\* breaks it.
DiffApplies ==
    pc = "setup" => DiffChecks[base][ours].applies /\ DiffChecks[base][theirs].applies

\* Differ minimality (spec section 8) for the same two diffs: the number
\* of Ins and Del ops is the edit distance, len(a) + len(b) - 2 * LCS.  A
\* snake that stops early, or a greedy choice made the wrong way, yields a
\* longer script.
DiffMinimal ==
    pc = "setup" => DiffChecks[base][ours].minimal /\ DiffChecks[base][theirs].minimal

====
