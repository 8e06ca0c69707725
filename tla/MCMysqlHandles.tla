--------------------------- MODULE MCMysqlHandles ---------------------------
(***************************************************************************)
(* Two handles over two top-level files, two bytes, and the flags go-git  *)
(* opens files with: Open, Create, and O_RDWR and O_APPEND without        *)
(* truncation.                                                             *)
(***************************************************************************)
EXTENDS MysqlHandles, TLC

CONSTANTS h1, h2

MCPaths == {"a", "b"}
MCHandles == {h1, h2}
MCBytes == {"x"}
MCChunks == {<<"x">>}
MCOffsets == {-1, 1}

\* Mysqlfs.Open: O_RDONLY.
FlagOpen == [access |-> "r", create |-> FALSE, trunc |-> FALSE, append |-> FALSE]
\* Mysqlfs.Create: O_RDWR|O_CREATE|O_TRUNC.
FlagCreate == [access |-> "rw", create |-> TRUE, trunc |-> TRUE, append |-> FALSE]
\* O_RDWR, as go-git opens the index and config for update.
FlagRdwr == [access |-> "rw", create |-> FALSE, trunc |-> FALSE, append |-> FALSE]
\* O_WRONLY|O_CREATE|O_APPEND, as a log is appended to.
FlagAppend == [access |-> "w", create |-> TRUE, trunc |-> FALSE, append |-> TRUE]

MCOpenFlags == {FlagOpen, FlagCreate, FlagRdwr, FlagAppend}

\* The programs checked make at most MaxCalls calls.
MaxCalls == 7
CallBound == calls <= MaxCalls
HandleSymmetry == Permutations(MCHandles)

=============================================================================
