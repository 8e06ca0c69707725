--------------------------- MODULE MCMysqlStorage ---------------------------
(***************************************************************************)
(* The file table over paths of at most two names from two names, with    *)
(* enough AUTO_INCREMENT ids for a few files and their directories.        *)
(***************************************************************************)
EXTENDS MysqlStorage

MCNames == {"a", "b"}

=============================================================================
