----------------------------- MODULE MCFileLock -----------------------------
(* The file lock with a few attempts and enough files for each to have one  *)
(* open while the path names another.                                       *)
EXTENDS FileLock
=============================================================================
