---------------------------- MODULE MCFileStore ----------------------------
(* Model values of FileStore for TLC. *)
EXTENDS FileStore, TLC

CONSTANTS f1, f2, s1

MCFiles == {f1, f2}
MCSnaps == {s1}
MCNames == {"report", "memory", "image", "input"}
Keys    == Permutations(MCFiles)
=============================================================================
