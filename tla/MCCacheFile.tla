----------------------------- MODULE MCCacheFile -----------------------------
(***************************************************************************)
(* Small instances of CacheFile.  Two processes are enough for one that    *)
(* renames the temporary file and one that still has it open and writes.   *)
(* Inodes never run out: the two names and a descriptor per process pin no *)
(* more than four.                                                         *)
(***************************************************************************)
EXTENDS CacheFile, TLC

Symmetry == Permutations(Proc) \cup Permutations(Inode) \cup Permutations(Object)
=============================================================================
