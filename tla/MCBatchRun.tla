----------------------------- MODULE MCBatchRun -----------------------------
(* Small instances of BatchRun for TLC.                                    *)
EXTENDS BatchRun, TLC

CONSTANTS f1, f2, p1, p2, p3

Symmetry == Permutations(File) \cup Permutations(Pod)
=============================================================================
