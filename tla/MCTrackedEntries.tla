-------------------------- MODULE MCTrackedEntries --------------------------
(* Small instances of TrackedEntries.                                      *)
EXTENDS TrackedEntries, TLC

(* The threads are interchangeable.                                        *)
ThreadSymmetry == Permutations(Threads)
=============================================================================
