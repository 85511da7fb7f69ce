-------------------------- MODULE MCConnectionPool --------------------------
(***************************************************************************)
(* ConnectionPool for TLC: the threads that send requests are alike.       *)
(***************************************************************************)
EXTENDS ConnectionPool, TLC

Symmetry == Permutations(Threads)
=============================================================================
