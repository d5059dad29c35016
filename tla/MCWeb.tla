------------------------------- MODULE MCWeb -------------------------------
(* Web for TLC: organizations and threads are interchangeable.             *)
EXTENDS Web, TLC

Symmetry == Permutations(Orgs) \cup Permutations(Threads)
=============================================================================
