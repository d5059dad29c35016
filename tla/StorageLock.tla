---------------------------- MODULE StorageLock ----------------------------
(***************************************************************************)
(* What the service lock promises: one process at a time, server or        *)
(* restore, has the storage.  Nothing is said of files, PIDs, crashes or   *)
(* of who is turned away; ServiceLock has the system calls of one lock     *)
(* file and Operations the commands of an operator, and both implement it. *)
(***************************************************************************)

CONSTANT Users  \* the processes that may have the storage

VARIABLE holders  \* those that have it

Init == holders = {}

Acquire(u) == holders = {} /\ holders' = {u}

\* Its holder stops, ends or dies.
Release(u) == u \in holders /\ holders' = holders \ {u}

Next == \E u \in Users : Acquire(u) \/ Release(u)

Spec == Init /\ [][Next]_holders
=============================================================================
