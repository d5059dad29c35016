---------------------------- MODULE MCCausalLog ----------------------------
(***************************************************************************)
(* Small instances of CausalLog for TLC.                                   *)
(***************************************************************************)
EXTENDS CausalLog

\* A remote stamp level with the local clocks, and one ahead of them whose
\* counter is the largest that fits.
MCRemotes == {[l |-> 1, c |-> 0], [l |-> 2, c |-> MaxC]}
=============================================================================
