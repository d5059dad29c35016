------------------------------ MODULE MCTasks ------------------------------
(***************************************************************************)
(* Small instances of Tasks for TLC.                                       *)
(***************************************************************************)
EXTENDS Tasks, TLC

CONSTANTS a1, a2, a3, o1, o2

\* All agents in one organization.
OneOrg == [u \in Agents |-> o1]

\* a1 and a2 in one organization, every other agent in another.
TwoOrgs == [u \in Agents |-> IF u \in {a1, a2} THEN o1 ELSE o2]

OpenPolicy == {[incoming |-> TRUE, outgoing |-> TRUE]}

\* An organization open both ways, or one that only sends.
MixedPolicies == OpenPolicy \cup {[incoming |-> FALSE, outgoing |-> TRUE]}

\* Task identifiers are interchangeable, and so are the agents of one
\* organization when no other constant names one of them.
AllSymmetry  == Permutations(Agents) \cup Permutations(TaskIds)
TaskSymmetry == Permutations(TaskIds)
=============================================================================
