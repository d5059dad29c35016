------------------------------ MODULE MCAccess ------------------------------
(* Access for TLC: an organization with its human and one agent; a name for *)
(* an observer, and another organization to be.                             *)
EXTENDS Access, TLC

MCHumanOf == [o \in Orgs |-> IF o = "acme" THEN "acme_humain" ELSE "beta_humain"]

\* Requests of the agent with two passwords, and the commands that change what
\* they are worth.
MCRequests == {
  <<"alice", "p1", "write", "", "">>, <<"alice", "p2", "write", "", "">>,
  <<"acme", "p1", "password", "alice", "p2">>,
  <<"acme", "token", "orgpassword", "", "p2">>,
  <<"acme", "token", "deactivate", "alice", "">>,
  <<"acme", "token", "reactivate", "alice", "">>,
  <<"acme", "token", "agent", "bob", "p1">>,
  <<"acme", "token", "observer", "bob", "p1">>,
  <<"acme", "token", "revoke", "bob", "">>,
  <<"acme", "token", "observer", "beta_humain", "p1">>,
  <<"bob", "p1", "read", "", "">>,
  <<"acme_humain", "p1", "disable", "acme", "">>,
  <<"_web_local", "token", "org", "beta", "p1">>,
  <<"acme_humain", "p1", "org", "beta", "p2">> }

MCRevocations == {
  <<"acme", "p1", "revoke", "acme_humain", "">>,
  <<"acme_humain", "p1", "read", "", "">>,
  <<"acme", "p1", "deactivate", "acme_humain", "">> }

Symmetry == Permutations(Threads)
=============================================================================
