--------------------------- MODULE TaskLifecycle ---------------------------
(***************************************************************************)
(* What the task service promises about one task, whatever the rest of the *)
(* system does: the state machine of SPEC.txt F5/F8, and who may hold the  *)
(* task in each state.  The specification says nothing of dependencies,    *)
(* delegations, budgets, policies or of who calls; Tasks.tla has all of    *)
(* these and is shown to implement it.                                     *)
(***************************************************************************)

CONSTANTS TaskIds, Agents, None

VARIABLES state, assignee

vars == <<state, assignee>>

Terminal == {"completed", "failed", "canceled"}

\* The arrows of the state machine.  "absent" is a task nobody has created.
Edges ==
  {<<"absent", "submitted">>} \cup
  ({"submitted"} \X {"in_progress", "canceled"}) \cup
  ({"in_progress"} \X Terminal) \cup
  ({"submitted", "in_progress"} \X {"pending_approval"}) \cup
  ({"pending_approval"} \X {"completed", "in_progress"})

Init ==
  /\ state = [t \in TaskIds |-> "absent"]
  /\ assignee = [t \in TaskIds |-> None]

\* Task t takes one arrow and no other task takes any.
Moves(t) ==
  /\ <<state[t], state'[t]>> \in Edges
  /\ \A u \in TaskIds \ {t} : state'[u] = state[u]

\* Tasks change hands freely until they end; an ended task stays with the
\* agent who held it when it ended.
Handover ==
  \A t \in TaskIds :
    /\ state'[t] \in Terminal \cup {"absent"} => assignee'[t] = assignee[t]
    /\ state'[t] # "absent" => assignee'[t] \in Agents

Next ==
  /\ state' = state \/ \E t \in TaskIds : Moves(t)
  /\ Handover

Spec == Init /\ [][Next]_vars
=============================================================================
