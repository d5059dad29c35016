------------------------------- MODULE Tasks -------------------------------
(***************************************************************************)
(* The task component: the tables tasks, task_dependencies, delegations,   *)
(* agent_budgets, org_escalation_policy and the columns of accounts and    *)
(* organizations its handlers read, with one action per command.           *)
(*                                                                         *)
(* Every handler runs inside db.begin_immediate, which takes SQLite's      *)
(* write lock before the first read: handlers are serialised and each one  *)
(* is one action.  The caller was authenticated in an earlier transaction, *)
(* so a handler may still run for an account disabled in between: callers  *)
(* are not asked to be active.                                             *)
(*                                                                         *)
(* Time is left out: any set of unfinished tasks may be overdue, and a     *)
(* delegation may expire at any moment.  Titles, results, notes, audit and *)
(* event rows are left out (CausalLog.tla has the journal).                *)
(***************************************************************************)
EXTENDS Integers, FiniteSets

CONSTANTS
  Agents, Orgs, OrgOf,   \* the accounts, each a member of one organization
  TaskIds,               \* the identifiers create_task may draw
  ClientKeys,            \* the values of client_task_id
  Limits,                \* the values of max_active_tasks
  Policies,              \* the pairs of communication policies an org may set
  Managed,               \* bound: the accounts that org commands name
  MaxDependencyDepth,    \* MAX_DEPENDENCY_DEPTH
  MaxDelegations,        \* bound: delegations alive at a time
  None                   \* SQL NULL, or no row

ASSUME TasksAssumption ==
  /\ OrgOf \in [Agents -> Orgs]
  /\ None \notin Agents \cup ClientKeys \cup Limits
  /\ Limits \subseteq Nat
  /\ Policies \subseteq [incoming : BOOLEAN, outgoing : BOOLEAN]
  /\ Managed \subseteq Agents
  /\ MaxDependencyDepth \in Nat
  /\ MaxDelegations \in Nat
  /\ IsFiniteSet(TaskIds)

VARIABLES
  creator, assignee, state, approver, clientKey,  \* tasks, a column each
  dependsOn,    \* task_dependencies: the tasks each task waits for
  delegations,  \* the delegations that have not expired
  status,       \* accounts.status
  budget,       \* agent_budgets.max_active_tasks
  escalateTo,   \* the target of an org's enabled escalation policy, or None
  policy        \* organizations.allow_{incoming,outgoing}_external

taskVars == <<creator, assignee, state, approver, clientKey, dependsOn>>
orgVars  == <<status, budget, escalateTo, policy>>
vars     == <<taskVars, delegations, orgVars>>

-----------------------------------------------------------------------------
(* The states of a task and what the handlers ask of the tables.           *)

TerminalStates == {"completed", "failed", "canceled"}
ActiveStates   == {"submitted", "in_progress", "pending_approval"}
TaskStates     == TerminalStates \cup ActiveStates \cup {"absent"}

\* The transitions update_task_state accepts.
Transitions ==
  ({"submitted"} \X {"in_progress", "canceled"}) \cup
  ({"in_progress"} \X TerminalStates)

Tasks == {t \in TaskIds : state[t] # "absent"}

\* me sees the task as its creator or its assignee.
Sees(me, t) == t \in Tasks /\ me \in {creator[t], assignee[t]}

\* me holds a delegation on the task that has not expired.
Delegated(me, t) ==
  t \in Tasks /\ \E d \in delegations : d.to = me /\ d.task = t

CommAllowed(me, other) ==
  \/ OrgOf[me] = OrgOf[other]
  \/ policy[OrgOf[me]].outgoing /\ policy[OrgOf[other]].incoming

\* Mutant: a dependency that failed or was canceled counts as met.
DependenciesMetOnceEnded(t) == \A d \in dependsOn[t] : state[d] \in TerminalStates

DependenciesMet(t) == \A d \in dependsOn[t] : state[d] = "completed"

\* Agent u's active tasks when the columns state and assignee are st and as.
Load(u, st, as) ==
  Cardinality({t \in TaskIds : as[t] = u /\ st[t] \in ActiveStates})

\* u's budget leaves room for n more tasks.
HasRoom(u, n, st, as) ==
  budget[u] # None => Load(u, st, as) + n <= budget[u]

\* The search of _dependency_depth: level n + 1 holds the dependencies of
\* level n that no earlier level holds; the depth is the number of levels
\* searched, cut one past the limit.
DependencyDepth(S) ==
  LET level[n \in 0 .. MaxDependencyDepth] ==
        IF n = 0 THEN S
        ELSE (UNION {dependsOn[t] : t \in level[n - 1]})
               \ UNION {level[k] : k \in 0 .. n - 1}
  IN  Cardinality({n \in 0 .. MaxDependencyDepth : level[n] # {}})

\* Mutant: the rows read as they were before the command's own update.
UnfinishedBefore(o, st, as) ==
  {t \in TaskIds : /\ state[t] \in {"submitted", "in_progress"}
                   /\ OrgOf[as[t]] = o
                   /\ as[t] # escalateTo[o]}

\* due_tasks_to_escalate: any unfinished task that an agent of org o holds,
\* other than the escalation target, may be overdue.
Unfinished(o, st, as) ==
  {t \in TaskIds : /\ st[t] \in {"submitted", "in_progress"}
                   /\ OrgOf[as[t]] = o
                   /\ as[t] # escalateTo[o]}

\* Mutants: the budget asked once, before the loop; the target's status not read.
EscalationSetsOneCheck(o, st, as) ==
  LET v == escalateTo[o]
  IN  {E \in SUBSET Unfinished(o, st, as) :
         E = {} \/ (v # None /\ status[v] = "active" /\ HasRoom(v, 1, st, as))}

EscalationSetsAnyStatus(o, st, as) ==
  LET v == escalateTo[o]
  IN  {E \in SUBSET Unfinished(o, st, as) :
         E = {} \/ (v # None /\ HasRoom(v, Cardinality(E), st, as))}

\* The sets of tasks _check_escalations may move to org o's target: none if
\* the policy is off or the target disabled, and otherwise no more than the
\* target's budget, asked again before each move, leaves room for.
EscalationSets(o, st, as) ==
  LET v == escalateTo[o]
  IN  {E \in SUBSET Unfinished(o, st, as) :
         \/ E = {}
         \/ /\ v # None
            /\ status[v] = "active"
            /\ HasRoom(v, Cardinality(E), st, as)}

\* The column assignee, as, once the tasks of E are in v's hands.
Moved(E, v, as) == [t \in TaskIds |-> IF t \in E THEN v ELSE as[t]]

\* Mutant of Escalate: the policy row and the budget not looked at.
EscalateUnchecked(o, st, as) ==
  /\ state' = st
  /\ assignee' = Moved(Unfinished(o, st, as), escalateTo[o], as)

\* The end of a handler that leaves the columns state and assignee st and as,
\* after the escalations of org o.
Escalate(o, st, as) ==
  \E E \in EscalationSets(o, st, as) :
    /\ state' = st
    /\ assignee' = Moved(E, escalateTo[o], as)

-----------------------------------------------------------------------------
(* The commands of an agent.                                               *)

\* A key me has used already finds the task it created: the handler returns
\* it, or refuses, and writes nothing.
CreateTask(me, t, a, deps, key) ==
  /\ state[t] = "absent"
  /\ key # None => ~ \E u \in Tasks : creator[u] = me /\ clientKey[u] = key
  /\ status[a] = "active"
  /\ CommAllowed(me, a)
  /\ HasRoom(a, 1, state, assignee)
  /\ deps \subseteq Tasks
  /\ DependencyDepth(deps) <= MaxDependencyDepth
  /\ creator'   = [creator EXCEPT ![t] = me]
  /\ clientKey' = [clientKey EXCEPT ![t] = key]
  /\ dependsOn' = [dependsOn EXCEPT ![t] = deps]
  /\ Escalate(OrgOf[a], [state EXCEPT ![t] = "submitted"],
                        [assignee EXCEPT ![t] = a])
  /\ UNCHANGED <<approver, delegations, orgVars>>

UpdateTaskState(me, t, new) ==
  /\ Sees(me, t) \/ Delegated(me, t)
  /\ <<state[t], new>> \in Transitions
  /\ new = "in_progress" => DependenciesMet(t)
  /\ Escalate(OrgOf[me], [state EXCEPT ![t] = new], assignee)
  /\ UNCHANGED <<creator, approver, clientKey, dependsOn, delegations, orgVars>>

\* Mutant: the communication policies not asked on a transfer.
TransferTaskAnywhere(me, t, a) ==
  /\ Sees(me, t)
  /\ status[a] = "active"
  /\ HasRoom(a, 1, state, assignee)
  /\ state[t] \notin TerminalStates
  /\ Escalate(OrgOf[a], state, [assignee EXCEPT ![t] = a])
  /\ UNCHANGED <<creator, approver, clientKey, dependsOn, delegations, orgVars>>

TransferTask(me, t, a) ==
  /\ Sees(me, t)
  /\ status[a] = "active"
  /\ CommAllowed(me, a)
  /\ HasRoom(a, 1, state, assignee)
  /\ state[t] \notin TerminalStates
  /\ Escalate(OrgOf[a], state, [assignee EXCEPT ![t] = a])
  /\ UNCHANGED <<creator, approver, clientKey, dependsOn, delegations, orgVars>>

RequestApproval(me, t, v) ==
  /\ Sees(me, t)
  /\ state[t] \notin TerminalStates \cup {"pending_approval"}
  /\ status[v] = "active"
  /\ v # me
  /\ approver' = [approver EXCEPT ![t] = v]
  /\ state'    = [state EXCEPT ![t] = "pending_approval"]
  /\ UNCHANGED <<creator, assignee, clientKey, dependsOn, delegations, orgVars>>

ApproveTask(me, t) ==
  /\ approver[t] = me
  /\ state[t] = "pending_approval"
  /\ state' = [state EXCEPT ![t] = "completed"]
  /\ UNCHANGED <<creator, assignee, approver, clientKey, dependsOn,
                 delegations, orgVars>>

RejectTask(me, t) ==
  /\ approver[t] = me
  /\ state[t] = "pending_approval"
  /\ state' = [state EXCEPT ![t] = "in_progress"]
  /\ UNCHANGED <<creator, assignee, approver, clientKey, dependsOn,
                 delegations, orgVars>>

CreateDelegation(me, t, a) ==
  /\ Sees(me, t)
  /\ status[a] = "active"
  /\ CommAllowed(me, a)
  /\ delegations' = delegations \cup {[from |-> me, to |-> a, task |-> t]}
  /\ Cardinality(delegations') <= MaxDelegations
  /\ UNCHANGED <<taskVars, orgVars>>

RevokeDelegation(me, t, a) ==
  /\ Sees(me, t)
  /\ delegations' = delegations \ {[from |-> me, to |-> a, task |-> t]}
  /\ UNCHANGED <<taskVars, orgVars>>

\* Time passes a delegation's expires_at.
DelegationExpires(d) ==
  /\ delegations' = delegations \ {d}
  /\ UNCHANGED <<taskVars, orgVars>>

-----------------------------------------------------------------------------
(* The commands of an organization about its own members.                  *)

\* A limit left out keeps the stored one (COALESCE); b = None is the call
\* that leaves both limits out and deletes the row.
SetAgentBudget(u, b) ==
  /\ budget' = [budget EXCEPT ![u] = b]
  /\ UNCHANGED <<taskVars, delegations, status, escalateTo, policy>>

\* v = None is the call that disables the policy.
SetEscalationPolicy(o, v) ==
  /\ v # None => OrgOf[v] = o
  /\ escalateTo' = [escalateTo EXCEPT ![o] = v]
  /\ UNCHANGED <<taskVars, delegations, status, budget, policy>>

SetPolicy(o, p) ==
  /\ policy' = [policy EXCEPT ![o] = p]
  /\ UNCHANGED <<taskVars, delegations, status, budget, escalateTo>>

SetStatus(u, s) ==
  /\ status' = [status EXCEPT ![u] = s]
  /\ UNCHANGED <<taskVars, delegations, budget, escalateTo, policy>>

DeactivateAgent(u) == SetStatus(u, "disabled")
ReactivateAgent(u) == SetStatus(u, "active")

-----------------------------------------------------------------------------
Init ==
  /\ creator   = [t \in TaskIds |-> None]
  /\ assignee  = [t \in TaskIds |-> None]
  /\ state     = [t \in TaskIds |-> "absent"]
  /\ approver  = [t \in TaskIds |-> None]
  /\ clientKey = [t \in TaskIds |-> None]
  /\ dependsOn = [t \in TaskIds |-> {}]
  /\ delegations = {}
  /\ status     = [u \in Agents |-> "active"]
  /\ budget     = [u \in Agents |-> None]
  /\ escalateTo = [o \in Orgs |-> None]
  /\ policy \in [Orgs -> Policies]

AgentNext ==
  \E me \in Agents, t \in TaskIds :
    \/ \E a \in Agents, deps \in SUBSET TaskIds, key \in ClientKeys \cup {None} :
         CreateTask(me, t, a, deps, key)
    \/ \E new \in TaskStates : UpdateTaskState(me, t, new)
    \/ \E a \in Agents : TransferTask(me, t, a)
    \/ \E v \in Agents : RequestApproval(me, t, v)
    \/ ApproveTask(me, t)
    \/ RejectTask(me, t)
    \/ \E a \in Agents : CreateDelegation(me, t, a)
    \/ \E a \in Agents : RevokeDelegation(me, t, a)

OrgNext ==
  \/ \E u \in Managed, b \in Limits \cup {None} : SetAgentBudget(u, b)
  \/ \E o \in Orgs, v \in Managed \cup {None} : SetEscalationPolicy(o, v)
  \/ \E o \in Orgs, p \in Policies : SetPolicy(o, p)
  \/ \E u \in Managed : DeactivateAgent(u)
  \/ \E u \in Managed : ReactivateAgent(u)

Next ==
  \/ AgentNext
  \/ OrgNext
  \/ \E d \in delegations : DelegationExpires(d)

Spec == Init /\ [][Next]_vars

-----------------------------------------------------------------------------
(* Properties.                                                             *)

\* Every column holds values of its domain, and a task that exists has a
\* creator and an assignee.
TypeOK ==
  /\ creator   \in [TaskIds -> Agents \cup {None}]
  /\ assignee  \in [TaskIds -> Agents \cup {None}]
  /\ state     \in [TaskIds -> TaskStates]
  /\ approver  \in [TaskIds -> Agents \cup {None}]
  /\ clientKey \in [TaskIds -> ClientKeys \cup {None}]
  /\ dependsOn \in [TaskIds -> SUBSET TaskIds]
  /\ delegations \subseteq [from : Agents, to : Agents, task : TaskIds]
  /\ status     \in [Agents -> {"active", "disabled"}]
  /\ budget     \in [Agents -> Limits \cup {None}]
  /\ escalateTo \in [Orgs -> Agents \cup {None}]
  /\ policy     \in [Orgs -> Policies]
  /\ \A t \in Tasks : creator[t] # None /\ assignee[t] # None

\* Work starts past an unmet dependency only through the approval path: a
\* task in progress, completed or failed whose dependencies are not all
\* completed has been sent to an approver (dependencies_met guards
\* update_task_state, completed is final, and no dependency is ever added).
GateByApproval ==
  \A t \in TaskIds :
    /\ state[t] \in {"in_progress", "completed", "failed"}
    /\ \E d \in dependsOn[t] : state[d] # "completed"
    => approver[t] # None

\* The task service implements the lifecycle it documents, escalations in
\* the transaction of another command included.
Lifecycle == INSTANCE TaskLifecycle
ImplementsLifecycle == Lifecycle!Spec

\* No step leaves an agent with more active tasks than before and more than
\* its budget, the escalation loop of another command's transaction included.
BudgetRespected ==
  [][\A u \in Agents :
       Load(u, state, assignee)' > Load(u, state, assignee) /\ budget[u] # None
         => Load(u, state, assignee)' <= budget[u]]_vars

\* A task reaches a new holder only along the communication policies of one
\* of the two agents who could hand it over: its creator or its last holder.
CrossOrgByPolicy ==
  [][\A t \in TaskIds :
       assignee'[t] # assignee[t] =>
         \E u \in {creator'[t], assignee[t]} \ {None} :
           CommAllowed(u, assignee'[t])]_vars

\* Whoever newly holds a task has an active account at that moment.
WorkReachesActiveAccount ==
  [][\A t \in TaskIds :
       assignee'[t] # assignee[t] => status[assignee'[t]] = "active"]_vars

-----------------------------------------------------------------------------
(* What the documentation says and the code does not ensure.               *)

\* SPEC.txt F5: a task in progress has all its dependencies completed.
DependencyGate ==
  \A t \in TaskIds : state[t] = "in_progress" =>
    \A d \in dependsOn[t] : state[d] = "completed"

\* SPEC.txt F9: no chain of dependencies is longer than MAX_DEPENDENCY_DEPTH.
\* A path takes one task of each of its steps from the next one's
\* dependencies; one of MaxDependencyDepth + 1 edges must not exist.
DepthBounded ==
  LET reached[n \in 0 .. MaxDependencyDepth + 1] ==
        IF n = 0 THEN Tasks ELSE UNION {dependsOn[t] : t \in reached[n - 1]}
  IN  reached[MaxDependencyDepth + 1] = {}

\* SPEC.txt F17: a delegator can revoke a delegation as long as it lives.
RevocableDelegations == \A d \in delegations : Sees(d.from, d.task)
=============================================================================
