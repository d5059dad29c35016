---------------------------- MODULE TasksProofs ----------------------------
(***************************************************************************)
(* Proofs about Tasks for every set of agents, organizations and tasks.    *)
(*                                                                         *)
(* The type invariant is inductive by itself.  GateByApproval is inductive *)
(* relative to it: a dependency that is completed stays completed, the     *)
(* dependencies of a task are fixed when it is created, and the approver   *)
(* of a task is never erased.                                              *)
(*                                                                         *)
(* The hand-overs need that an escalation target is a member of its        *)
(* organization, and the budgets need the cardinality of what one command, *)
(* with all the escalations it drags along, adds to an agent's tasks.      *)
(***************************************************************************)
EXTENDS Tasks, FiniteSetTheorems, TLAPS

USE TasksAssumption

\* Escalations move only unfinished tasks of the org, and only to a target.
LEMMA EscalationSetsMember ==
  \A o, st, as : \A E \in EscalationSets(o, st, as) :
    /\ E \subseteq Unfinished(o, st, as)
    /\ E # {} => escalateTo[o] # None
  BY DEF EscalationSets

\* The columns state and assignee as TypeOK wants them.
Held(st, as) ==
  /\ st \in [TaskIds -> TaskStates]
  /\ as \in [TaskIds -> Agents \cup {None}]
  /\ \A t \in TaskIds : st[t] # "absent" => as[t] # None

\* Escalations keep the assignee column well typed.
LEMMA EscalationHeld ==
  ASSUME TypeOK
  PROVE  \A o \in Orgs : \A st, as : Held(st, as) =>
           \A E \in EscalationSets(o, st, as) : Held(st, Moved(E, escalateTo[o], as))
  <1>1. \A o \in Orgs : escalateTo[o] \in Agents \cup {None}
    BY DEF TypeOK
  <1> QED
    BY <1>1, EscalationSetsMember DEF Held, Moved

\* A handler that ends with escalations leaves the two columns well typed.
LEMMA EscalateHeld ==
  TypeOK => \A o \in Orgs : \A st, as :
              Held(st, as) /\ Escalate(o, st, as) => state' = st /\ Held(st, assignee')
  <1> SUFFICES ASSUME TypeOK, NEW o \in Orgs, NEW st, NEW as,
                      Held(st, as), Escalate(o, st, as)
               PROVE  state' = st /\ Held(st, assignee')
    OBVIOUS
  <1>1. PICK E \in EscalationSets(o, st, as) :
          state' = st /\ assignee' = Moved(E, escalateTo[o], as)
    BY DEF Escalate
  <1>2. Held(st, Moved(E, escalateTo[o], as))
    BY EscalationHeld
  <1> QED
    BY <1>1, <1>2

\* Every reachable state is well typed, and a task that exists has a creator
\* and an assignee whatever the handlers interleaved so far.
THEOREM TypeCorrect == Spec => []TypeOK
  <1>1. Init => TypeOK
    BY DEF Init, TypeOK, TaskStates, Tasks
  <1>2. TypeOK /\ [Next]_vars => TypeOK'
    <2> SUFFICES ASSUME TypeOK, [Next]_vars PROVE TypeOK'
      OBVIOUS
    <2>1. ASSUME NEW me \in Agents, NEW t \in TaskIds, NEW a \in Agents,
                 NEW deps \in SUBSET TaskIds, NEW key \in ClientKeys \cup {None},
                 CreateTask(me, t, a, deps, key)
          PROVE  TypeOK'
      <3> DEFINE st == [state EXCEPT ![t] = "submitted"]
                 as == [assignee EXCEPT ![t] = a]
      <3>1. Escalate(OrgOf[a], st, as) /\ OrgOf[a] \in Orgs
        BY <2>1 DEF CreateTask
      <3>2. Held(st, as)
        BY DEF Held, TypeOK, Tasks, TaskStates, ActiveStates
      <3>3. state' = st /\ Held(st, assignee')
        <4> HIDE DEF st, as
        <4> QED BY <3>1, <3>2, EscalateHeld
      <3>4. \A u \in TaskIds : state'[u] # "absent" => creator'[u] # None
        BY <2>1, <3>3 DEF CreateTask, TypeOK, Tasks
      <3> QED
        BY <2>1, <3>3, <3>4 DEF CreateTask, Held, TypeOK, Tasks, orgVars
    <2>2. ASSUME NEW me \in Agents, NEW t \in TaskIds, NEW new \in TaskStates,
                 UpdateTaskState(me, t, new)
          PROVE  TypeOK'
      <3> DEFINE st == [state EXCEPT ![t] = new]
      <3>1. Escalate(OrgOf[me], st, assignee) /\ OrgOf[me] \in Orgs
        BY <2>2 DEF UpdateTaskState
      <3>2. state[t] # "absent"
        BY <2>2 DEF UpdateTaskState, Transitions
      <3>3. Held(st, assignee)
        BY <3>2 DEF Held, TypeOK, Tasks
      <3>4. state' = st /\ Held(st, assignee')
        <4> HIDE DEF st
        <4> QED BY <3>1, <3>3, EscalateHeld
      <3> QED
        BY <2>2, <3>2, <3>4 DEF UpdateTaskState, Held, TypeOK, Tasks, orgVars
    <2>3. ASSUME NEW me \in Agents, NEW t \in TaskIds, NEW a \in Agents,
                 TransferTask(me, t, a)
          PROVE  TypeOK'
      <3> DEFINE as == [assignee EXCEPT ![t] = a]
      <3>1. Escalate(OrgOf[a], state, as) /\ OrgOf[a] \in Orgs
        BY <2>3 DEF TransferTask
      <3>2. Held(state, as)
        BY <2>3 DEF Held, TypeOK, Tasks
      <3>3. state' = state /\ Held(state, assignee')
        <4> HIDE DEF as
        <4> QED BY <3>1, <3>2, EscalateHeld
      <3> QED
        BY <2>3, <3>3 DEF TransferTask, Held, TypeOK, Tasks, orgVars
    <2>4. ASSUME NEW me \in Agents, NEW t \in TaskIds, NEW v \in Agents,
                 RequestApproval(me, t, v)
          PROVE  TypeOK'
      BY <2>4 DEF RequestApproval, Sees, TypeOK, Tasks, TaskStates, ActiveStates, orgVars
    <2>5. ASSUME NEW me \in Agents, NEW t \in TaskIds, ApproveTask(me, t)
          PROVE  TypeOK'
      BY <2>5 DEF ApproveTask, TypeOK, Tasks, TaskStates, TerminalStates, orgVars
    <2>6. ASSUME NEW me \in Agents, NEW t \in TaskIds, RejectTask(me, t)
          PROVE  TypeOK'
      BY <2>6 DEF RejectTask, TypeOK, Tasks, TaskStates, ActiveStates, orgVars
    <2>7. ASSUME NEW me \in Agents, NEW t \in TaskIds, NEW a \in Agents,
                 CreateDelegation(me, t, a) \/ RevokeDelegation(me, t, a)
          PROVE  TypeOK'
      BY <2>7 DEF CreateDelegation, RevokeDelegation, TypeOK, Tasks, taskVars, orgVars
    <2>8. ASSUME NEW d \in delegations, DelegationExpires(d)
          PROVE  TypeOK'
      BY <2>8 DEF DelegationExpires, TypeOK, Tasks, taskVars, orgVars
    <2>9. CASE OrgNext
      <3>1. UNCHANGED <<taskVars, delegations>>
        BY <2>9 DEF OrgNext, SetAgentBudget, SetEscalationPolicy, SetPolicy,
           DeactivateAgent, ReactivateAgent, SetStatus
      <3>2. status' \in [Agents -> {"active", "disabled"}]
        BY <2>9 DEF OrgNext, SetAgentBudget, SetEscalationPolicy, SetPolicy,
           DeactivateAgent, ReactivateAgent, SetStatus, TypeOK
      <3>3. budget' \in [Agents -> Limits \cup {None}]
        BY <2>9 DEF OrgNext, SetAgentBudget, SetEscalationPolicy, SetPolicy,
           DeactivateAgent, ReactivateAgent, SetStatus, TypeOK
      <3>4. escalateTo' \in [Orgs -> Agents \cup {None}]
        BY <2>9 DEF OrgNext, SetAgentBudget, SetEscalationPolicy, SetPolicy,
           DeactivateAgent, ReactivateAgent, SetStatus, TypeOK
      <3>5. policy' \in [Orgs -> Policies]
        BY <2>9 DEF OrgNext, SetAgentBudget, SetEscalationPolicy, SetPolicy,
           DeactivateAgent, ReactivateAgent, SetStatus, TypeOK
      <3> QED
        BY <3>1, <3>2, <3>3, <3>4, <3>5 DEF TypeOK, Tasks, taskVars
    <2>10. CASE UNCHANGED vars
      BY <2>10 DEF vars, TypeOK, Tasks, taskVars, orgVars
    <2> QED
      BY <2>1, <2>2, <2>3, <2>4, <2>5, <2>6, <2>7, <2>8, <2>9, <2>10
      DEF Next, AgentNext
  <1> QED
    BY <1>1, <1>2, PTL DEF Spec

-----------------------------------------------------------------------------
(* The approval gate.                                                      *)

\* The states in which work on a task has begun without being canceled.
Begun == {"in_progress", "completed", "failed"}

\* What one step may do to the columns the gate reads: nothing completed is
\* reopened, a task that exists keeps its dependencies, an approver is never
\* erased, and work begins with the dependencies met or an approver named.
GateStep ==
  \A t \in TaskIds :
    /\ state[t] = "completed" => state'[t] = "completed"
    /\ state[t] # "absent" => dependsOn'[t] = dependsOn[t]
    /\ approver[t] # None => approver'[t] # None
    /\ state'[t] \in Begun => state[t] # "absent"
    /\ state'[t] \in Begun /\ state[t] \notin Begun =>
         DependenciesMet(t) \/ approver[t] # None

\* A handler that ends with escalations leaves the states its command wrote,
\* and the assignee its command wrote of every task that is not unfinished.
LEMMA EscalateKeeps ==
  \A o, st, as : Escalate(o, st, as) =>
    /\ state' = st
    /\ \A t \in TaskIds :
         st[t] \notin {"submitted", "in_progress"} => assignee'[t] = as[t]
  <1> SUFFICES ASSUME NEW o, NEW st, NEW as, Escalate(o, st, as)
               PROVE  /\ state' = st
                      /\ \A t \in TaskIds :
                           st[t] \notin {"submitted", "in_progress"} =>
                             assignee'[t] = as[t]
    OBVIOUS
  <1>1. PICK E \in EscalationSets(o, st, as) :
          state' = st /\ assignee' = Moved(E, escalateTo[o], as)
    BY DEF Escalate
  <1>2. E \subseteq Unfinished(o, st, as)
    BY EscalationSetsMember
  <1> QED
    BY <1>1, <1>2 DEF Moved, Unfinished

\* Every step is a gate step.
LEMMA EveryGateStep == TypeOK /\ [Next]_vars => GateStep
  <1> SUFFICES ASSUME TypeOK, [Next]_vars PROVE GateStep
    OBVIOUS
  <1>1. ASSUME NEW me \in Agents, NEW t \in TaskIds, NEW a \in Agents,
               NEW deps \in SUBSET TaskIds, NEW key \in ClientKeys \cup {None},
               CreateTask(me, t, a, deps, key)
        PROVE  GateStep
    <2>1. state' = [state EXCEPT ![t] = "submitted"]
      BY <1>1, EscalateKeeps DEF CreateTask
    <2> QED
      <3>1. state[t] = "absent"
        BY <1>1 DEF CreateTask
      <3>2. approver' = approver /\ dependsOn' = [dependsOn EXCEPT ![t] = deps]
        BY <1>1 DEF CreateTask
      <3>3. state \in [TaskIds -> TaskStates] /\ dependsOn \in [TaskIds -> SUBSET TaskIds]
        BY DEF TypeOK
      <3> QED
        BY <2>1, <3>1, <3>2, <3>3 DEF GateStep, Begun
  <1>2. ASSUME NEW me \in Agents, NEW t \in TaskIds, NEW new \in TaskStates,
               UpdateTaskState(me, t, new)
        PROVE  GateStep
    <2>1. state' = [state EXCEPT ![t] = new]
      BY <1>2, EscalateKeeps DEF UpdateTaskState
    <2>2. \/ state[t] = "submitted" /\ new = "canceled"
          \/ state[t] = "submitted" /\ new = "in_progress" /\ DependenciesMet(t)
          \/ state[t] = "in_progress"
      BY <1>2 DEF UpdateTaskState, Transitions
    <2> QED
      BY <1>2, <2>1, <2>2 DEF UpdateTaskState, GateStep, Begun, TypeOK
  <1>3. ASSUME NEW me \in Agents, NEW t \in TaskIds, NEW a \in Agents,
               TransferTask(me, t, a)
        PROVE  GateStep
    <2>1. state' = state
      BY <1>3, EscalateKeeps DEF TransferTask
    <2> QED
      BY <1>3, <2>1 DEF TransferTask, GateStep, Begun
  <1>4. ASSUME NEW me \in Agents, NEW t \in TaskIds, NEW v \in Agents,
               RequestApproval(me, t, v)
        PROVE  GateStep
    BY <1>4 DEF RequestApproval, Sees, Tasks, GateStep, Begun, TypeOK, TerminalStates
  <1>5. ASSUME NEW me \in Agents, NEW t \in TaskIds,
               ApproveTask(me, t) \/ RejectTask(me, t)
        PROVE  GateStep
    BY <1>5 DEF ApproveTask, RejectTask, GateStep, Begun, TypeOK
  <1>6. CASE UNCHANGED taskVars
    BY <1>6 DEF taskVars, GateStep, Begun
  <1> QED
    BY <1>1, <1>2, <1>3, <1>4, <1>5, <1>6
    DEF Next, AgentNext, OrgNext, CreateDelegation, RevokeDelegation,
        DelegationExpires, SetAgentBudget, SetEscalationPolicy, SetPolicy,
        DeactivateAgent, ReactivateAgent, SetStatus, vars

\* Work never starts past an unmet dependency unless the task was sent to an
\* approver, whatever the number of tasks, agents and organizations.
THEOREM GateCorrect == Spec => []GateByApproval
  <1>1. Init => GateByApproval
    BY DEF Init, GateByApproval
  <1>2. TypeOK /\ GateByApproval /\ GateStep => GateByApproval'
    <2> SUFFICES ASSUME TypeOK, GateByApproval, GateStep,
                        NEW t \in TaskIds, state'[t] \in Begun,
                        NEW d \in dependsOn'[t], state'[d] # "completed"
                 PROVE  approver'[t] # None
      BY DEF GateByApproval, Begun
    <2>1. d \in dependsOn[t] /\ d \in TaskIds
      BY DEF GateStep, TypeOK
    <2>2. state[d] # "completed"
      BY <2>1 DEF GateStep
    <2>3. approver[t] # None
      <3>1. CASE state[t] \in Begun
        BY <3>1, <2>1, <2>2 DEF GateByApproval, Begun
      <3>2. CASE state[t] \notin Begun
        BY <3>2, <2>1, <2>2 DEF GateStep, DependenciesMet
      <3> QED
        BY <3>1, <3>2
    <2> QED
      BY <2>3 DEF GateStep
  <1> QED
    BY <1>1, <1>2, EveryGateStep, TypeCorrect, PTL DEF Spec

-----------------------------------------------------------------------------
(* The refinement of TaskLifecycle.                                        *)

\* What one step does to the columns the lifecycle speaks of.
LifecycleStep ==
  /\ state' = state \/ \E t \in TaskIds : Lifecycle!Moves(t)
  /\ \A t \in TaskIds :
       state'[t] \in TerminalStates \cup {"absent"} => assignee'[t] = assignee[t]

\* A step that rewrites one task's state along an arrow of the lifecycle is a
\* move of that task.
LEMMA OneArrow ==
  ASSUME TypeOK, NEW t \in TaskIds, NEW new,
         <<state[t], new>> \in Lifecycle!Edges,
         state' = [state EXCEPT ![t] = new]
  PROVE  Lifecycle!Moves(t)
  BY DEF TypeOK, Lifecycle!Moves

LEMMA EveryLifecycleStep == TypeOK /\ [Next]_vars => LifecycleStep
  <1> SUFFICES ASSUME TypeOK, [Next]_vars PROVE LifecycleStep
    OBVIOUS
  <1>1. ASSUME NEW me \in Agents, NEW t \in TaskIds, NEW a \in Agents,
               NEW deps \in SUBSET TaskIds, NEW key \in ClientKeys \cup {None},
               CreateTask(me, t, a, deps, key)
        PROVE  LifecycleStep
    <2> DEFINE st == [state EXCEPT ![t] = "submitted"]
               as == [assignee EXCEPT ![t] = a]
    <2>1. /\ state' = st
          /\ \A u \in TaskIds :
               st[u] \notin {"submitted", "in_progress"} => assignee'[u] = as[u]
      <3>1. Escalate(OrgOf[a], st, as)
        BY <1>1 DEF CreateTask
      <3> HIDE DEF st, as
      <3> QED
        BY <3>1, EscalateKeeps
    <2>2. Lifecycle!Moves(t)
      <3>1. <<state[t], "submitted">> \in Lifecycle!Edges
        BY <1>1 DEF CreateTask, Lifecycle!Edges
      <3> QED
        BY <2>1, <3>1, OneArrow
    <2> QED
      BY <2>1, <2>2 DEF LifecycleStep, TypeOK, TerminalStates
  <1>2. ASSUME NEW me \in Agents, NEW t \in TaskIds, NEW new \in TaskStates,
               UpdateTaskState(me, t, new)
        PROVE  LifecycleStep
    <2>1. /\ state' = [state EXCEPT ![t] = new]
          /\ \A u \in TaskIds : state'[u] \notin {"submitted", "in_progress"} =>
               assignee'[u] = assignee[u]
      BY <1>2, EscalateKeeps DEF UpdateTaskState
    <2>2. <<state[t], new>> \in Lifecycle!Edges
      <3>1. Transitions \subseteq Lifecycle!Edges
        BY DEF Transitions, TerminalStates, Lifecycle!Edges, Lifecycle!Terminal
      <3> QED
        BY <1>2, <3>1 DEF UpdateTaskState
    <2>3. Lifecycle!Moves(t)
      BY <2>1, <2>2, OneArrow
    <2> QED
      BY <2>1, <2>3 DEF LifecycleStep, TerminalStates
  <1>3. ASSUME NEW me \in Agents, NEW t \in TaskIds, NEW a \in Agents,
               TransferTask(me, t, a)
        PROVE  LifecycleStep
    <2> DEFINE as == [assignee EXCEPT ![t] = a]
    <2>1. /\ state' = state
          /\ \A u \in TaskIds :
               state[u] \notin {"submitted", "in_progress"} => assignee'[u] = as[u]
      <3>1. Escalate(OrgOf[a], state, as)
        BY <1>3 DEF TransferTask
      <3> HIDE DEF as
      <3> QED
        BY <3>1, EscalateKeeps
    <2>2. state[t] \notin TerminalStates \cup {"absent"}
      BY <1>3 DEF TransferTask, Sees, Tasks
    <2> QED
      BY <2>1, <2>2 DEF LifecycleStep, TypeOK, TerminalStates
  <1>4. ASSUME NEW me \in Agents, NEW t \in TaskIds, NEW v \in Agents,
               RequestApproval(me, t, v)
        PROVE  LifecycleStep
    <2>1. <<state[t], "pending_approval">> \in Lifecycle!Edges
      <3>1. state[t] \in {"submitted", "in_progress"}
        BY <1>4 DEF RequestApproval, Sees, Tasks, TypeOK, TaskStates, ActiveStates
      <3> QED
        BY <3>1 DEF Lifecycle!Edges
    <2>2. Lifecycle!Moves(t)
      BY <1>4, <2>1, OneArrow DEF RequestApproval
    <2> QED
      BY <1>4, <2>2 DEF RequestApproval, LifecycleStep
  <1>5. ASSUME NEW me \in Agents, NEW t \in TaskIds,
               ApproveTask(me, t) \/ RejectTask(me, t)
        PROVE  LifecycleStep
    <2>1. Lifecycle!Moves(t)
      BY <1>5, OneArrow DEF ApproveTask, RejectTask, Lifecycle!Edges
    <2> QED
      BY <1>5, <2>1 DEF ApproveTask, RejectTask, LifecycleStep
  <1>6. CASE UNCHANGED taskVars
    BY <1>6 DEF taskVars, LifecycleStep
  <1> QED
    BY <1>1, <1>2, <1>3, <1>4, <1>5, <1>6
    DEF Next, AgentNext, OrgNext, CreateDelegation, RevokeDelegation,
        DelegationExpires, SetAgentBudget, SetEscalationPolicy, SetPolicy,
        DeactivateAgent, ReactivateAgent, SetStatus, vars

\* The task service implements the documented lifecycle: one arrow at a time,
\* ended tasks frozen with their last holder, a holder for every task.
THEOREM Refinement == Spec => ImplementsLifecycle
  <1>1. Init => Lifecycle!Init
    BY DEF Init, Lifecycle!Init
  <1>2. TypeOK' /\ LifecycleStep => [Lifecycle!Next]_(Lifecycle!vars)
    <2> SUFFICES ASSUME TypeOK', LifecycleStep
                 PROVE  Lifecycle!Next
      OBVIOUS
    <2>1. \A t \in TaskIds : state'[t] # "absent" => assignee'[t] \in Agents
      BY DEF TypeOK, Tasks
    <2> QED
      BY <2>1 DEF LifecycleStep, Lifecycle!Next, Lifecycle!Handover,
                  Lifecycle!Terminal, TerminalStates
  <1> QED
    BY <1>1, <1>2, EveryLifecycleStep, TypeCorrect, PTL
    DEF Spec, ImplementsLifecycle, Lifecycle!Spec

-----------------------------------------------------------------------------
(* Who comes to hold work: escalations move tasks inside one organization, *)
(* to an active account, within its budget.                                *)

\* An organization's tasks escalate to one of its own members.
TargetsInside ==
  \A o \in Orgs : escalateTo[o] # None => OrgOf[escalateTo[o]] = o

LEMMA TargetsKept == TypeOK /\ TargetsInside /\ [Next]_vars => TargetsInside'
  <1> SUFFICES ASSUME TypeOK, TargetsInside, [Next]_vars PROVE TargetsInside'
    OBVIOUS
  <1>1. \/ escalateTo' = escalateTo
        \/ \E o \in Orgs, v \in Managed \cup {None} : SetEscalationPolicy(o, v)
    <2>1. AgentNext => escalateTo' = escalateTo
      <3>1. ASSUME NEW me \in Agents, NEW t \in TaskIds, NEW a, NEW deps, NEW key,
                   CreateTask(me, t, a, deps, key)
            PROVE  escalateTo' = escalateTo
        BY <3>1 DEF CreateTask, orgVars
      <3>2. ASSUME NEW me \in Agents, NEW t \in TaskIds, NEW a,
                   \/ UpdateTaskState(me, t, a) \/ TransferTask(me, t, a)
                   \/ RequestApproval(me, t, a) \/ ApproveTask(me, t) \/ RejectTask(me, t)
                   \/ CreateDelegation(me, t, a) \/ RevokeDelegation(me, t, a)
            PROVE  escalateTo' = escalateTo
        BY <3>2 DEF UpdateTaskState, TransferTask, RequestApproval, ApproveTask, RejectTask,
           CreateDelegation, RevokeDelegation, orgVars
      <3> QED
        BY <3>1, <3>2 DEF AgentNext
    <2>2. OrgNext => \/ escalateTo' = escalateTo
                     \/ \E o \in Orgs, v \in Managed \cup {None} : SetEscalationPolicy(o, v)
      BY DEF OrgNext, SetAgentBudget, SetPolicy, DeactivateAgent, ReactivateAgent, SetStatus
    <2> QED
      BY <2>1, <2>2 DEF Next, DelegationExpires, vars, orgVars
  <1>2. ASSUME NEW o \in Orgs, NEW v \in Managed \cup {None}, SetEscalationPolicy(o, v)
        PROVE  TargetsInside'
    BY <1>2 DEF SetEscalationPolicy, TargetsInside, TypeOK
  <1> QED
    BY <1>1, <1>2 DEF TargetsInside

Colleagues(u, v) == OrgOf[u] = OrgOf[v]
IsActive(u) == status[u] = "active"

\* A task that changes hands in an escalation goes to an active member of the
\* organization of the agent it leaves.
LEMMA EscalateMoves ==
  TargetsInside => \A o \in Orgs : \A st, as : Escalate(o, st, as) =>
    \A t \in TaskIds : assignee'[t] # as[t] =>
      /\ st[t] \in {"submitted", "in_progress"}
      /\ Colleagues(assignee'[t], as[t])
      /\ IsActive(assignee'[t])
  <1> SUFFICES ASSUME TargetsInside, NEW o \in Orgs, NEW st, NEW as, Escalate(o, st, as),
                      NEW t \in TaskIds, assignee'[t] # as[t]
               PROVE  /\ st[t] \in {"submitted", "in_progress"}
                      /\ Colleagues(assignee'[t], as[t])
                      /\ IsActive(assignee'[t])
    OBVIOUS
  <1>1. PICK E \in EscalationSets(o, st, as) : assignee' = Moved(E, escalateTo[o], as)
    BY DEF Escalate
  <1>2. t \in E /\ assignee'[t] = escalateTo[o]
    BY <1>1 DEF Moved
  <1>3. escalateTo[o] # None /\ status[escalateTo[o]] = "active"
    BY <1>2 DEF EscalationSets
  <1>4. t \in Unfinished(o, st, as)
    BY <1>2, EscalationSetsMember
  <1> QED
    BY <1>2, <1>3, <1>4 DEF Unfinished, TargetsInside, Colleagues, IsActive

\* What one step may do to the holder of a task.
HandoverStep ==
  \A t \in TaskIds : assignee'[t] # assignee[t] =>
    /\ IsActive(assignee'[t])
    /\ \E u \in {creator'[t], assignee[t]} \ {None} : CommAllowed(u, assignee'[t])

LEMMA EveryHandoverStep ==
  TypeOK /\ TargetsInside /\ [Next]_vars => HandoverStep
  <1> SUFFICES ASSUME TypeOK, TargetsInside, [Next]_vars PROVE HandoverStep
    OBVIOUS
  \* A task in the hands of x was handed over by somebody who may write to x; it may
  \* escalate at once to somebody of the same organization.
  <1>0. ASSUME NEW o \in Orgs, NEW st, NEW as, Escalate(o, st, as), NEW t \in TaskIds,
               NEW u, CommAllowed(u, as[t]), IsActive(as[t])
        PROVE  CommAllowed(u, assignee'[t]) /\ IsActive(assignee'[t])
    <2>1. \/ assignee'[t] = as[t]
          \/ Colleagues(assignee'[t], as[t]) /\ IsActive(assignee'[t])
      BY <1>0, EscalateMoves
    <2> QED
      BY <1>0, <2>1 DEF CommAllowed, Colleagues, IsActive
  \* A task nobody touched may escalate too.
  <1>s. ASSUME NEW o \in Orgs, NEW st, NEW as, Escalate(o, st, as), NEW t \in TaskIds,
               as[t] = assignee[t], st[t] = state[t], assignee'[t] # assignee[t]
        PROVE  /\ IsActive(assignee'[t]) /\ assignee[t] # None
               /\ CommAllowed(assignee[t], assignee'[t])
    <2>1. state[t] \in {"submitted", "in_progress"} /\ IsActive(assignee'[t])
          /\ Colleagues(assignee'[t], assignee[t])
      BY <1>s, EscalateMoves
    <2> QED
      BY <1>s, <2>1 DEF TypeOK, Tasks, CommAllowed, Colleagues
  <1>1. ASSUME NEW me \in Agents, NEW t \in TaskIds, NEW a \in Agents,
               NEW deps \in SUBSET TaskIds, NEW key \in ClientKeys \cup {None},
               CreateTask(me, t, a, deps, key)
        PROVE  HandoverStep
    <2> DEFINE st == [state EXCEPT ![t] = "submitted"]
               as == [assignee EXCEPT ![t] = a]
    <2>1. /\ Escalate(OrgOf[a], st, as) /\ OrgOf[a] \in Orgs
          /\ CommAllowed(me, a) /\ IsActive(a) /\ creator'[t] = me
      BY <1>1 DEF CreateTask, TypeOK, IsActive
    <2>2. as[t] = a /\ \A u \in TaskIds : u # t => as[u] = assignee[u] /\ st[u] = state[u]
      BY DEF TypeOK
    <2> HIDE DEF st, as
    <2>3. CommAllowed(me, assignee'[t]) /\ IsActive(assignee'[t])
      BY <1>0, <2>1, <2>2
    <2>4. me # None
      OBVIOUS
    <2> QED
      BY <1>s, <2>1, <2>2, <2>3, <2>4 DEF HandoverStep
  <1>2. ASSUME NEW me \in Agents, NEW t \in TaskIds, NEW new \in TaskStates,
               UpdateTaskState(me, t, new)
        PROVE  HandoverStep
    <2> DEFINE st == [state EXCEPT ![t] = new]
    <2>1. Escalate(OrgOf[me], st, assignee) /\ OrgOf[me] \in Orgs
      BY <1>2 DEF UpdateTaskState
    <2>2. /\ state[t] \in {"submitted", "in_progress"}
          /\ \A u \in TaskIds : u # t => st[u] = state[u]
      BY <1>2 DEF UpdateTaskState, Transitions, TypeOK
    <2> HIDE DEF st
    <2>3. ASSUME NEW u \in TaskIds, assignee'[u] # assignee[u]
          PROVE  IsActive(assignee'[u]) /\ assignee[u] # None
                 /\ CommAllowed(assignee[u], assignee'[u])
      <3>1. CASE u = t
        <4>1. IsActive(assignee'[t]) /\ Colleagues(assignee'[t], assignee[t])
          BY <2>1, <2>3, <3>1, EscalateMoves
        <4> QED
          BY <2>2, <3>1, <4>1 DEF TypeOK, Tasks, CommAllowed, Colleagues
      <3>2. CASE u # t
        BY <1>s, <2>1, <2>2, <2>3, <3>2
      <3> QED
        BY <3>1, <3>2
    <2> QED
      BY <2>3 DEF HandoverStep
  <1>3. ASSUME NEW me \in Agents, NEW t \in TaskIds, NEW a \in Agents,
               TransferTask(me, t, a)
        PROVE  HandoverStep
    <2> DEFINE as == [assignee EXCEPT ![t] = a]
    <2>1. /\ Escalate(OrgOf[a], state, as) /\ OrgOf[a] \in Orgs
          /\ CommAllowed(me, a) /\ IsActive(a) /\ creator' = creator
          /\ me \in {creator[t], assignee[t]}
      BY <1>3 DEF TransferTask, Sees, IsActive
    <2>2. as[t] = a /\ \A u \in TaskIds : u # t => as[u] = assignee[u]
      BY DEF TypeOK
    <2> HIDE DEF as
    <2>3. CommAllowed(me, assignee'[t]) /\ IsActive(assignee'[t])
      BY <1>0, <2>1, <2>2
    <2>4. me # None
      OBVIOUS
    <2> QED
      BY <1>s, <2>1, <2>2, <2>3, <2>4 DEF HandoverStep
  <1>4. CASE UNCHANGED assignee
    BY <1>4 DEF HandoverStep
  <1> QED
    BY <1>1, <1>2, <1>3, <1>4
    DEF Next, AgentNext, OrgNext, RequestApproval, ApproveTask, RejectTask,
        CreateDelegation, RevokeDelegation, DelegationExpires, SetAgentBudget,
        SetEscalationPolicy, SetPolicy, DeactivateAgent, ReactivateAgent, SetStatus,
        vars, taskVars

\* TypeOK and TargetsInside hold for ever.
LEMMA TargetsInvariant == Spec => [](TypeOK /\ TargetsInside)
  <1>1. Init => TargetsInside
    BY DEF Init, TargetsInside
  <1> QED
    BY <1>1, TargetsKept, TypeCorrect, PTL DEF Spec

\* A task reaches a new holder only along the policies of its creator or of its last
\* holder, escalations in the transaction of another command included.
THEOREM PolicyCorrect == Spec => CrossOrgByPolicy
  <1>1. TypeOK /\ TargetsInside /\ [Next]_vars =>
          [\A t \in TaskIds :
             assignee'[t] # assignee[t] =>
               \E u \in {creator'[t], assignee[t]} \ {None} :
                 CommAllowed(u, assignee'[t])]_vars
    BY EveryHandoverStep DEF HandoverStep
  <1> QED
    BY <1>1, TargetsInvariant, PTL DEF Spec, CrossOrgByPolicy

\* Whoever newly holds a task has an active account at that moment.
THEOREM ActiveCorrect == Spec => WorkReachesActiveAccount
  <1>1. TypeOK /\ TargetsInside /\ [Next]_vars =>
          [\A t \in TaskIds :
             assignee'[t] # assignee[t] => status[assignee'[t]] = "active"]_vars
    BY EveryHandoverStep DEF HandoverStep, IsActive
  <1> QED
    BY <1>1, TargetsInvariant, PTL DEF Spec, WorkReachesActiveAccount

-----------------------------------------------------------------------------
(* Budgets.                                                                *)

\* The active tasks of u when the columns are st and as.
ActiveOf(u, st, as) == {t \in TaskIds : as[t] = u /\ st[t] \in ActiveStates}

LEMMA LoadIs ==
  \A u, st, as : /\ Load(u, st, as) = Cardinality(ActiveOf(u, st, as))
                 /\ IsFiniteSet(ActiveOf(u, st, as)) /\ Load(u, st, as) \in Nat
  <1> SUFFICES ASSUME NEW u, NEW st, NEW as
               PROVE  /\ Load(u, st, as) = Cardinality(ActiveOf(u, st, as))
                      /\ IsFiniteSet(ActiveOf(u, st, as)) /\ Load(u, st, as) \in Nat
    OBVIOUS
  <1>1. ActiveOf(u, st, as) \subseteq TaskIds
    BY DEF ActiveOf
  <1>2. IsFiniteSet(ActiveOf(u, st, as))
    BY <1>1, FS_Subset
  <1> QED
    BY <1>2, FS_CardinalityType DEF Load, ActiveOf

\* Fewer active tasks, less load; and one more task, one more at most.
LEMMA LoadGrows ==
  ASSUME NEW u, NEW st, NEW as, NEW st2, NEW as2, NEW t,
         ActiveOf(u, st2, as2) \subseteq ActiveOf(u, st, as) \cup {t}
  PROVE  Load(u, st2, as2) <= Load(u, st, as) + 1
  <1> DEFINE S == ActiveOf(u, st, as)
             T == ActiveOf(u, st2, as2)
  <1>0. /\ IsFiniteSet(S) /\ Cardinality(S) = Load(u, st, as) /\ Load(u, st, as) \in Nat
        /\ IsFiniteSet(T) /\ Cardinality(T) = Load(u, st2, as2) /\ Load(u, st2, as2) \in Nat
    BY LoadIs
  <1> HIDE DEF S, T
  <1>1. /\ IsFiniteSet(S \cup {t})
        /\ Cardinality(S \cup {t}) = IF t \in S THEN Cardinality(S) ELSE Cardinality(S) + 1
    BY <1>0, FS_AddElement
  <1>2. Cardinality(T) <= Cardinality(S \cup {t})
    BY <1>1, FS_Subset DEF S, T
  <1>3. PICK m, n, k : m = Cardinality(S \cup {t}) /\ n = Cardinality(S) /\ k = Cardinality(T)
    OBVIOUS
  <1>4. (m = n \/ m = n + 1) /\ k <= m /\ n \in Nat /\ k \in Nat
    BY <1>0, <1>1, <1>2, <1>3
  <1>5. k <= n + 1
    BY <1>4
  <1> QED
    BY <1>0, <1>3, <1>5

LEMMA LoadShrinks ==
  ASSUME NEW u, NEW st, NEW as, NEW st2, NEW as2,
         ActiveOf(u, st2, as2) \subseteq ActiveOf(u, st, as)
  PROVE  Load(u, st2, as2) <= Load(u, st, as)
  BY LoadIs, FS_Subset

\* Whatever the escalations move, an agent ends with no more than the command left it,
\* or with no more than its budget.
LEMMA EscalateLoads ==
  TypeOK => \A o \in Orgs : \A st, as : Escalate(o, st, as) =>
    \A u \in Agents : budget[u] # None =>
      \/ Load(u, st, assignee') <= Load(u, st, as)
      \/ Load(u, st, assignee') <= budget[u]
  <1> SUFFICES ASSUME TypeOK, NEW o \in Orgs, NEW st, NEW as, Escalate(o, st, as),
                      NEW u \in Agents, budget[u] # None
               PROVE  \/ Load(u, st, assignee') <= Load(u, st, as)
                      \/ Load(u, st, assignee') <= budget[u]
    OBVIOUS
  <1>1. PICK E \in EscalationSets(o, st, as) : assignee' = Moved(E, escalateTo[o], as)
    BY DEF Escalate
  <1>2. E \subseteq TaskIds
    BY EscalationSetsMember DEF Unfinished
  <1>3. \A t \in TaskIds : assignee'[t] = IF t \in E THEN escalateTo[o] ELSE as[t]
    BY <1>1 DEF Moved
  <1>4. CASE u # escalateTo[o] \/ E = {}
    <2>1. ActiveOf(u, st, assignee') \subseteq ActiveOf(u, st, as)
      BY <1>3, <1>4 DEF ActiveOf
    <2> QED
      BY <2>1, LoadShrinks
  <1>5. CASE u = escalateTo[o] /\ E # {}
    <2>1. Load(u, st, as) + Cardinality(E) <= budget[u]
      BY <1>5 DEF EscalationSets, HasRoom
    <2>2. ActiveOf(u, st, assignee') \subseteq ActiveOf(u, st, as) \cup E
      BY <1>3, <1>5 DEF ActiveOf
    <2>3. IsFiniteSet(E) /\ Cardinality(E) \in Nat
      BY <1>2, FS_Subset, FS_CardinalityType
    <2>4. /\ IsFiniteSet(ActiveOf(u, st, as) \cup E)
          /\ Cardinality(ActiveOf(u, st, as) \cup E) =
               Cardinality(ActiveOf(u, st, as)) + Cardinality(E)
                 - Cardinality(ActiveOf(u, st, as) \cap E)
      BY <2>3, LoadIs, FS_Union
    <2>5. Cardinality(ActiveOf(u, st, as) \cap E) \in Nat
      <3>1. IsFiniteSet(ActiveOf(u, st, as) \cap E)
        BY <2>3, FS_Subset
      <3> QED
        BY <3>1, FS_CardinalityType
    <2>6. Cardinality(ActiveOf(u, st, assignee')) <= Cardinality(ActiveOf(u, st, as) \cup E)
      BY <2>2, <2>4, FS_Subset
    <2>7. budget[u] \in Nat
      BY DEF TypeOK
    <2>8. /\ Cardinality(ActiveOf(u, st, as)) = Load(u, st, as) /\ Load(u, st, as) \in Nat
          /\ Cardinality(ActiveOf(u, st, assignee')) = Load(u, st, assignee')
          /\ Load(u, st, assignee') \in Nat
      BY LoadIs
    <2>9. PICK a, b, c, d, e : /\ a = Load(u, st, as) /\ b = Cardinality(E)
                               /\ c = Cardinality(ActiveOf(u, st, as) \cap E)
                               /\ d = Cardinality(ActiveOf(u, st, as) \cup E)
                               /\ e = Load(u, st, assignee')
      OBVIOUS
    <2>10. /\ a \in Nat /\ b \in Nat /\ c \in Nat /\ e \in Nat /\ d = a + b - c /\ e <= d
      BY <2>3, <2>4, <2>5, <2>6, <2>8, <2>9
    <2>11. a + b <= budget[u]
      BY <2>1, <2>9
    <2>12. e <= budget[u]
      BY <2>7, <2>10, <2>11
    <2> QED
      BY <2>9, <2>12
  <1> QED
    BY <1>4, <1>5

\* Columns that respect every budget, unless an agent had as many tasks already.
Within(st, as) ==
  \A u \in Agents : budget[u] # None =>
    Load(u, st, as) <= Load(u, state, assignee) \/ Load(u, st, as) <= budget[u]

\* What one step may do to the load of an agent.
BudgetStep ==
  \A u \in Agents :
    Load(u, state', assignee') > Load(u, state, assignee) /\ budget[u] # None
      => Load(u, state', assignee') <= budget[u]

LEMMA EveryBudgetStep == TypeOK /\ [Next]_vars => BudgetStep
  <1> SUFFICES ASSUME TypeOK, [Next]_vars PROVE BudgetStep
    OBVIOUS
  \* Enough: the command itself, before its escalations, respects every budget.
  <1>e. ASSUME NEW o \in Orgs, NEW st, NEW as, Escalate(o, st, as), Within(st, as)
        PROVE  BudgetStep
    <2>1. state' = st
      BY <1>e, EscalateKeeps
    <2> SUFFICES ASSUME NEW u \in Agents, budget[u] # None,
                        Load(u, st, assignee') > Load(u, state, assignee)
                 PROVE  Load(u, st, assignee') <= budget[u]
      BY <2>1 DEF BudgetStep
    <2>2. \/ Load(u, st, assignee') <= Load(u, st, as) \/ Load(u, st, assignee') <= budget[u]
      BY <1>e, EscalateLoads
    <2>3. Load(u, st, as) <= Load(u, state, assignee) \/ Load(u, st, as) <= budget[u]
      BY <1>e DEF Within
    <2>4. budget[u] \in Nat
      BY DEF TypeOK
    <2>5. PICK a, b, c : /\ a = Load(u, state, assignee) /\ b = Load(u, st, as)
                         /\ c = Load(u, st, assignee')
      OBVIOUS
    <2>6. a \in Nat /\ b \in Nat /\ c \in Nat
      BY <2>5, LoadIs
    <2>7. (c <= b \/ c <= budget[u]) /\ (b <= a \/ b <= budget[u]) /\ c > a
      BY <2>2, <2>3, <2>5
    <2>8. c <= budget[u]
      BY <2>4, <2>6, <2>7
    <2> QED
      BY <2>5, <2>8
  \* The hands-over: t comes to a, whose budget has room for it.
  <1>a. ASSUME NEW t \in TaskIds, NEW a \in Agents, NEW st, HasRoom(a, 1, state, assignee),
               \A u \in TaskIds : u # t => st[u] = state[u],
               NEW as, as = [assignee EXCEPT ![t] = a]
        PROVE  Within(st, as)
    <2> SUFFICES ASSUME NEW u \in Agents, budget[u] # None
                 PROVE  Load(u, st, as) <= Load(u, state, assignee)
                        \/ Load(u, st, as) <= budget[u]
      BY DEF Within
    <2>1. as[t] = a /\ \A x \in TaskIds : x # t => as[x] = assignee[x]
      BY <1>a DEF TypeOK
    <2>2. CASE u = a
      <3>1. ActiveOf(u, st, as) \subseteq ActiveOf(u, state, assignee) \cup {t}
        BY <1>a, <2>1 DEF ActiveOf
      <3>2. Load(u, st, as) <= Load(u, state, assignee) + 1
        BY <3>1, LoadGrows
      <3>3. Load(u, state, assignee) + 1 <= budget[u]
        BY <1>a, <2>2 DEF HasRoom
      <3>4. budget[u] \in Nat
        BY DEF TypeOK
      <3>5. PICK b, c : b = Load(u, state, assignee) /\ c = Load(u, st, as)
        OBVIOUS
      <3>6. b \in Nat /\ c \in Nat
        BY <3>5, LoadIs
      <3>7. c <= b + 1
        BY <3>2, <3>5
      <3>8. b + 1 <= budget[u]
        BY <3>3, <3>5
      <3>9. c <= budget[u]
        BY <3>4, <3>6, <3>7, <3>8
      <3> QED
        BY <3>5, <3>9
    <2>3. CASE u # a
      <3>1. ActiveOf(u, st, as) \subseteq ActiveOf(u, state, assignee)
        BY <1>a, <2>1, <2>3 DEF ActiveOf
      <3> QED
        BY <3>1, LoadShrinks
    <2> QED
      BY <2>2, <2>3
  \* A step that leaves every agent the active tasks it had, or fewer.
  <1>s. ASSUME \A u \in Agents : ActiveOf(u, state', assignee') \subseteq ActiveOf(u, state, assignee)
        PROVE  BudgetStep
    <2>1. \A u \in Agents : Load(u, state', assignee') <= Load(u, state, assignee)
      BY <1>s, LoadShrinks
    <2>2. \A u \in Agents : Load(u, state', assignee') \in Nat /\ Load(u, state, assignee) \in Nat
      BY LoadIs
    <2> QED
      BY <2>1, <2>2 DEF BudgetStep
  <1>1. ASSUME NEW me \in Agents, NEW t \in TaskIds, NEW a \in Agents,
               NEW deps \in SUBSET TaskIds, NEW key \in ClientKeys \cup {None},
               CreateTask(me, t, a, deps, key)
        PROVE  BudgetStep
    <2>1. PICK st, as : st = [state EXCEPT ![t] = "submitted"] /\ as = [assignee EXCEPT ![t] = a]
      OBVIOUS
    <2>2. Escalate(OrgOf[a], st, as) /\ OrgOf[a] \in Orgs /\ HasRoom(a, 1, state, assignee)
      BY <1>1, <2>1 DEF CreateTask
    <2>3. \A u \in TaskIds : u # t => st[u] = state[u]
      BY <2>1 DEF TypeOK
    <2> QED
      BY <1>a, <1>e, <2>1, <2>2, <2>3
  <1>2. ASSUME NEW me \in Agents, NEW t \in TaskIds, NEW new \in TaskStates,
               UpdateTaskState(me, t, new)
        PROVE  BudgetStep
    <2>1. PICK st, as : st = [state EXCEPT ![t] = new] /\ as = assignee
      OBVIOUS
    <2>2. Escalate(OrgOf[me], st, as) /\ OrgOf[me] \in Orgs
      BY <1>2, <2>1 DEF UpdateTaskState
    <2>3. state[t] \in ActiveStates
      BY <1>2 DEF UpdateTaskState, Transitions, ActiveStates
    <2>4. \A u \in Agents : ActiveOf(u, st, as) \subseteq ActiveOf(u, state, assignee)
      BY <2>1, <2>3 DEF ActiveOf, TypeOK
    <2>5. Within(st, as)
      BY <2>4, LoadShrinks DEF Within
    <2> QED
      BY <1>e, <2>2, <2>5
  <1>3. ASSUME NEW me \in Agents, NEW t \in TaskIds, NEW a \in Agents,
               TransferTask(me, t, a)
        PROVE  BudgetStep
    <2>1. PICK st, as : st = state /\ as = [assignee EXCEPT ![t] = a]
      OBVIOUS
    <2>2. Escalate(OrgOf[a], st, as) /\ OrgOf[a] \in Orgs /\ HasRoom(a, 1, state, assignee)
      BY <1>3, <2>1 DEF TransferTask
    <2>3. \A u \in TaskIds : u # t => st[u] = state[u]
      BY <2>1
    <2> QED
      BY <1>a, <1>e, <2>1, <2>2, <2>3
  <1>4. ASSUME NEW me \in Agents, NEW t \in TaskIds, NEW v \in Agents,
               RequestApproval(me, t, v) \/ ApproveTask(me, t) \/ RejectTask(me, t)
        PROVE  BudgetStep
    <2>1. /\ assignee' = assignee /\ state[t] \in ActiveStates
          /\ \E new : state' = [state EXCEPT ![t] = new]
      BY <1>4 DEF RequestApproval, ApproveTask, RejectTask, Sees, Tasks, TypeOK, TaskStates,
         TerminalStates, ActiveStates
    <2>2. \A u \in Agents : ActiveOf(u, state', assignee') \subseteq ActiveOf(u, state, assignee)
      BY <2>1 DEF ActiveOf, TypeOK
    <2> QED
      BY <1>s, <2>2
  <1>5. CASE UNCHANGED taskVars
    BY <1>5, <1>s DEF taskVars, ActiveOf
  <1> QED
    BY <1>1, <1>2, <1>3, <1>4, <1>5
    DEF Next, AgentNext, OrgNext, CreateDelegation, RevokeDelegation,
        DelegationExpires, SetAgentBudget, SetEscalationPolicy, SetPolicy,
        DeactivateAgent, ReactivateAgent, SetStatus, vars

\* No step leaves an agent with more active tasks than before and more than its budget,
\* the loop of escalations at the end of another command's transaction included.
THEOREM BudgetCorrect == Spec => BudgetRespected
  <1>1. TypeOK /\ [Next]_vars =>
          [\A u \in Agents :
             Load(u, state, assignee)' > Load(u, state, assignee) /\ budget[u] # None
               => Load(u, state, assignee)' <= budget[u]]_vars
    BY EveryBudgetStep DEF BudgetStep, Load
  <1> QED
    BY <1>1, TypeCorrect, PTL DEF Spec, BudgetRespected
=============================================================================
