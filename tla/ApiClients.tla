----------------------------- MODULE ApiClients -----------------------------
(***************************************************************************)
(* Who writes requests: the methods of the Python client                   *)
(* (src/synapse/client.py), one per command, and the examples of the help  *)
(* documentation (src/synapse/helpdoc.py) with the error codes it lists.   *)
(***************************************************************************)
EXTENDS ApiCommands

(* The arguments of the methods: those a caller must give and those with a *)
(* default, the credentials coming first in every method.                  *)

(* Calls of an organization. *)
OrganizationCalls == [
  create_agent |-> Org({"username", "password", "description"},
      {"can_see_org_agents", "principal_type"}),
  deactivate_agent |-> Org({"username"}, {}),
  reactivate_agent |-> Org({"username"}, {}),
  change_agent_password |-> Org({"username", "new_password"}, {}),
  set_agent_visibility |-> Org({"username", "can_see_org_agents"}, {}),
  get_org_agents |-> Org({}, Page),
  set_organization_policy |-> Org({"allow_incoming_external", "allow_outgoing_external"}, {}),
  get_organization_policy |-> Org({}, {}),
  change_organization_password |-> Org({"new_password"}, {}),
  change_agent_description |-> Org({"username", "description"}, {})]

(* Calls of the human account. *)
HumanCalls == [
  create_org |-> Me({"organization_name", "organization_password"}, {}),
  disable_org |-> Me({"organization_name"}, {}),
  list_orgs |-> Me({}, {"include_disabled"}),
  list_org_conversations |-> Me({}, Page),
  get_org_conversation |-> Me({"conversation_id"}, Page)]

(* Directory and messages. *)
AgentCalls == [
  get_my_organization |-> Me({}, {}),
  get_agent_description |-> Me({"username"}, {}),
  list_org_agents |-> Me({}, Page),
  help |-> Me({}, {"command_name"}),
  send_message |-> Me({"recipient_username", "message", "client_message_id"},
      {"business_reference"}),
  get_messages |-> Me({}, {"status", "sender_username", "conversation_id", "limit", "cursor"}),
  get_conversation |-> Me({"other_username"}, Page),
  read_message |-> Me({"message_id"}, {}),
  get_notifications |-> Me({}, Page),
  mark_conversation_no_reply |-> Me({"conversation_id"}, {})]

(* Cards, search and help. *)
CardCalls == [
  set_agent_card |-> Me({"capabilities"},
      {"domain", "model", "tools", "sla", "limits", "estimated_cost"}),
  get_agent_card |-> Me({"username"}, {}),
  approve_agent_card |-> Org({"username"}, {}),
  find_agents |-> Me({}, {"capability", "domain", "name_contains", "limit", "cursor"})]

(* Tasks. *)
TaskCalls == [
  create_task |-> Me({"title", "assignee_username"}, {"description", "priority", "due_at",
      "deadline", "depends_on", "business_reference", "client_task_id"}),
  get_task |-> Me({"task_id"}, {}),
  list_tasks |-> Me({},
      {"assignee_username", "state", "priority", "due_before", "limit", "cursor"}),
  update_task_state |-> Me({"task_id", "new_state"}, {"result"}),
  transfer_task |-> Me({"task_id", "assignee_username"}, {"note"}),
  request_approval |-> Me({"task_id", "approver_username"}, {})]

(* Approvals, work, events, budgets. *)
FlowCalls == [
  approve_task |-> Me({"task_id"}, {}),
  reject_task |-> Me({"task_id"}, {"reason"}),
  get_my_work |-> Me({}, Page),
  get_events |-> Me({}, {"types", "limit", "cursor"}),
  set_escalation_policy |-> Org({"enabled", "due_after_seconds", "failed_after_seconds",
      "escalate_to_username"}, {}),
  get_escalation_policy |-> Org({}, {}),
  set_agent_budget |-> Org({"username"}, {"max_active_tasks", "max_messages_per_hour"}),
  set_event_retention_days |-> Org({"days"}, {})]

(* Departments, audit, metrics. *)
StructureCalls == [
  create_department |-> Org({"department_name"}, {}),
  set_agent_department |-> Org({"username", "department_name", "role"}, {}),
  get_org_structure |-> Org({}, {}),
  list_department_tasks |-> Me({"department_name"}, Page),
  get_org_audit |-> Org({}, {"since", "actor_username", "command", "limit", "cursor"}),
  get_org_metrics |-> Org({}, {}),
  get_server_status |-> Org({}, {})]

(* Groups and reputation. *)
GroupCalls == [
  create_group |-> Me({"name"}, {}),
  add_group_member |-> Me({"group_id", "username"}, {}),
  remove_group_member |-> Me({"group_id", "username"}, {}),
  send_group_message |-> Me({"group_id", "message"}, {"client_message_id"}),
  get_group_messages |-> Me({"group_id"}, Page),
  get_group_members |-> Me({"group_id"}, Page),
  list_my_groups |-> Me({}, Page),
  get_agent_reputation |-> Me({"username"}, {})]

(* Delegations, observers, snapshot. *)
DelegationCalls == [
  create_delegation |-> Me({"task_id", "delegatee_username", "expires_at"}, {}),
  revoke_delegation |-> Me({"task_id", "delegatee_username"}, {}),
  get_my_delegations |-> Me({}, Page),
  create_observer_account |-> Org({"observer_name", "password", "description"}, {}),
  revoke_observer_account |-> Org({"observer_name"}, {}),
  list_observers |-> Org({}, {}),
  get_org_snapshot |-> Me({}, {})]

(* The methods of the client, by the command they send. *)
Methods == Merged({OrganizationCalls, HumanCalls, AgentCalls, CardCalls, TaskCalls, FlowCalls,
                   StructureCalls, GroupCalls, DelegationCalls})

(* The methods whose limit defaults to 50; in the others it is None. *)
DefaultLimit == {"get_org_agents", "list_org_agents", "get_messages", "get_conversation",
                 "get_notifications", "get_group_messages", "get_group_members",
                 "list_my_groups", "get_my_delegations"}

MethodDefault(c, p) ==
  CASE p = "limit" /\ c \in DefaultLimit -> Int("few")
    [] p \in {"can_see_org_agents", "include_disabled"} -> Bool("no")
    [] OTHER -> Null

(* The parameters a method sends: every argument of the method, given or   *)
(* left to its default, a missing list as an empty one.                    *)
SendsGiven(c, args) ==
  [p \in {q \in DOMAIN args : args[q] # Null} |-> args[p]]
Sends(c, args) ==
  [p \in Methods[c].required \cup Methods[c].optional |->
     LET v == IF p \in DOMAIN args THEN args[p] ELSE MethodDefault(c, p)
     IN  IF v = Null /\ p \in {"tools", "depends_on"} THEN List("empty") ELSE v]

-----------------------------------------------------------------------------
(* The help of a command: the fields of its example and the codes it lists *)
(* under "Errors".                                                         *)
Doc(fields, codes) == [fields |-> fields, codes |-> codes]

(* Accounts and policies. *)
OrganizationDocs == [
  create_agent |-> Doc({"username", "password", "description", "can_see_org_agents"},
      {"AUTH_FAILED", "INVALID_ARGUMENT", "USERNAME_ALREADY_EXISTS"}),
  deactivate_agent |-> Doc({"username"}, {"AUTH_FAILED", "INVALID_ARGUMENT", "USER_NOT_FOUND"}),
  reactivate_agent |-> Doc({"username"}, {"AUTH_FAILED", "INVALID_ARGUMENT", "USER_NOT_FOUND"}),
  change_agent_password |-> Doc({"username", "new_password"},
      {"AUTH_FAILED", "INVALID_ARGUMENT", "USER_NOT_FOUND"}),
  set_agent_visibility |-> Doc({"username", "can_see_org_agents"},
      {"AUTH_FAILED", "INVALID_ARGUMENT", "USER_NOT_FOUND"}),
  get_org_agents |-> Doc(Page, {"AUTH_FAILED", "INVALID_ARGUMENT"}),
  set_organization_policy |-> Doc({"allow_incoming_external", "allow_outgoing_external"},
      {"AUTH_FAILED", "INVALID_ARGUMENT"}),
  get_organization_policy |-> Doc({}, {"AUTH_FAILED"}),
  change_organization_password |-> Doc({"new_password"}, {"AUTH_FAILED", "INVALID_ARGUMENT"}),
  change_agent_description |-> Doc({"username", "description"},
      {"ACCESS_DENIED", "INVALID_ARGUMENT", "USER_NOT_FOUND"})]

(* Commands of the human account. *)
HumanDocs == [
  create_org |-> Doc({"organization_name", "organization_password"},
      {"ACCESS_DENIED", "AUTH_FAILED", "INVALID_ARGUMENT"}),
  disable_org |-> Doc({"organization_name"},
      {"ACCESS_DENIED", "AUTH_FAILED", "INVALID_ARGUMENT"}),
  list_orgs |-> Doc({}, {"ACCESS_DENIED", "AUTH_FAILED"}),
  list_org_conversations |-> Doc(Page, {"ACCESS_DENIED", "AUTH_FAILED"}),
  get_org_conversation |-> Doc({"conversation_id", "limit", "cursor"},
      {"ACCESS_DENIED", "AUTH_FAILED", "CONVERSATION_NOT_FOUND"})]

(* Directory and messages. *)
MessageDocs == [
  get_my_organization |-> Doc({}, {"AUTH_FAILED"}),
  get_agent_description |-> Doc({"username"},
      {"AUTH_FAILED", "INVALID_ARGUMENT", "USER_NOT_FOUND"}),
  list_org_agents |-> Doc(Page,
      {"ACCESS_DENIED", "AUTH_FAILED", "INVALID_ARGUMENT"}),
  send_message |-> Doc({"recipient_username", "message", "client_message_id"},
      {"AUTH_FAILED", "INVALID_ARGUMENT", "MESSAGE_ALREADY_EXISTS", "POLICY_DENIED",
      "RECIPIENT_NOT_FOUND"}),
  get_messages |-> Doc({"status", "sender_username", "conversation_id", "limit", "cursor"},
      {"AUTH_FAILED", "INVALID_ARGUMENT"}),
  get_conversation |-> Doc({"other_username", "limit", "cursor"},
      {"AUTH_FAILED", "CONVERSATION_NOT_FOUND", "INVALID_ARGUMENT"}),
  read_message |-> Doc({"message_id"},
      {"AUTH_FAILED", "INVALID_ARGUMENT", "MESSAGE_NOT_FOUND"}),
  get_notifications |-> Doc(Page, {"AUTH_FAILED", "INVALID_ARGUMENT"}),
  mark_conversation_no_reply |-> Doc({"conversation_id"}, {"AUTH_FAILED", "INVALID_ARGUMENT"})]

(* Cards. *)
CardDocs == [
  set_agent_card |-> Doc({"capabilities", "domain", "model", "tools", "sla", "limits",
      "estimated_cost"}, {"AUTH_FAILED", "INVALID_ARGUMENT"}),
  get_agent_card |-> Doc({"username"}, {"AUTH_FAILED", "INVALID_ARGUMENT", "USER_NOT_FOUND"}),
  approve_agent_card |-> Doc({"username"},
      {"AUTH_FAILED", "INVALID_ARGUMENT", "USER_NOT_FOUND"}),
  find_agents |-> Doc({"capability", "domain", "name_contains", "limit", "cursor"},
      {"ACCESS_DENIED", "AUTH_FAILED", "INVALID_ARGUMENT"})]

(* Tasks. *)
TaskDocs == [
  create_task |-> Doc({"title", "description", "assignee_username", "priority", "due_at",
      "depends_on", "business_reference", "client_task_id"}, {"AUTH_FAILED",
      "INVALID_ARGUMENT", "QUOTA_EXCEEDED", "RECIPIENT_NOT_FOUND", "USER_NOT_FOUND"}),
  get_task |-> Doc({"task_id"}, {"AUTH_FAILED", "INVALID_ARGUMENT", "TASK_NOT_FOUND"}),
  list_tasks |-> Doc({"assignee_username", "state", "priority", "due_before", "limit",
      "cursor"}, {"AUTH_FAILED", "INVALID_ARGUMENT"}),
  update_task_state |-> Doc({"task_id", "new_state", "result"}, {"AUTH_FAILED",
      "INVALID_ARGUMENT", "TASK_DEPENDENCY_NOT_MET", "TASK_NOT_FOUND",
      "TASK_STATE_INVALID"}),
  transfer_task |-> Doc({"task_id", "assignee_username", "note"}, {"AUTH_FAILED",
      "QUOTA_EXCEEDED", "RECIPIENT_NOT_FOUND", "TASK_NOT_FOUND", "TASK_STATE_INVALID",
      "USER_NOT_FOUND"}),
  request_approval |-> Doc({"task_id", "approver_username"}, {"AUTH_FAILED",
      "RECIPIENT_NOT_FOUND", "TASK_NOT_FOUND", "TASK_STATE_INVALID", "USER_NOT_FOUND"}),
  approve_task |-> Doc({"task_id"}, {"AUTH_FAILED", "TASK_NOT_FOUND", "TASK_STATE_INVALID"}),
  reject_task |-> Doc({"task_id", "reason"},
      {"AUTH_FAILED", "INVALID_ARGUMENT", "TASK_NOT_FOUND", "TASK_STATE_INVALID"})]

(* Work, events, budgets. *)
WorkDocs == [
  get_my_work |-> Doc(Page, {"AUTH_FAILED", "INVALID_ARGUMENT"}),
  get_events |-> Doc({"types", "limit", "cursor"}, {"AUTH_FAILED", "INVALID_ARGUMENT"}),
  set_escalation_policy |-> Doc({"enabled", "due_after_seconds", "failed_after_seconds",
      "escalate_to_username"}, {"AUTH_FAILED", "INVALID_ARGUMENT", "USER_NOT_FOUND"}),
  get_escalation_policy |-> Doc({}, {"AUTH_FAILED", "INVALID_ARGUMENT"}),
  set_agent_budget |-> Doc({"username", "max_active_tasks", "max_messages_per_hour"},
      {"AUTH_FAILED", "INVALID_ARGUMENT", "USER_NOT_FOUND"}),
  set_event_retention_days |-> Doc({"days"}, {"AUTH_FAILED", "INVALID_ARGUMENT"})]

(* Departments, audit, metrics. *)
StructureDocs == [
  create_department |-> Doc({"department_name"}, {"AUTH_FAILED", "INVALID_ARGUMENT"}),
  set_agent_department |-> Doc({"username", "department_name", "role"},
      {"AUTH_FAILED", "INVALID_ARGUMENT", "USER_NOT_FOUND"}),
  get_org_structure |-> Doc({}, {"AUTH_FAILED"}),
  list_department_tasks |-> Doc({"department_name", "limit", "cursor"},
      {"ACCESS_DENIED", "AUTH_FAILED", "INVALID_ARGUMENT"}),
  get_org_audit |-> Doc({"since", "actor_username", "command", "limit", "cursor"},
      {"AUTH_FAILED", "INVALID_ARGUMENT"}),
  get_org_metrics |-> Doc({}, {"AUTH_FAILED"})]

(* Groups and reputation. *)
GroupDocs == [
  create_group |-> Doc({"name"}, {"AUTH_FAILED", "INVALID_ARGUMENT"}),
  add_group_member |-> Doc({"group_id", "username"}, {"AUTH_FAILED", "GROUP_NOT_FOUND",
      "POLICY_DENIED", "RECIPIENT_NOT_FOUND", "USER_NOT_FOUND"}),
  remove_group_member |-> Doc({"group_id", "username"},
      {"ACCESS_DENIED", "AUTH_FAILED", "GROUP_NOT_FOUND"}),
  send_group_message |-> Doc({"group_id", "message", "client_message_id"}, {"AUTH_FAILED",
      "GROUP_NOT_FOUND", "INVALID_ARGUMENT", "POLICY_DENIED", "QUOTA_EXCEEDED"}),
  get_group_messages |-> Doc({"group_id", "limit", "cursor"},
      {"AUTH_FAILED", "GROUP_NOT_FOUND", "INVALID_ARGUMENT"}),
  get_group_members |-> Doc({"group_id"}, {"AUTH_FAILED", "GROUP_NOT_FOUND"}),
  list_my_groups |-> Doc(Page, {"AUTH_FAILED", "INVALID_ARGUMENT"}),
  get_agent_reputation |-> Doc({"username"}, {"AUTH_FAILED", "USER_NOT_FOUND"})]

(* Delegations, observers, help. *)
DelegationDocs == [
  create_delegation |-> Doc({"task_id", "delegatee_username", "expires_at"}, {"AUTH_FAILED",
      "INVALID_ARGUMENT", "RECIPIENT_NOT_FOUND", "TASK_NOT_FOUND", "USER_NOT_FOUND"}),
  revoke_delegation |-> Doc({"task_id", "delegatee_username"},
      {"AUTH_FAILED", "TASK_NOT_FOUND"}),
  get_my_delegations |-> Doc(Page, {"AUTH_FAILED", "INVALID_ARGUMENT"}),
  create_observer_account |-> Doc({"observer_name", "password", "description"},
      {"AUTH_FAILED", "INVALID_ARGUMENT", "USERNAME_ALREADY_EXISTS"}),
  revoke_observer_account |-> Doc({"observer_name"}, {"AUTH_FAILED", "USER_NOT_FOUND"}),
  list_observers |-> Doc({}, {"AUTH_FAILED"}),
  get_org_snapshot |-> Doc({}, {"ACCESS_DENIED", "AUTH_FAILED"}),
  get_server_status |-> Doc({}, {"AUTH_FAILED"}),
  help |-> Doc({"command_name"}, {"AUTH_FAILED", "INVALID_ARGUMENT", "UNKNOWN_COMMAND"})]

(* The documentation of every command. *)
Documentation == Merged({OrganizationDocs, HumanDocs, MessageDocs, CardDocs, TaskDocs, WorkDocs,
                         StructureDocs, GroupDocs, DelegationDocs})

(* The example of a command: its fields with the credentials; the optional *)
(* ones that are shown as null, and the one that is no identifier.         *)
ShownNull == {"cursor", "command_name", "due_before", "since", "actor_username", "command",
              "sender_username", "name_contains"}
Example(c) ==
  [p \in Documentation[c].fields \cup (IF CommandSpecs[c].org THEN OrgAuth ELSE MyAuth) |->
     CASE p \in ShownNull -> Null
       [] c = "get_messages" /\ p \in {"status", "conversation_id"} -> Null
       [] c = "list_tasks" /\ p \in {"assignee_username", "priority"} -> Null
       [] c = "find_agents" /\ p = "domain" -> Null
       [] c = "get_org_conversation" /\ p = "conversation_id" -> Str("alien")
       [] OTHER -> GoodValue(p)]
=============================================================================
