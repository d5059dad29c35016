---------------------------- MODULE ApiCommands ----------------------------
(***************************************************************************)
(* The contract of a request (src/synapse/validation.py): the commands,    *)
(* their parameters, the JSON values each validator accepts, and what      *)
(* validate_envelope makes of a request.                                   *)
(*                                                                         *)
(* A JSON value is its type and its form: "good" is a value the parameter  *)
(* is meant for, and the other forms are the ways a validator tells values *)
(* apart (too short, control characters, another letter case, ...).        *)
(***************************************************************************)
EXTENDS Naturals, FiniteSets, TLC

Null == [type |-> "null", form |-> "good"]
Str(f) == [type |-> "string", form |-> f]
Int(f) == [type |-> "integer", form |-> f]
Bool(f) == [type |-> "boolean", form |-> f]
List(f) == [type |-> "list", form |-> f]
Obj(f) == [type |-> "object", form |-> f]

(* The forms of each JSON type.  A string is "blank" (nothing left once    *)
(* trimmed), "spaced" (good between blanks), "upper" (good in upper case), *)
(* "alien" (outside the format or the enumeration, in ASCII), "accented"   *)
(* (the same with other letters), a lone "surrogate", or a list with one;  *)
(* those that are not "short" are long enough.  Integers are in increasing *)
(* order: below 1, up to 100, up to 3650, up to what a calendar date can subtract,*)
(* up to 2^63 - 1, and beyond.                                             *)
Forms == [
  string |-> {"good", "blank", "short", "long", "spaced", "upper", "alien", "accented",
              "control", "surrogate"},
  integer |-> {"none", "few", "many", "remote", "far", "huge"},
  boolean |-> {"yes", "no"},
  list |-> {"good", "empty", "long", "repeated", "alien", "nullItem", "flagItem", "itemType",
            "surrogate"},
  object |-> {"good", "keys", "agent", "hlc"}]

-----------------------------------------------------------------------------
(* The forms each validator lets through. *)

(* normalize_username, normalize_organization_name, normalize_department_name *)
NameForms == {"good", "upper"}
(* validate_password: at least 12 printable characters or spaces. *)
PasswordForms == {"good", "upper", "long", "blank", "spaced", "alien", "accented"}
(* Contents, descriptions, titles, cards, references: one bounded text. *)
TextForms == {"good", "upper", "short", "spaced", "alien", "accented"}
(* validate_client_message_id: an exact alphabet, no trimming. *)
IdentifierForms == {"good", "upper", "short"}
(* normalize_uuid: version 4, in either case. *)
UuidForms == {"good", "upper"}
(* validate_due_at: the exact format. *)
DateForms == {"good"}
(* Roles, states, priorities, statuses: the exact member of a set. *)
ChoiceForms == {"good"}
(* A parameter without a validator. *)
FreeForms == Forms.string
FlagForms == Forms.boolean
(* validate_budget, validate_positive_seconds: any integer from 1. *)
CountForms == {"few", "many", "remote", "far", "huge"}
DaysForms == {"few", "many"}
LimitForms == {"few"}
(* normalize_capabilities: 1 to 50 texts; repetitions are removed. *)
CapabilityForms == {"good", "repeated"}
(* normalize_tools: 0 to 50 texts. *)
ToolForms == {"good", "repeated", "empty"}
(* Both normalise each item with a function that lets None through, and    *)
(* assert that it did not.                                                 *)
ItemAsserted == {"nullItem"}
(* validate_depends_on: 0 to 20 identifiers. *)
IdListForms == {"good", "repeated", "empty"}
(* validate_event_types: 1 to 20 known types, kept as they are. *)
TypeListForms == {"good", "repeated"}
(* validate_deadline and validate_hlc *)
DeadlineForms == {"good"}
(* _validate_command_name: exactly a command. *)
CommandNameForms == {"good"}

(* JSON type, accepted forms and parameters of each kind of parameter. *)
Kinds == [
  name |-> [type |-> "string", accepts |-> NameForms, of |->
      {"username", "organization_name", "organization_name_auth", "department_name",
       "observer_name", "recipient_username", "other_username", "assignee_username",
       "approver_username", "delegatee_username", "escalate_to_username",
       "sender_username", "actor_username"}],
  password |-> [type |-> "string", accepts |-> PasswordForms, of |->
      {"password", "new_password", "organization_password"}],
  text |-> [type |-> "string", accepts |-> TextForms, of |->
      {"description", "message", "title", "result", "reason", "note", "name", "domain",
       "model", "sla", "limits", "estimated_cost", "capability", "name_contains",
       "business_reference"}],
  identifier |-> [type |-> "string", accepts |-> IdentifierForms, of |->
      {"client_message_id", "client_task_id"}],
  uuid |-> [type |-> "string", accepts |-> UuidForms, of |->
      {"conversation_id", "message_id", "task_id", "group_id"}],
  date |-> [type |-> "string", accepts |-> DateForms, of |->
      {"due_at", "due_before", "since", "expires_at"}],
  choice |-> [type |-> "string", accepts |-> ChoiceForms, of |->
      {"role", "principal_type", "status", "state", "new_state", "priority"}],
  secret |-> [type |-> "string", accepts |-> FreeForms, of |->
      {"my_name_auth", "my_password_auth", "organization_password_auth"}],
  free |-> [type |-> "string", accepts |-> FreeForms, of |-> {"cursor", "command"}],
  commandName |-> [type |-> "string", accepts |-> CommandNameForms, of |-> {"command_name"}],
  flag |-> [type |-> "boolean", accepts |-> FlagForms, of |->
      {"enabled", "can_see_org_agents", "allow_incoming_external",
       "allow_outgoing_external", "include_disabled"}],
  count |-> [type |-> "integer", accepts |-> CountForms, of |->
      {"max_active_tasks", "max_messages_per_hour", "due_after_seconds",
       "failed_after_seconds"}],
  days |-> [type |-> "integer", accepts |-> DaysForms, of |-> {"days"}],
  limit |-> [type |-> "integer", accepts |-> LimitForms, of |-> {"limit"}],
  capabilities |-> [type |-> "list", accepts |-> CapabilityForms, of |-> {"capabilities"}],
  tools |-> [type |-> "list", accepts |-> ToolForms, of |-> {"tools"}],
  ids |-> [type |-> "list", accepts |-> IdListForms, of |-> {"depends_on"}],
  types |-> [type |-> "list", accepts |-> TypeListForms, of |-> {"types"}],
  deadline |-> [type |-> "object", accepts |-> DeadlineForms, of |-> {"deadline"}]]

KindOf(p) == CHOOSE k \in DOMAIN Kinds : p \in Kinds[k].of

(* The value a caller means by a parameter, and every value it may send:   *)
(* the forms of its type and one value of another type.                    *)
GoodValue(p) == [type |-> Kinds[KindOf(p)].type,
                 form |-> CASE Kinds[KindOf(p)].type = "integer" -> "few"
                            [] Kinds[KindOf(p)].type = "boolean" -> "yes"
                            [] OTHER -> "good"]
ValuesOf(p) == LET type == Kinds[KindOf(p)].type
               IN  {[type |-> type, form |-> f] : f \in Forms[type]}
                   \cup {Null, IF type = "object" THEN List("good") ELSE Obj("good")}

(* What a validator makes of a value: the code it raises, or "ok".         *)
(* validate_envelope compares the types first; a failed assertion is no    *)
(* ApiError.                                                               *)
Verdict(p, required, v) ==
  LET kind == Kinds[KindOf(p)]
  IN  CASE v = Null -> IF required THEN "INVALID_ARGUMENT" ELSE "ok"
        [] v # Null /\ v.type # kind.type -> "INVALID_ARGUMENT"
        [] v # Null /\ v.type = kind.type /\ v.form \in kind.accepts -> "ok"
        [] OTHER ->
             IF p \in {"capabilities", "tools"} /\ v.form \in ItemAsserted
             THEN "INTERNAL_ERROR"
             ELSE IF p = "command_name" THEN "UNKNOWN_COMMAND" ELSE "INVALID_ARGUMENT"

(* The value a parameter that is not given takes. *)
Default(c, p) ==
  CASE p = "limit" -> Int("few")
    [] KindOf(p) = "flag" -> Bool("no")
    [] p \in {"tools", "depends_on"} -> List("empty")
    [] p = "principal_type" \/ (p = "priority" /\ c = "create_task") -> Str("good")
    [] OTHER -> Null

(* The validated value: lower case, trimmed, without repetitions. *)
Normal(c, p, v) ==
  CASE v = Null -> Default(c, p)
    [] v.form = "upper" /\ KindOf(p) \in {"name", "uuid"} -> Str("good")
    [] v.form = "spaced" /\ KindOf(p) = "text" -> Str("good")
    [] v.form = "repeated" /\ p # "types" -> List("good")
    [] OTHER -> v

-----------------------------------------------------------------------------
(* The parameters of every command: COMMAND_SPECS, section by section.     *)
Page == {"limit", "cursor"}
OrgAuth == {"organization_name_auth", "organization_password_auth"}
MyAuth == {"my_name_auth", "my_password_auth"}
Org(required, optional) ==
  [org |-> TRUE, required |-> required \cup OrgAuth, optional |-> optional]
Me(required, optional) ==
  [org |-> FALSE, required |-> required \cup MyAuth, optional |-> optional]

(* Accounts and policies, called by an organization. *)
OrganizationSpecs == [
  create_agent |-> Org({"username", "password", "description"},
      {"can_see_org_agents", "principal_type"}),
  deactivate_agent |-> Org({"username"}, {}),
  reactivate_agent |-> Org({"username"}, {}),
  change_agent_password |-> Org({"username", "new_password"}, {}),
  set_agent_visibility |-> Org({"username", "can_see_org_agents"}, {}),
  get_org_agents |-> Org({}, Page),
  set_organization_policy |-> Org({"allow_incoming_external", "allow_outgoing_external"}, {}),
  get_organization_policy |-> Org({}, {}),
  change_organization_password |-> Org({"new_password"}, {})]

(* Directory and messages, called by an account. *)
AgentSpecs == [
  get_my_organization |-> Me({}, {}),
  get_agent_description |-> Me({"username"}, {}),
  list_org_agents |-> Me({}, Page),
  send_message |-> Me({"recipient_username", "message", "client_message_id"},
      {"business_reference"}),
  get_messages |-> Me({}, {"status", "sender_username", "conversation_id", "limit", "cursor"}),
  get_conversation |-> Me({"other_username"}, Page),
  read_message |-> Me({"message_id"}, {}),
  get_notifications |-> Me({}, Page),
  mark_conversation_no_reply |-> Me({"conversation_id"}, {}),
  help |-> Me({}, {"command_name"})]

(* Cards of the agents. *)
CardSpecs == [
  set_agent_card |-> Me({"capabilities"},
      {"domain", "model", "tools", "sla", "limits", "estimated_cost"}),
  get_agent_card |-> Me({"username"}, {}),
  approve_agent_card |-> Org({"username"}, {}),
  find_agents |-> Me({}, {"capability", "domain", "name_contains", "limit", "cursor"})]

(* Tasks, approvals, events, budgets. *)
TaskSpecs == [
  create_task |-> Me({"title", "assignee_username"}, {"description", "priority", "due_at",
      "deadline", "depends_on", "business_reference", "client_task_id"}),
  get_task |-> Me({"task_id"}, {}),
  list_tasks |-> Me({},
      {"assignee_username", "state", "priority", "due_before", "limit", "cursor"}),
  update_task_state |-> Me({"task_id", "new_state"}, {"result"}),
  transfer_task |-> Me({"task_id", "assignee_username"}, {"note"}),
  request_approval |-> Me({"task_id", "approver_username"}, {}),
  approve_task |-> Me({"task_id"}, {}),
  reject_task |-> Me({"task_id"}, {"reason"}),
  get_my_work |-> Me({}, Page),
  get_events |-> Me({}, {"types", "limit", "cursor"}),
  set_escalation_policy |-> Org({"enabled", "due_after_seconds", "failed_after_seconds",
      "escalate_to_username"}, {}),
  get_escalation_policy |-> Org({}, {}),
  set_agent_budget |-> Org({"username"}, {"max_active_tasks", "max_messages_per_hour"}),
  set_event_retention_days |-> Org({"days"}, {})]

(* Departments, audit, metrics. *)
StructureSpecs == [
  create_department |-> Org({"department_name"}, {}),
  set_agent_department |-> Org({"username", "department_name", "role"}, {}),
  get_org_structure |-> Org({}, {}),
  list_department_tasks |-> Me({"department_name"}, Page),
  get_org_audit |-> Org({}, {"since", "actor_username", "command", "limit", "cursor"}),
  get_org_metrics |-> Org({}, {}),
  get_server_status |-> Org({}, {})]

(* Groups, reputation, delegations. *)
GroupSpecs == [
  create_group |-> Me({"name"}, {}),
  add_group_member |-> Me({"group_id", "username"}, {}),
  remove_group_member |-> Me({"group_id", "username"}, {}),
  send_group_message |-> Me({"group_id", "message"}, {"client_message_id"}),
  get_group_messages |-> Me({"group_id"}, Page),
  get_group_members |-> Me({"group_id"}, Page),
  list_my_groups |-> Me({}, Page),
  get_agent_reputation |-> Me({"username"}, {}),
  create_delegation |-> Me({"task_id", "delegatee_username", "expires_at"}, {}),
  revoke_delegation |-> Me({"task_id", "delegatee_username"}, {}),
  get_my_delegations |-> Me({}, Page)]

(* Observers and the snapshot. *)
ObserverSpecs == [
  create_observer_account |-> Org({"observer_name", "password", "description"}, {}),
  revoke_observer_account |-> Org({"observer_name"}, {}),
  list_observers |-> Org({}, {}),
  get_org_snapshot |-> Me({}, {})]

(* Commands of the human account and the listing of the organizations. *)
HumanSpecs == [
  create_org |-> Me({"organization_name", "organization_password"}, {}),
  disable_org |-> Me({"organization_name"}, {}),
  list_org_conversations |-> Me({}, Page),
  get_org_conversation |-> Me({"conversation_id"}, Page),
  change_agent_description |-> Org({"username", "description"}, {}),
  list_orgs |-> Me({}, {"include_disabled"})]

(* Tables of commands, none of them in two tables, as one table. *)
Merged(tables) ==
  [c \in UNION {DOMAIN t : t \in tables} |-> (CHOOSE t \in tables : c \in DOMAIN t)[c]]

CommandSpecs == Merged({OrganizationSpecs, AgentSpecs, CardSpecs, TaskSpecs, StructureSpecs,
                        GroupSpecs, ObserverSpecs, HumanSpecs})
Commands == DOMAIN CommandSpecs
FieldsOf(c) == CommandSpecs[c].required \cup CommandSpecs[c].optional

-----------------------------------------------------------------------------
(* A request is a text of some shape; when it is a JSON object with the    *)
(* three fields, it names a command and carries fields with values.  An    *)
(* unknown field or command may be named by a lone surrogate.              *)
Shapes == {"fine", "large", "empty", "utf8", "syntax", "duplicate", "nested",  \* the text
           "array", "envelope", "envelopeSurrogate", "version",               \* the object
           "unknown", "unknownSurrogate", "parameters"}

(* _read_line, parse_json_request and the first half of validate_envelope. *)
ShapeVerdict(shape) ==
  CASE shape = "fine" -> "ok"
    [] shape \in {"unknown", "unknownSurrogate"} -> "UNKNOWN_COMMAND"
    [] OTHER -> "INVALID_ARGUMENT"

(* validate_envelope: exactly the fields of the command, each one accepted *)
(* by its validator.  With one bad field the order of the fields does not  *)
(* matter.                                                                 *)
Validate(c, fields) ==
  LET bad == {p \in FieldsOf(c) :
                Verdict(p, p \in CommandSpecs[c].required, fields[p]) # "ok"}
  IN  IF DOMAIN fields # FieldsOf(c) THEN "INVALID_ARGUMENT"
      ELSE IF bad = {} THEN "ok"
      ELSE LET p == CHOOSE p \in bad : TRUE
           IN  Verdict(p, p \in CommandSpecs[c].required, fields[p])

Validated(c, fields) == [p \in FieldsOf(c) |-> Normal(c, p, fields[p])]
=============================================================================
