-------------------------------- MODULE Api --------------------------------
(***************************************************************************)
(* One request after the other through the service: a caller writes it     *)
(* (the client library, an example of the help, or a program of its own),  *)
(* the server reads and validates it, identifies the principal, admits or  *)
(* refuses the command, runs the handler in a transaction, records the     *)
(* audit row in a second one, and answers; it may die between two steps.   *)
(*                                                                         *)
(* What the handlers do to the data is in the other modules; here a        *)
(* handler changes something or not, audits itself or not, and refuses     *)
(* with one of its codes.  The one thing a command leaves behind for the   *)
(* next ones here is the escalation policy of the organization.            *)
(***************************************************************************)
EXTENDS ApiClients

CONSTANT Transports  \* "unix" and "tcp", the two local transports

(* How a handler works: it reads; it writes, and the dispatcher audits it; *)
(* it writes and audits in the same transaction.  Each with its refusals.  *)
Read(codes) == [writes |-> FALSE, recorded |-> FALSE, refuses |-> codes]
Write(codes) == [writes |-> TRUE, recorded |-> FALSE, refuses |-> codes]
Record(codes) == [writes |-> TRUE, recorded |-> TRUE, refuses |-> codes]

(* Accounts and policies of an organization. *)
AccountHandlers == [
  create_agent |-> Write({"INVALID_ARGUMENT", "USERNAME_ALREADY_EXISTS"}),
  deactivate_agent |-> Write({"ACCESS_DENIED", "USER_NOT_FOUND"}),
  reactivate_agent |-> Write({"USER_NOT_FOUND"}),
  change_agent_password |-> Write({"ACCESS_DENIED", "USER_NOT_FOUND"}),
  set_agent_visibility |-> Write({"USER_NOT_FOUND"}),
  get_org_agents |-> Read({"INVALID_ARGUMENT"}),
  set_organization_policy |-> Write({}),
  get_organization_policy |-> Read({}),
  change_organization_password |-> Write({}),
  change_agent_description |-> Write({"ACCESS_DENIED", "USER_NOT_FOUND"})]

(* The list of the organizations, their creation and deactivation. *)
OrganizationHandlers == [
  list_orgs |-> Read({}),
  create_org |-> Write({"INVALID_ARGUMENT"}),
  disable_org |-> Write({"ACCESS_DENIED", "INVALID_ARGUMENT"})]

(* The conversations of an organization, read by its human. *)
SupervisionHandlers == [
  list_org_conversations |-> Read({"INVALID_ARGUMENT"}),
  get_org_conversation |-> Read({"CONVERSATION_NOT_FOUND", "INVALID_ARGUMENT"})]

(* The directory. *)
DirectoryHandlers == [
  approve_agent_card |-> Write({"USER_NOT_FOUND"}),
  get_my_organization |-> Read({}),
  get_agent_description |-> Read({"USER_NOT_FOUND"}),
  list_org_agents |-> Read({"ACCESS_DENIED", "INVALID_ARGUMENT"})]

(* Help, cards and search. *)
CardHandlers == [
  help |-> Read({}),
  set_agent_card |-> Write({}),
  get_agent_card |-> Read({"USER_NOT_FOUND"}),
  find_agents |-> Read({"ACCESS_DENIED", "INVALID_ARGUMENT"})]

(* A message. *)
SendHandlers == [
  send_message |-> Write({"INVALID_ARGUMENT", "MESSAGE_ALREADY_EXISTS", "POLICY_DENIED",
      "QUOTA_EXCEEDED", "RECIPIENT_NOT_FOUND"})]

(* Mailboxes. *)
MessageHandlers == [
  get_messages |-> Read({"INVALID_ARGUMENT"}),
  get_conversation |-> Read({"CONVERSATION_NOT_FOUND", "INVALID_ARGUMENT"}),
  read_message |-> Write({"MESSAGE_NOT_FOUND"}),
  get_notifications |-> Read({"INVALID_ARGUMENT"}),
  mark_conversation_no_reply |-> Write({"INVALID_ARGUMENT"})]

(* Tasks. *)
TaskHandlers == [
  create_task |-> Record({"INVALID_ARGUMENT", "POLICY_DENIED", "QUOTA_EXCEEDED",
      "RECIPIENT_NOT_FOUND", "USER_NOT_FOUND"}),
  get_task |-> Read({"TASK_NOT_FOUND"}),
  list_tasks |-> Read({"INVALID_ARGUMENT"}),
  update_task_state |-> Record({"TASK_DEPENDENCY_NOT_MET", "TASK_NOT_FOUND",
      "TASK_STATE_INVALID"}),
  transfer_task |-> Record({"POLICY_DENIED", "QUOTA_EXCEEDED", "RECIPIENT_NOT_FOUND",
      "TASK_NOT_FOUND", "TASK_STATE_INVALID", "USER_NOT_FOUND"})]

(* Approvals, work and events. *)
ApprovalHandlers == [
  request_approval |-> Record({"INVALID_ARGUMENT", "RECIPIENT_NOT_FOUND", "TASK_NOT_FOUND",
      "TASK_STATE_INVALID", "USER_NOT_FOUND"}),
  approve_task |-> Record({"TASK_NOT_FOUND", "TASK_STATE_INVALID"}),
  reject_task |-> Record({"TASK_NOT_FOUND", "TASK_STATE_INVALID"}),
  get_my_work |-> Read({"INVALID_ARGUMENT"}),
  get_events |-> Read({"INVALID_ARGUMENT"})]

(* Retention, escalation, budgets. *)
PolicyHandlers == [
  set_event_retention_days |-> Record({}),
  set_escalation_policy |-> Record({"USER_NOT_FOUND"}),
  get_escalation_policy |-> Read({}),
  set_agent_budget |-> Record({"USER_NOT_FOUND"})]

(* Departments and roles. *)
StructureHandlers == [
  create_department |-> Write({"INVALID_ARGUMENT"}),
  set_agent_department |-> Write({"USER_NOT_FOUND"}),
  get_org_structure |-> Read({}),
  list_department_tasks |-> Read({"ACCESS_DENIED", "INVALID_ARGUMENT"})]

(* Audit, metrics, status. *)
OversightHandlers == [
  get_org_audit |-> Read({"INVALID_ARGUMENT"}),
  get_org_metrics |-> Read({}),
  get_server_status |-> Read({})]

(* Groups. *)
GroupHandlers == [
  create_group |-> Record({}),
  add_group_member |-> Record({"GROUP_NOT_FOUND", "POLICY_DENIED", "RECIPIENT_NOT_FOUND",
      "USER_NOT_FOUND"}),
  remove_group_member |-> Record({"ACCESS_DENIED", "GROUP_NOT_FOUND"}),
  send_group_message |-> Record({"GROUP_NOT_FOUND", "POLICY_DENIED", "QUOTA_EXCEEDED"})]

(* Reading groups; reputation. *)
MemberHandlers == [
  get_group_messages |-> Read({"GROUP_NOT_FOUND", "INVALID_ARGUMENT"}),
  get_group_members |-> Read({"GROUP_NOT_FOUND"}),
  list_my_groups |-> Read({"INVALID_ARGUMENT"}),
  get_agent_reputation |-> Read({"USER_NOT_FOUND"})]

(* Delegations. *)
DelegationHandlers == [
  create_delegation |-> Record({"INVALID_ARGUMENT", "POLICY_DENIED", "RECIPIENT_NOT_FOUND",
      "TASK_NOT_FOUND", "USER_NOT_FOUND"}),
  revoke_delegation |-> Record({"TASK_NOT_FOUND"}),
  get_my_delegations |-> Read({"INVALID_ARGUMENT"})]

(* Observers and the snapshot. *)
ObserverHandlers == [
  create_observer_account |-> Record({"USERNAME_ALREADY_EXISTS"}),
  revoke_observer_account |-> Record({"USER_NOT_FOUND"}),
  list_observers |-> Read({}),
  get_org_snapshot |-> Read({"ACCESS_DENIED"})]

(* The handlers of the commands. *)
Handlers == Merged({AccountHandlers, OrganizationHandlers, SupervisionHandlers,
                    DirectoryHandlers, CardHandlers, SendHandlers, MessageHandlers, TaskHandlers,
                    ApprovalHandlers, PolicyHandlers, StructureHandlers, OversightHandlers,
                    GroupHandlers, MemberHandlers, DelegationHandlers, ObserverHandlers})

(* _AUDITED_COMMANDS: the commands the dispatcher audits. *)
AuditedButDepartments ==
  {c \in Commands : Handlers[c].writes /\ ~Handlers[c].recorded} \ {"set_agent_department"}
Audited ==
  {"create_agent", "deactivate_agent", "reactivate_agent", "change_agent_password",
   "set_agent_visibility", "set_organization_policy", "change_organization_password",
   "change_agent_description", "send_message", "read_message",
   "mark_conversation_no_reply", "set_agent_card", "approve_agent_card",
   "create_department", "set_agent_department", "create_org", "disable_org",
   "get_org_conversation"}

(* _OBSERVER_READ_COMMANDS *)
ObserverReads ==
  {"get_my_organization", "get_agent_description", "list_org_agents", "get_messages",
   "get_conversation", "get_notifications", "help", "get_agent_card", "find_agents",
   "get_task", "list_tasks", "get_my_work", "get_events", "get_group_messages",
   "get_group_members", "list_my_groups", "get_agent_reputation", "get_my_delegations",
   "get_org_snapshot"}

(* _HUMAN_HANDLERS *)
HumanCommands == {"create_org", "disable_org", "list_org_conversations",
                  "get_org_conversation"}

(* The commands that end with _check_escalations. *)
Escalating == {"create_task", "update_task_state", "transfer_task"}

Principals == {"organization", "agent", "human", "observer", "web", "nobody"}
Accounts == {"agent", "human", "observer"}
Usual(c) == IF CommandSpecs[c].org THEN "organization"
            ELSE IF c \in HumanCommands \cup {"list_orgs"} THEN "human" ELSE "agent"

-----------------------------------------------------------------------------
(* stage     where the request is                                          *)
(* call      the request                                                   *)
(* params    its validated parameters                                      *)
(* answer    the code the service answers with, and the step it comes from *)
(* changed   the handler committed a change; audited: with an audit row    *)
(* result    what the caller got from its last request                     *)
(* policy    the escalation policy: "off", "near" or with a delay too far  *)
(* transport, up   the transport, and whether the server runs              *)
VARIABLES stage, call, params, answer, changed, audited, result, policy, transport, up
vars == <<stage, call, params, answer, changed, audited, result, policy, transport, up>>

NoCall == [command |-> "help", who |-> "nobody", via |-> "none", shape |-> "fine",
           fields |-> <<>>]
NoAnswer == [code |-> "none", by |-> "nobody"]
Said(code, by) == [code |-> code, by |-> by]

Init == /\ stage = "idle" /\ call = NoCall /\ params = <<>> /\ answer = NoAnswer
        /\ changed = FALSE /\ audited = FALSE
        /\ result = "none" /\ policy = "off" /\ transport \in Transports /\ up = TRUE

-----------------------------------------------------------------------------
(* A caller.  At most one parameter differs from what it is meant for, and *)
(* the parameters a caller varies are those of its own commands and, for   *)
(* every principal, the credentials.                                       *)
Varies(c, w, p) == p \in OrgAuth \cup MyAuth \/ w = Usual(c)

Good(c, given) == [p \in given |-> GoodValue(p)]

(* The arguments of a call: the required ones, and one varied. *)
Arguments(c, w) ==
  {Good(c, Methods[c].required)}
  \cup UNION {{(p :> v) @@ Good(c, Methods[c].required) : v \in ValuesOf(p)} :
              p \in {q \in FieldsOf(c) : Varies(c, w, q)}}

Goes(c, w, via, shape, fields) ==
  /\ stage' = "sent"
  /\ call' = [command |-> c, who |-> w, via |-> via, shape |-> shape, fields |-> fields]
  /\ result' = "none"
  /\ UNCHANGED <<params, answer, changed, audited, policy, transport, up>>

Unsent(outcome) ==
  /\ result' = outcome
  /\ UNCHANGED <<stage, call, params, answer, changed, audited, policy, transport, up>>

HoldsSurrogate(fields) == \E p \in DOMAIN fields : fields[p].form = "surrogate"

(* Client.request: the envelope is encoded (a lone surrogate has no UTF-8),*)
(* and its size checked, before the service is contacted.                  *)
ClientCall(c, w, args) ==
  /\ up
  /\ ~HoldsSurrogate(Sends(c, args))
  /\ Goes(c, w, "client", "fine", Sends(c, args))

ClientCannotEncode(c, w, args) == HoldsSurrogate(Sends(c, args)) /\ Unsent("raised")
ClientTooLarge == Unsent("transport")

(* Client._transact: no server.  On TCP the connection is opened before    *)
(* the try that turns errors into ClientTransportError.                    *)
ClientUnreachable ==
  /\ ~up
  /\ Unsent(IF transport = "tcp" THEN "oserror" ELSE "transport")

(* An example of the help, sent as it is printed. *)
ExampleCall(c) ==
  /\ up
  /\ Goes(c, Usual(c), "help", "fine", Example(c))

(* A program of its own: a text that is no request, or a request with its  *)
(* exact fields, one of them varied, or with a field too few or too many,  *)
(* which a lone surrogate may name.                                        *)
RawCall(c, w, shape, fields) ==
  /\ up
  /\ Goes(c, w, "raw", shape, fields)

RawFields(c, w) ==
  LET whole == [p \in FieldsOf(c) |-> GoodValue(p)]
  IN  {whole, ("extra" :> Null) @@ whole, ("surrogate" :> Null) @@ whole}
      \cup {[q \in FieldsOf(c) \ {p} |-> GoodValue(q)] : p \in FieldsOf(c)}
      \cup UNION {{[whole EXCEPT ![p] = v] : v \in ValuesOf(p)} :
                  p \in {q \in FieldsOf(c) : Varies(c, w, q)}}

-----------------------------------------------------------------------------
(* The service. *)
Answers(code, by) == stage' = "answering" /\ answer' = Said(code, by)
Quiet == UNCHANGED <<call, result, transport, up>>

(* _read_line, parse_json_request and validate_envelope. *)
ReadRequest ==
  /\ stage = "sent"
  /\ LET verdict == IF call.shape # "fine" THEN ShapeVerdict(call.shape)
                    ELSE Validate(call.command, call.fields)
     IN  IF verdict = "ok"
         THEN stage' = "valid" /\ params' = Validated(call.command, call.fields)
              /\ UNCHANGED answer
         ELSE Answers(verdict, "envelope") /\ UNCHANGED params
  /\ Quiet /\ UNCHANGED <<changed, audited, policy>>

Secret(c) == IF CommandSpecs[c].org THEN "organization_password_auth" ELSE "my_password_auth"
Name(c) == IF CommandSpecs[c].org THEN "organization_name_auth" ELSE "my_name_auth"

(* Comparing with the web token, which only takes ASCII: the humans, the   *)
(* organizations and the web interface, once the password is not theirs.   *)
ComparedWithToken(c, w) ==
  \/ w \in {"web", "human"} /\ ~CommandSpecs[c].org
  \/ w = "organization" /\ CommandSpecs[c].org

(* _authenticate and _authenticate_organization: a name in another case is *)
(* the same name; an unknown name and a wrong password fail alike; an      *)
(* account is told that it cannot act as an organization.  Storage, Argon2 *)
(* and SHA-256 take no lone surrogate.                                     *)
Identity(c, w, fields) ==
  LET known == fields[Name(c)].form \in {"good", "upper"}
      right == fields[Secret(c)].form = "good"
      able == IF CommandSpecs[c].org THEN w = "organization" ELSE w \in Accounts \cup {"web"}
  IN  CASE fields[Name(c)].form = "surrogate" \/ fields[Secret(c)].form = "surrogate" ->
             "INTERNAL_ERROR"
        [] known /\ CommandSpecs[c].org /\ w \in Accounts -> "ACCESS_DENIED"
        [] known /\ able /\ right -> "ok"
        [] known /\ able /\ ComparedWithToken(c, w) /\ fields[Secret(c)].form = "accented" ->
             "INTERNAL_ERROR"
        [] OTHER -> "AUTH_FAILED"

Authenticate ==
  /\ stage = "valid"
  /\ LET code == Identity(call.command, call.who, params)
     IN  IF code = "ok" THEN stage' = "known" /\ UNCHANGED answer ELSE Answers(code, "access")
  /\ Quiet /\ UNCHANGED <<params, changed, audited, policy>>

(* _dispatch: observers only read, the listing of the organizations is for *)
(* the web interface and humans, the web interface has one other power,    *)
(* and some commands are reserved for humans.                              *)
AdmittedAnyObserver(c, w) ==
  \/ CommandSpecs[c].org
  \/ c = "list_orgs" /\ w \in {"web", "human"}
  \/ c # "list_orgs" /\ w = "web" /\ c = "create_org"
  \/ c # "list_orgs" /\ w # "web" /\ (c \in HumanCommands => w = "human")
Admitted(c, w) ==
  \/ CommandSpecs[c].org
  \/ /\ w = "observer" => c \in ObserverReads
     /\ \/ c = "list_orgs" /\ w \in {"web", "human"}
        \/ c # "list_orgs" /\ w = "web" /\ c = "create_org"
        \/ c # "list_orgs" /\ w # "web" /\ (c \in HumanCommands => w = "human")

Dispatch ==
  /\ stage = "known"
  /\ IF Admitted(call.command, call.who) THEN stage' = "admitted" /\ UNCHANGED answer
     ELSE Answers("ACCESS_DENIED", "access")
  /\ Quiet /\ UNCHANGED <<params, changed, audited, policy>>

(* The handler refuses; nothing is committed. *)
Refuse(code) ==
  /\ stage = "admitted"
  /\ code \in Handlers[call.command].refuses
  /\ Answers(code, "handler")
  /\ Quiet /\ UNCHANGED <<params, changed, audited, policy>>

GivenAs(p, forms) == p \in DOMAIN params /\ params[p] # Null /\ params[p].form \in forms

(* A cursor the handler decodes, that none of the service's is. *)
BadCursor ==
  /\ "INVALID_ARGUMENT" \in Handlers[call.command].refuses
  /\ GivenAs("cursor", Forms.string \ {"good"})

(* What storage and hashing raise and no one catches: an integer SQLite    *)
(* has no room for, a lone surrogate, a cursor that is not ASCII.          *)
Unstorable ==
  \/ \E p \in Kinds.count.of : GivenAs(p, {"huge"})
  \/ call.command = "get_org_audit" /\ GivenAs("command", {"surrogate"})
  \/ BadCursor /\ GivenAs("cursor", {"accented", "surrogate"})
Raise ==
  /\ stage = "admitted"
  /\ Unstorable
  /\ Answers("INTERNAL_ERROR", "handler")
  /\ Quiet /\ UNCHANGED <<params, changed, audited, policy>>

(* _check_escalations, at the end of the transaction of a task command:    *)
(* when the target of the policy is active, it subtracts the delays from   *)
(* the current date, and a date before the year 1 cannot be computed.      *)
EscalationRaises ==
  /\ stage = "admitted"
  /\ call.command \in Escalating /\ policy = "far"
  /\ Answers("INTERNAL_ERROR", "escalation")
  /\ Quiet /\ UNCHANGED <<params, changed, audited, policy>>

(* _org_set_escalation_policy stores the delays as they were validated. *)
NewPolicy ==
  IF params["enabled"].form = "no" THEN "off"
  ELSE IF GivenAs("due_after_seconds", {"far"}) \/ GivenAs("failed_after_seconds", {"far"})
  THEN "far" ELSE "near"

(* The handler succeeds; its transaction commits with its own audit row if *)
(* it writes one.  The escalation is skipped when its target is inactive   *)
(* or the task belongs to another organization.                            *)
Handle ==
  /\ stage = "admitted"
  /\ ~Unstorable /\ ~BadCursor
  /\ stage' = "handled"
  /\ changed' = Handlers[call.command].writes
  /\ audited' = Handlers[call.command].recorded
  /\ policy' = IF call.command = "set_escalation_policy" THEN NewPolicy ELSE policy
  /\ Quiet /\ UNCHANGED <<params, answer>>

(* _audit_action, in a second transaction; the web interface's own calls   *)
(* return before it.                                                       *)
Audit ==
  /\ stage = "handled"
  /\ audited' = (audited \/ (call.command \in Audited /\ call.who # "web"))
  /\ Answers("ok", "handler")
  /\ Quiet /\ UNCHANGED <<params, changed, policy>>

(* The second transaction does not get the write lock in time. *)
AuditFails ==
  /\ stage = "handled"
  /\ call.command \in Audited /\ call.who # "web"
  /\ Answers("INTERNAL_ERROR", "audit")
  /\ Quiet /\ UNCHANGED <<params, changed, audited, policy>>

-----------------------------------------------------------------------------
(* The answer, and what the caller makes of it (Client.request and         *)
(* _parse_response).                                                       *)
Ends(outcome) ==
  /\ stage' = "idle" /\ call' = NoCall /\ params' = <<>> /\ answer' = NoAnswer
  /\ changed' = FALSE /\ audited' = FALSE
  /\ result' = outcome
  /\ UNCHANGED <<policy, transport>>

(* The messages about an unknown command, in the envelope or asked of the  *)
(* help, an unknown field and an unknown type of events repeat it.         *)
Encodable ==
  answer.by = "envelope" =>
    /\ call.shape \notin {"unknownSurrogate", "envelopeSurrogate"}
    /\ "surrogate" \notin DOMAIN call.fields
    /\ \A p \in DOMAIN call.fields \cap {"command_name", "types"} :
         call.fields[p].form # "surrogate"

Deliver ==
  /\ stage = "answering" /\ Encodable
  /\ Ends(IF answer.code = "ok" THEN "data" ELSE "error") /\ UNCHANGED up

(* _write_response cannot encode the answer: the handler of the connection *)
(* ends, and the caller reads the end of the stream.                       *)
Dropped ==
  /\ stage = "answering" /\ ~Encodable
  /\ Ends("transport") /\ UNCHANGED up

(* The server dies; a caller that waits reads the end of the stream. *)
ServerDies ==
  /\ up /\ up' = FALSE
  /\ IF stage = "idle"
     THEN UNCHANGED <<stage, call, params, answer, changed, audited, result, policy, transport>>
     ELSE Ends("transport")
ServerStarts ==
  /\ ~up /\ up' = TRUE
  /\ UNCHANGED <<stage, call, params, answer, changed, audited, result, policy, transport>>

Caller ==
  /\ stage = "idle"
  /\ \/ \E c \in Commands, w \in Principals : \E args \in Arguments(c, w) :
          ClientCall(c, w, args) \/ ClientCannotEncode(c, w, args)
     \/ ClientTooLarge
     \/ ClientUnreachable
     \/ \E c \in Commands : ExampleCall(c)
     \/ \E c \in Commands, w \in Principals : \E fields \in RawFields(c, w) :
          RawCall(c, w, "fine", fields)
     \/ \E shape \in Shapes \ {"fine"} : RawCall("help", "agent", shape, Good("help", MyAuth))

Server ==
  \/ ReadRequest \/ Authenticate \/ Dispatch
  \/ stage = "admitted" /\ \E code \in Handlers[call.command].refuses : Refuse(code)
  \/ Raise \/ EscalationRaises \/ Handle \/ Audit \/ AuditFails
  \/ Deliver \/ Dropped \/ ServerDies \/ ServerStarts

Next == Caller \/ Server
Spec == Init /\ [][Next]_vars

-----------------------------------------------------------------------------
(* A call of the client library whose arguments are what they are meant    *)
(* for is never refused by the envelope: the client sends exactly the      *)
(* fields the service declares, in values it accepts, for every command.   *)
Meant(c, fields) ==
  \A p \in DOMAIN fields :
    \/ fields[p] = GoodValue(p)
    \/ p \in Methods[c].optional /\ fields[p] \in {Null, MethodDefault(c, p)}
    \/ p \in {"tools", "depends_on"} /\ fields[p] = List("empty")
ClientCallsAccepted ==
  call.via = "client" /\ answer.by = "envelope" => ~Meant(call.command, call.fields)

(* Whatever was changed on behalf of an account or an organization is in   *)
(* the audit by the time the caller is told that it succeeded, whether the *)
(* handler audits itself or leaves it to the dispatcher; only the local    *)
(* web interface creates organizations without a trace.                    *)
ChangesAudited ==
  answer.code = "ok" /\ changed /\ call.who # "web" => audited

(* Whoever changed something was entitled to: not an observer, not a       *)
(* caller that is nobody; the web interface only to create an organization;*)
(* an organization by its own commands only, and accounts by the others.   *)
ChangesEntitled ==
  changed => /\ call.who \notin {"observer", "nobody"}
             /\ call.who = "web" => call.command = "create_org"
             /\ CommandSpecs[call.command].org = (call.who = "organization")
             /\ call.command \in HumanCommands => call.who \in {"human", "web"}

-----------------------------------------------------------------------------
(* Statements of the documentation that the code does not keep. *)

(* The escalation must not raise: it runs inside the caller's transaction  *)
(* and would fail the triggering command (comment in _check_escalations).  *)
EscalationNeverRaises == answer.by # "escalation"

(* An example of the help is a full JSON envelope (_section_examples): the *)
(* envelope accepts it.                                                    *)
ExamplesAccepted == call.via = "help" => answer.by # "envelope"

(* The codes of a refusal by a handler are among those the help lists.     *)
RefusalsDocumented ==
  answer.by = "handler" /\ answer.code \notin {"ok", "INTERNAL_ERROR"}
    => answer.code \in Documentation[call.command].codes

(* An unreachable service is a ClientTransportError (its docstring).       *)
UnreachableIsTransport == result # "oserror"

(* A change and its audit row are in one transaction (docstring of the     *)
(* audit store): there is no moment between them.                          *)
ChangedIsAudited == changed /\ call.who # "web" => audited

(* A wrong password is AUTH_FAILED (docstring of the authentication).      *)
WrongPasswordRefused == ~(answer.by = "access" /\ answer.code = "INTERNAL_ERROR")
=============================================================================
