----------------------------- MODULE ApiProofs -----------------------------
(***************************************************************************)
(* Proofs about the contract of the service, for all its commands, its     *)
(* callers and any sequence of requests, refusals, errors and deaths of    *)
(* the server: the envelope accepts what the client library sends; whoever *)
(* changed something was entitled to; and the change is in the audit when  *)
(* the caller is told of its success.                                      *)
(*                                                                         *)
(* The first part goes through the tables of the commands, one by one; the *)
(* second through the steps of a request.                                  *)
(***************************************************************************)
EXTENDS Api, TLAPS

-----------------------------------------------------------------------------
(* The inductive invariant.                                                *)

\* Whom _authenticate and _authenticate_organization let through.
Able(c, w) ==
  IF CommandSpecs[c].org THEN w = "organization" ELSE w \in Accounts \cup {"web"}

\* A request names a command, and one of the client library is well shaped and
\* has the parameters of its method.
Requested ==
  /\ call.command \in Commands
  /\ call.via = "client" =>
       /\ call.shape = "fine"
       /\ DOMAIN call.fields = Methods[call.command].required \cup Methods[call.command].optional

\* What the steps before have established of the caller.
Checked ==
  /\ stage \in {"known", "admitted", "handled"} => Able(call.command, call.who)
  /\ stage \in {"admitted", "handled"} => Admitted(call.command, call.who)

\* What the handler has done, and that there is no answer before the last step.
Done ==
  /\ stage # "answering" => answer = NoAnswer
  /\ changed => stage \in {"handled", "answering"}
  /\ stage = "handled" => /\ changed = Handlers[call.command].writes
                          /\ audited = Handlers[call.command].recorded

\* The inductive invariant: with these three the properties are kept by each step.
IInv == Requested /\ Checked /\ Done /\ ClientCallsAccepted /\ ChangesAudited /\ ChangesEntitled

-----------------------------------------------------------------------------
(* The parameters and their validators.                                    *)

\* The parameters that some validator is for.
Parameters == UNION {Kinds[k].of : k \in DOMAIN Kinds}

\* A validator lets through the value its parameters are meant for.
LEMMA KindsAccept ==
  \A k \in DOMAIN Kinds :
    /\ Kinds[k].type = "integer" => "few" \in Kinds[k].accepts
    /\ Kinds[k].type = "boolean" => "yes" \in Kinds[k].accepts
    /\ Kinds[k].type \notin {"integer", "boolean"} => "good" \in Kinds[k].accepts
    /\ Kinds[k].type # "null"
BY DEF Kinds, NameForms, PasswordForms, TextForms, IdentifierForms, UuidForms, DateForms,
       ChoiceForms, FreeForms, Forms, FlagForms, CountForms, DaysForms, LimitForms,
       CapabilityForms, ToolForms, IdListForms, TypeListForms, DeadlineForms, CommandNameForms

\* The parameters with a default of their own have one validator each.
LEMMA KindsApart ==
  \A k \in DOMAIN Kinds :
    /\ "tools" \in Kinds[k].of => k = "tools"
    /\ "depends_on" \in Kinds[k].of => k = "ids"
    /\ "limit" \in Kinds[k].of => k = "limit"
    /\ "can_see_org_agents" \in Kinds[k].of => k = "flag"
    /\ "include_disabled" \in Kinds[k].of => k = "flag"
<1>1. \A k \in DOMAIN Kinds : "tools" \in Kinds[k].of => k = "tools"
  BY DEF Kinds
<1>2. \A k \in DOMAIN Kinds : "depends_on" \in Kinds[k].of => k = "ids"
  BY DEF Kinds
<1>3. \A k \in DOMAIN Kinds : "limit" \in Kinds[k].of => k = "limit"
  BY DEF Kinds
<1>4. \A k \in DOMAIN Kinds : "can_see_org_agents" \in Kinds[k].of => k = "flag"
  BY DEF Kinds
<1>5. \A k \in DOMAIN Kinds : "include_disabled" \in Kinds[k].of => k = "flag"
  BY DEF Kinds
<1> QED
  BY <1>1, <1>2, <1>3, <1>4, <1>5

\* The validator of a parameter is one that is for it.
LEMMA KindIs ==
  \A p \in Parameters : KindOf(p) \in DOMAIN Kinds /\ p \in Kinds[KindOf(p)].of
BY DEF Parameters, KindOf

\* The parameters, validator by validator.
LEMMA ParametersAre ==
  /\ Kinds.name.of \subseteq Parameters
  /\ Kinds.password.of \subseteq Parameters
  /\ Kinds.text.of \subseteq Parameters
  /\ Kinds.identifier.of \subseteq Parameters
  /\ Kinds.uuid.of \subseteq Parameters
  /\ Kinds.date.of \subseteq Parameters
  /\ Kinds.choice.of \subseteq Parameters
  /\ Kinds.secret.of \subseteq Parameters
  /\ Kinds.free.of \subseteq Parameters
  /\ Kinds.commandName.of \subseteq Parameters
  /\ Kinds.flag.of \subseteq Parameters
  /\ Kinds.count.of \subseteq Parameters
  /\ Kinds.days.of \subseteq Parameters
  /\ Kinds.limit.of \subseteq Parameters
  /\ Kinds.capabilities.of \subseteq Parameters
  /\ Kinds.tools.of \subseteq Parameters
  /\ Kinds.ids.of \subseteq Parameters
  /\ Kinds.types.of \subseteq Parameters
  /\ Kinds.deadline.of \subseteq Parameters
<1>1. DOMAIN Kinds = {"name", "password", "text", "identifier", "uuid", "date", "choice",
                      "secret", "free", "commandName", "flag", "count", "days", "limit",
                      "capabilities", "tools", "ids", "types", "deadline"}
  BY DEF Kinds
<1> QED
  BY <1>1 DEF Parameters

-----------------------------------------------------------------------------
(* The tables of the commands.                                             *)

\* The tables that make the specifications, the methods and the handlers.
SpecTables == {OrganizationSpecs, AgentSpecs, CardSpecs, TaskSpecs, StructureSpecs,
               GroupSpecs, ObserverSpecs, HumanSpecs}
CallTables == {OrganizationCalls, HumanCalls, AgentCalls, CardCalls, TaskCalls, FlowCalls,
               StructureCalls, GroupCalls, DelegationCalls}
HandlerTables == {AccountHandlers, OrganizationHandlers, SupervisionHandlers,
                  DirectoryHandlers, CardHandlers, SendHandlers, MessageHandlers,
                  TaskHandlers, ApprovalHandlers, PolicyHandlers, StructureHandlers,
                  OversightHandlers, GroupHandlers, MemberHandlers, DelegationHandlers,
                  ObserverHandlers}

LEMMA TablesAre ==
  /\ CommandSpecs = Merged(SpecTables)
  /\ Methods = Merged(CallTables)
  /\ Handlers = Merged(HandlerTables)
BY DEF CommandSpecs, Methods, Handlers, SpecTables, CallTables, HandlerTables

\* A table made of several has their commands, each with what one of them says.
LEMMA MergedAre ==
  ASSUME NEW tables
  PROVE  /\ \A t \in tables : DOMAIN t \subseteq DOMAIN Merged(tables)
         /\ \A c \in DOMAIN Merged(tables) :
              \E t \in tables : c \in DOMAIN t /\ Merged(tables)[c] = t[c]
BY DEF Merged

\* How the handlers write and audit fits with whom they are reserved to and with
\* what the dispatcher audits: a handler that writes and leaves the audit row to
\* the dispatcher is of a command in _AUDITED_COMMANDS, none of the commands of
\* _OBSERVER_READ_COMMANDS writes, and none refuses with a success.
THEOREM HandlersMatchDispatcher ==
  \A c \in DOMAIN Handlers :
    /\ Handlers[c].writes /\ ~ Handlers[c].recorded => c \in Audited
    /\ c \in ObserverReads \cup {"list_orgs"} => ~ Handlers[c].writes
    /\ "ok" \notin Handlers[c].refuses
<1> DEFINE Fits(c, h) == /\ h.writes /\ ~ h.recorded => c \in Audited
                         /\ c \in ObserverReads \cup {"list_orgs"} => ~ h.writes
                         /\ "ok" \notin h.refuses
           Sound(t) == \A c \in DOMAIN t : Fits(c, t[c])
<1>1. \A t \in HandlerTables : Sound(t)
  <2> USE DEF Read, Write, Record, Audited, ObserverReads
  <2>1. Sound(AccountHandlers)
    BY DEF AccountHandlers
  <2>2. Sound(OrganizationHandlers)
    BY DEF OrganizationHandlers
  <2>3. Sound(SupervisionHandlers)
    BY DEF SupervisionHandlers
  <2>4. Sound(DirectoryHandlers)
    BY DEF DirectoryHandlers
  <2>5. Sound(CardHandlers)
    BY DEF CardHandlers
  <2>6. Sound(SendHandlers)
    BY DEF SendHandlers
  <2>7. Sound(MessageHandlers)
    BY DEF MessageHandlers
  <2>8. Sound(TaskHandlers)
    BY DEF TaskHandlers
  <2>9. Sound(ApprovalHandlers)
    BY DEF ApprovalHandlers
  <2>10. Sound(PolicyHandlers)
    BY DEF PolicyHandlers
  <2>11. Sound(StructureHandlers)
    BY DEF StructureHandlers
  <2>12. Sound(OversightHandlers)
    BY DEF OversightHandlers
  <2>13. Sound(GroupHandlers)
    BY DEF GroupHandlers
  <2>14. Sound(MemberHandlers)
    BY DEF MemberHandlers
  <2>15. Sound(DelegationHandlers)
    BY DEF DelegationHandlers
  <2>16. Sound(ObserverHandlers)
    BY DEF ObserverHandlers
  <2> HIDE DEF Sound
  <2> QED
    BY <2>1, <2>2, <2>3, <2>4, <2>5, <2>6, <2>7, <2>8, <2>9, <2>10, <2>11, <2>12, <2>13,
       <2>14, <2>15, <2>16 DEF HandlerTables
<1> QED
  BY <1>1, TablesAre, MergedAre DEF Sound

\* Each command has a handler.
LEMMA AllHandled == Commands \subseteq DOMAIN Handlers
<1> DEFINE Covered(t) == DOMAIN t \subseteq DOMAIN Handlers
<1>1. \A t \in HandlerTables : Covered(t)
  BY TablesAre, MergedAre
<1>2. /\ Covered(AccountHandlers)
      /\ Covered(OrganizationHandlers)
      /\ Covered(SupervisionHandlers)
      /\ Covered(DirectoryHandlers)
      /\ Covered(CardHandlers)
      /\ Covered(SendHandlers)
      /\ Covered(MessageHandlers)
      /\ Covered(TaskHandlers)
      /\ Covered(ApprovalHandlers)
      /\ Covered(PolicyHandlers)
      /\ Covered(StructureHandlers)
      /\ Covered(OversightHandlers)
      /\ Covered(GroupHandlers)
      /\ Covered(MemberHandlers)
      /\ Covered(DelegationHandlers)
      /\ Covered(ObserverHandlers)
  BY <1>1 DEF HandlerTables
<1>3. \A t \in SpecTables : Covered(t)
  <2> USE DEF AccountHandlers, OrganizationHandlers, SupervisionHandlers,
              DirectoryHandlers, CardHandlers, SendHandlers, MessageHandlers,
              TaskHandlers, ApprovalHandlers, PolicyHandlers, StructureHandlers,
              OversightHandlers, GroupHandlers, MemberHandlers, DelegationHandlers,
              ObserverHandlers
  <2>1. Covered(OrganizationSpecs)
    BY <1>2 DEF OrganizationSpecs
  <2>2. Covered(AgentSpecs)
    BY <1>2 DEF AgentSpecs
  <2>3. Covered(CardSpecs)
    BY <1>2 DEF CardSpecs
  <2>4. Covered(TaskSpecs)
    BY <1>2 DEF TaskSpecs
  <2>5. Covered(StructureSpecs)
    BY <1>2 DEF StructureSpecs
  <2>6. Covered(GroupSpecs)
    BY <1>2 DEF GroupSpecs
  <2>7. Covered(ObserverSpecs)
    BY <1>2 DEF ObserverSpecs
  <2>8. Covered(HumanSpecs)
    BY <1>2 DEF HumanSpecs
  <2> HIDE DEF Covered
  <2> QED
    BY <2>1, <2>2, <2>3, <2>4, <2>5, <2>6, <2>7, <2>8 DEF SpecTables
<1> QED
  BY <1>3, TablesAre, MergedAre DEF Commands

\* No command of the human account, and not the listing of the organizations,
\* is an organization's; no parameter is both required and optional, and each
\* has a validator.
LEMMA SpecsFit ==
  \A c \in Commands :
    /\ CommandSpecs[c].org \in BOOLEAN
    /\ c \in HumanCommands \cup {"list_orgs"} => ~ CommandSpecs[c].org
    /\ CommandSpecs[c].required \cap CommandSpecs[c].optional = {}
    /\ FieldsOf(c) \subseteq Parameters
<1> DEFINE Fits(c, s) == /\ s.org = TRUE \/ s.org = FALSE
                         /\ c \in HumanCommands \cup {"list_orgs"} => ~ s.org
                         /\ s.required \cap s.optional = {}
                         /\ s.required \cup s.optional \subseteq Parameters
           Sound(t) == \A c \in DOMAIN t : Fits(c, t[c])
<1>1. \A t \in SpecTables : Sound(t)
  <2> USE ParametersAre DEF Org, Me, OrgAuth, MyAuth, Page, HumanCommands
  <2>1. Sound(OrganizationSpecs)
    BY DEF OrganizationSpecs, Kinds
  <2>2. Sound(AgentSpecs)
    BY SMTT(30) DEF AgentSpecs, Kinds
  <2>3. Sound(CardSpecs)
    BY DEF CardSpecs, Kinds
  <2>4. Sound(TaskSpecs)
    BY SMTT(30) DEF TaskSpecs, Kinds
  <2>5. Sound(StructureSpecs)
    BY DEF StructureSpecs, Kinds
  <2>6. Sound(GroupSpecs)
    BY DEF GroupSpecs, Kinds
  <2>7. Sound(ObserverSpecs)
    BY DEF ObserverSpecs, Kinds
  <2>8. Sound(HumanSpecs)
    BY DEF HumanSpecs, Kinds
  <2> HIDE DEF Sound
  <2> QED
    BY <2>1, <2>2, <2>3, <2>4, <2>5, <2>6, <2>7, <2>8 DEF SpecTables
<1>2. \A c \in Commands : Fits(c, CommandSpecs[c])
  <2> HIDE DEF Fits
  <2> QED
    BY <1>1, TablesAre, MergedAre DEF Commands, Sound
<1> QED
  BY <1>2 DEF FieldsOf

\* The client library has a method for every command of COMMAND_SPECS, and it has
\* the parameters of the command, the required ones and the optional ones.
THEOREM ClientMatchesContract ==
  \A c \in Commands : c \in DOMAIN Methods /\ Methods[c] = CommandSpecs[c]
<1> DEFINE Covered(t) == DOMAIN t \subseteq DOMAIN Methods
           Agree(t, u) == \A c \in DOMAIN t \cap DOMAIN u : u[c] = t[c]
           Agrees(t) == /\ Agree(t, OrganizationCalls)
                        /\ Agree(t, HumanCalls)
                        /\ Agree(t, AgentCalls)
                        /\ Agree(t, CardCalls)
                        /\ Agree(t, TaskCalls)
                        /\ Agree(t, FlowCalls)
                        /\ Agree(t, StructureCalls)
                        /\ Agree(t, GroupCalls)
                        /\ Agree(t, DelegationCalls)
<1>1. \A u \in CallTables : Covered(u)
  BY TablesAre, MergedAre
<1>2. /\ Covered(OrganizationCalls)
      /\ Covered(HumanCalls)
      /\ Covered(AgentCalls)
      /\ Covered(CardCalls)
      /\ Covered(TaskCalls)
      /\ Covered(FlowCalls)
      /\ Covered(StructureCalls)
      /\ Covered(GroupCalls)
      /\ Covered(DelegationCalls)
  BY <1>1 DEF CallTables
<1>3. \A t \in SpecTables : Covered(t) /\ Agrees(t)
  <2> USE DEF OrganizationCalls, HumanCalls, AgentCalls, CardCalls, TaskCalls,
              FlowCalls, StructureCalls, GroupCalls, DelegationCalls
  <2>1. Covered(OrganizationSpecs) /\ Agrees(OrganizationSpecs)
    <3>1. Covered(OrganizationSpecs)
      BY <1>2 DEF OrganizationSpecs
    <3>2. Agree(OrganizationSpecs, OrganizationCalls)
      BY DEF OrganizationSpecs
    <3>3. Agree(OrganizationSpecs, HumanCalls)
      BY DEF OrganizationSpecs
    <3>4. Agree(OrganizationSpecs, AgentCalls)
      BY DEF OrganizationSpecs
    <3>5. Agree(OrganizationSpecs, CardCalls)
      BY DEF OrganizationSpecs
    <3>6. Agree(OrganizationSpecs, TaskCalls)
      BY DEF OrganizationSpecs
    <3>7. Agree(OrganizationSpecs, FlowCalls)
      BY DEF OrganizationSpecs
    <3>8. Agree(OrganizationSpecs, StructureCalls)
      BY DEF OrganizationSpecs
    <3>9. Agree(OrganizationSpecs, GroupCalls)
      BY DEF OrganizationSpecs
    <3>10. Agree(OrganizationSpecs, DelegationCalls)
      BY DEF OrganizationSpecs
    <3> QED
      BY <3>1, <3>2, <3>3, <3>4, <3>5, <3>6, <3>7, <3>8, <3>9, <3>10
  <2>2. Covered(AgentSpecs) /\ Agrees(AgentSpecs)
    <3>1. Covered(AgentSpecs)
      BY <1>2 DEF AgentSpecs
    <3>2. Agree(AgentSpecs, OrganizationCalls)
      BY DEF AgentSpecs
    <3>3. Agree(AgentSpecs, HumanCalls)
      BY DEF AgentSpecs
    <3>4. Agree(AgentSpecs, AgentCalls)
      BY DEF AgentSpecs
    <3>5. Agree(AgentSpecs, CardCalls)
      BY DEF AgentSpecs
    <3>6. Agree(AgentSpecs, TaskCalls)
      BY DEF AgentSpecs
    <3>7. Agree(AgentSpecs, FlowCalls)
      BY DEF AgentSpecs
    <3>8. Agree(AgentSpecs, StructureCalls)
      BY DEF AgentSpecs
    <3>9. Agree(AgentSpecs, GroupCalls)
      BY DEF AgentSpecs
    <3>10. Agree(AgentSpecs, DelegationCalls)
      BY DEF AgentSpecs
    <3> QED
      BY <3>1, <3>2, <3>3, <3>4, <3>5, <3>6, <3>7, <3>8, <3>9, <3>10
  <2>3. Covered(CardSpecs) /\ Agrees(CardSpecs)
    BY <1>2 DEF CardSpecs
  <2>4. Covered(TaskSpecs) /\ Agrees(TaskSpecs)
    <3>1. Covered(TaskSpecs)
      BY <1>2 DEF TaskSpecs
    <3>2. Agree(TaskSpecs, OrganizationCalls)
      BY DEF TaskSpecs
    <3>3. Agree(TaskSpecs, HumanCalls)
      BY DEF TaskSpecs
    <3>4. Agree(TaskSpecs, AgentCalls)
      BY DEF TaskSpecs
    <3>5. Agree(TaskSpecs, CardCalls)
      BY DEF TaskSpecs
    <3>6. Agree(TaskSpecs, TaskCalls)
      BY DEF TaskSpecs
    <3>7. Agree(TaskSpecs, FlowCalls)
      BY DEF TaskSpecs
    <3>8. Agree(TaskSpecs, StructureCalls)
      BY DEF TaskSpecs
    <3>9. Agree(TaskSpecs, GroupCalls)
      BY DEF TaskSpecs
    <3>10. Agree(TaskSpecs, DelegationCalls)
      BY DEF TaskSpecs
    <3> QED
      BY <3>1, <3>2, <3>3, <3>4, <3>5, <3>6, <3>7, <3>8, <3>9, <3>10
  <2>5. Covered(StructureSpecs) /\ Agrees(StructureSpecs)
    BY <1>2 DEF StructureSpecs
  <2>6. Covered(GroupSpecs) /\ Agrees(GroupSpecs)
    <3>1. Covered(GroupSpecs)
      BY <1>2 DEF GroupSpecs
    <3>2. Agree(GroupSpecs, OrganizationCalls)
      BY DEF GroupSpecs
    <3>3. Agree(GroupSpecs, HumanCalls)
      BY DEF GroupSpecs
    <3>4. Agree(GroupSpecs, AgentCalls)
      BY DEF GroupSpecs
    <3>5. Agree(GroupSpecs, CardCalls)
      BY DEF GroupSpecs
    <3>6. Agree(GroupSpecs, TaskCalls)
      BY DEF GroupSpecs
    <3>7. Agree(GroupSpecs, FlowCalls)
      BY DEF GroupSpecs
    <3>8. Agree(GroupSpecs, StructureCalls)
      BY DEF GroupSpecs
    <3>9. Agree(GroupSpecs, GroupCalls)
      BY DEF GroupSpecs
    <3>10. Agree(GroupSpecs, DelegationCalls)
      BY DEF GroupSpecs
    <3> QED
      BY <3>1, <3>2, <3>3, <3>4, <3>5, <3>6, <3>7, <3>8, <3>9, <3>10
  <2>7. Covered(ObserverSpecs) /\ Agrees(ObserverSpecs)
    BY <1>2 DEF ObserverSpecs
  <2>8. Covered(HumanSpecs) /\ Agrees(HumanSpecs)
    BY <1>2 DEF HumanSpecs
  <2> HIDE DEF Covered, Agrees
  <2> QED
    BY <2>1, <2>2, <2>3, <2>4, <2>5, <2>6, <2>7, <2>8 DEF SpecTables
<1>4. \A t \in SpecTables, u \in CallTables : Agree(t, u)
  <2> HIDE DEF Agree
  <2> QED
    BY <1>3 DEF CallTables
<1>5. ASSUME NEW c \in Commands PROVE c \in DOMAIN Methods /\ Methods[c] = CommandSpecs[c]
  <2>1. PICK t \in SpecTables : c \in DOMAIN t /\ CommandSpecs[c] = t[c]
    BY TablesAre, MergedAre DEF Commands
  <2>2. c \in DOMAIN Methods
    BY <1>3, <2>1
  <2>3. PICK u \in CallTables : c \in DOMAIN u /\ Methods[c] = u[c]
    BY <2>2, TablesAre, MergedAre
  <2>4. Agree(t, u)
    BY <1>4
  <2> QED
    BY <2>1, <2>2, <2>3, <2>4
<1> QED
  BY <1>5

-----------------------------------------------------------------------------
(* What the client sends.                                                  *)

\* The value a parameter is meant for is accepted by its validator.
LEMMA GoodAccepted ==
  ASSUME NEW p \in Parameters, NEW required
  PROVE  Verdict(p, required, GoodValue(p)) = "ok"
<1> DEFINE kind == Kinds[KindOf(p)]
<1>1. /\ kind.type = "integer" => "few" \in kind.accepts
      /\ kind.type = "boolean" => "yes" \in kind.accepts
      /\ kind.type \notin {"integer", "boolean"} => "good" \in kind.accepts
      /\ kind.type # "null"
  BY KindIs, KindsAccept
<1>2. GoodValue(p).type = kind.type /\ GoodValue(p).form \in kind.accepts
  BY <1>1 DEF GoodValue
<1>3. GoodValue(p) # Null
  BY <1>1, <1>2 DEF Null
<1> QED
  BY <1>2, <1>3 DEF Verdict

\* And so is what a method sends for an argument that is not given.
LEMMA DefaultAccepted ==
  ASSUME NEW c, NEW p \in Parameters
  PROVE  Verdict(p, FALSE, MethodDefault(c, p)) = "ok"
<1> USE KindIs, KindsApart DEF Verdict, Null
<1>1. CASE p = "limit" /\ c \in DefaultLimit
  <2>1. KindOf(p) = "limit"
    BY <1>1
  <2> QED
    BY <1>1, <2>1 DEF MethodDefault, Int, Kinds, LimitForms
<1>2. CASE p \in {"can_see_org_agents", "include_disabled"}
  <2>1. KindOf(p) = "flag"
    BY <1>2
  <2> QED
    BY <1>2, <2>1 DEF MethodDefault, Bool, Kinds, FlagForms, Forms
<1>3. CASE /\ ~ (p = "limit" /\ c \in DefaultLimit)
           /\ p \notin {"can_see_org_agents", "include_disabled"}
  BY <1>3 DEF MethodDefault
<1> QED
  BY <1>1, <1>2, <1>3

\* And the empty list that replaces a missing one.
LEMMA EmptyAccepted ==
  ASSUME NEW p \in Parameters, NEW required, p \in {"tools", "depends_on"}
  PROVE  Verdict(p, required, List("empty")) = "ok"
<1>1. KindOf(p) \in {"tools", "ids"}
  BY KindIs, KindsApart
<1> QED
  BY <1>1 DEF Verdict, Null, List, Kinds, ToolForms, IdListForms

\* Therefore the envelope accepts a request of the client library whose arguments
\* are what they are meant for.
LEMMA MeantAccepted ==
  ASSUME NEW c \in Commands, NEW fields, DOMAIN fields = FieldsOf(c), Meant(c, fields)
  PROVE  Validate(c, fields) = "ok"
<1>1. ASSUME NEW p \in FieldsOf(c)
      PROVE  Verdict(p, p \in CommandSpecs[c].required, fields[p]) = "ok"
  <2>1. p \in Parameters
    BY SpecsFit
  <2>2. CASE fields[p] = GoodValue(p)
    BY <2>1, <2>2, GoodAccepted
  <2>3. CASE p \in Methods[c].optional /\ fields[p] \in {Null, MethodDefault(c, p)}
    <3>1. (p \in CommandSpecs[c].required) = FALSE
      BY <2>3, ClientMatchesContract, SpecsFit
    <3>2. Verdict(p, FALSE, Null) = "ok"
      BY DEF Verdict
    <3> QED
      BY <2>1, <2>3, <3>1, <3>2, DefaultAccepted
  <2>4. CASE p \in {"tools", "depends_on"} /\ fields[p] = List("empty")
    BY <2>1, <2>4, EmptyAccepted
  <2> QED
    BY <2>2, <2>3, <2>4 DEF Meant
<1> QED
  BY <1>1 DEF Validate

-----------------------------------------------------------------------------
(* The invariant is inductive.                                             *)

\* The help is a command.
LEMMA HelpIsCommand == "help" \in Commands
<1>1. "help" \in DOMAIN AgentSpecs /\ AgentSpecs \in SpecTables
  BY DEF AgentSpecs, SpecTables
<1> QED
  BY <1>1, TablesAre, MergedAre DEF Commands

\* At the start nothing is asked, changed or answered.
LEMMA InitInv == Init => IInv
<1> SUFFICES ASSUME Init PROVE IInv
  OBVIOUS
<1>1. /\ call.command = "help" /\ call.via = "none" /\ answer = NoAnswer
      /\ changed = FALSE /\ audited = FALSE /\ stage = "idle"
  BY DEF Init, NoCall
<1> QED
  BY <1>1, HelpIsCommand DEF IInv, Requested, Checked, Done, ClientCallsAccepted,
                             ChangesAudited, ChangesEntitled, NoAnswer

\* Who may have the handler of a command that writes run is entitled to the change.
LEMMA AdmittedEntitled ==
  ASSUME NEW c \in Commands, NEW w, Able(c, w), Admitted(c, w), Handlers[c].writes
  PROVE  /\ w \notin {"observer", "nobody"}
         /\ w = "web" => c = "create_org"
         /\ CommandSpecs[c].org = (w = "organization")
         /\ c \in HumanCommands => w \in {"human", "web"}
<1>1. c \notin ObserverReads \cup {"list_orgs"}
  BY HandlersMatchDispatcher, AllHandled
<1>2. c \in HumanCommands => ~ CommandSpecs[c].org
  BY SpecsFit
<1>3. CommandSpecs[c].org \in BOOLEAN
  BY SpecsFit
<1> QED
  BY <1>1, <1>2, <1>3 DEF Able, Admitted, Accounts

\* A caller asks only when nothing is under way; what it asks with the client
\* library has the parameters of the method, whatever the arguments.
LEMMA CallerKeeps == IInv /\ Caller => IInv'
<1> SUFFICES ASSUME IInv, Caller PROVE IInv'
  OBVIOUS
<1>1. stage = "idle" /\ answer = NoAnswer /\ ~ changed
  BY DEF Caller, IInv, Done
<1>2. ASSUME NEW outcome, Unsent(outcome) PROVE IInv'
  BY <1>1, <1>2 DEF Unsent, IInv, Requested, Checked, Done, ClientCallsAccepted,
                    ChangesAudited, ChangesEntitled, Able, Admitted, Meant
<1>3. ASSUME NEW c \in Commands, NEW w, NEW via, NEW shape, NEW fields,
             Goes(c, w, via, shape, fields),
             via = "client" => /\ shape = "fine"
                               /\ DOMAIN fields = Methods[c].required \cup Methods[c].optional
      PROVE  IInv'
  <2>1. /\ call'.command = c /\ call'.via = via /\ call'.shape = shape /\ call'.fields = fields
        /\ stage' = "sent" /\ answer' = NoAnswer /\ changed' = changed /\ audited' = audited
    BY <1>1, <1>3 DEF Goes
  <2>2. Requested'
    BY <1>3, <2>1 DEF Requested
  <2>3. Done' /\ Checked'
    BY <1>1, <2>1 DEF IInv, Done, Checked
  <2>4. ClientCallsAccepted' /\ ChangesAudited' /\ ChangesEntitled'
    BY <1>1, <2>1 DEF ClientCallsAccepted, ChangesAudited, ChangesEntitled, NoAnswer
  <2> QED
    BY <2>2, <2>3, <2>4 DEF IInv
<1>4. ASSUME NEW c \in Commands, NEW w \in Principals, NEW args,
             ClientCall(c, w, args) \/ ClientCannotEncode(c, w, args)
      PROVE  IInv'
  <2>1. CASE ClientCall(c, w, args)
    <3>1. DOMAIN Sends(c, args) = Methods[c].required \cup Methods[c].optional
      BY DEF Sends
    <3>2. Goes(c, w, "client", "fine", Sends(c, args))
      BY <2>1 DEF ClientCall
    <3> QED
      BY <1>3, <3>1, <3>2
  <2>2. CASE ClientCannotEncode(c, w, args)
    BY <1>2, <2>2 DEF ClientCannotEncode
  <2> QED
    BY <1>4, <2>1, <2>2
<1>5. CASE ClientTooLarge \/ ClientUnreachable
  BY <1>2, <1>5 DEF ClientTooLarge, ClientUnreachable
<1>6. ASSUME NEW c \in Commands, ExampleCall(c) PROVE IInv'
  <2>1. Goes(c, Usual(c), "help", "fine", Example(c))
    BY <1>6 DEF ExampleCall
  <2> QED
    BY <1>3, <2>1
<1>7. ASSUME NEW c \in Commands, NEW w, NEW shape, NEW fields, RawCall(c, w, shape, fields)
      PROVE  IInv'
  <2>1. Goes(c, w, "raw", shape, fields)
    BY <1>7 DEF RawCall
  <2> QED
    BY <1>3, <2>1
<1> QED
  <2>1. ASSUME NEW c \in Commands, NEW w \in Principals, NEW args \in Arguments(c, w),
               ClientCall(c, w, args) \/ ClientCannotEncode(c, w, args)
        PROVE  IInv'
    BY <1>4, <2>1
  <2>2. ASSUME NEW shape \in Shapes \ {"fine"},
               RawCall("help", "agent", shape, Good("help", MyAuth))
        PROVE  IInv'
    BY <1>7, <2>2, HelpIsCommand
  <2> QED
    BY <1>5, <1>6, <1>7, <2>1, <2>2 DEF Caller

\* A step that keeps the request and its effect, and moves on without an answer
\* or answers with something that is no success and not the envelope's.
LEMMA QuietKeeps ==
  ASSUME IInv, call' = call, changed' = changed, audited' = audited,
         \/ /\ stage' \in {"valid", "known", "admitted"} /\ answer' = answer
            /\ stage # "answering" /\ ~ changed
         \/ /\ stage' = "answering" /\ answer'.code # "ok"
            /\ answer'.by = "envelope" /\ call.via = "client"
                 => ~ Meant(call.command, call.fields),
         Checked'
  PROVE  IInv'
<1>1. Requested'
  BY DEF IInv, Requested
<1>2. Done'
  BY DEF IInv, Done
<1>3. ClientCallsAccepted'
  <2>1. Meant(call.command, call.fields)' = Meant(call.command, call.fields)
    BY DEF Meant
  <2> QED
    BY <2>1 DEF IInv, Done, NoAnswer, ClientCallsAccepted
<1>4. ChangesAudited' /\ ChangesEntitled'
  BY DEF IInv, Done, NoAnswer, ChangesAudited, ChangesEntitled
<1> QED
  BY <1>1, <1>2, <1>3, <1>4 DEF IInv

\* The envelope: by the lemmas on the parameters it does not refuse what a method
\* sends, for arguments that are what they are meant for.
LEMMA ReadRequestKeeps == IInv /\ ReadRequest => IInv'
<1> SUFFICES ASSUME IInv, ReadRequest PROVE IInv'
  OBVIOUS
<1> DEFINE verdict == IF call.shape # "fine" THEN ShapeVerdict(call.shape)
                      ELSE Validate(call.command, call.fields)
<1>1. /\ stage = "sent" /\ call' = call /\ changed' = changed /\ audited' = audited
      /\ IF verdict = "ok" THEN stage' = "valid" /\ answer' = answer
         ELSE stage' = "answering" /\ answer' = Said(verdict, "envelope")
  BY DEF ReadRequest, Answers, Quiet
<1> HIDE DEF verdict
<1>2. Checked'
  BY <1>1 DEF Checked
<1>3. CASE verdict = "ok"
  BY <1>1, <1>2, <1>3, QuietKeeps DEF IInv, Done
<1>4. CASE verdict # "ok"
  <2>1. call.via = "client" => ~ Meant(call.command, call.fields)
    <3> SUFFICES ASSUME call.via = "client", Meant(call.command, call.fields) PROVE FALSE
      OBVIOUS
    <3>1. call.command \in Commands /\ call.shape = "fine"
      BY DEF IInv, Requested
    <3>2. DOMAIN call.fields = FieldsOf(call.command)
      BY <3>1, ClientMatchesContract DEF IInv, Requested, FieldsOf
    <3>3. Validate(call.command, call.fields) = "ok"
      BY <3>1, <3>2, MeantAccepted
    <3> QED
      BY <1>4, <3>1, <3>3 DEF verdict
  <2>2. stage' = "answering" /\ answer'.code # "ok"
    BY <1>1, <1>4 DEF Said
  <2> QED
    BY <1>1, <1>2, <2>1, <2>2, QuietKeeps
<1> QED
  BY <1>3, <1>4

\* The identification: who is let through is able to call the command.
LEMMA AuthenticateKeeps == IInv /\ Authenticate => IInv'
<1> SUFFICES ASSUME IInv, Authenticate PROVE IInv'
  OBVIOUS
<1> DEFINE code == Identity(call.command, call.who, params)
<1>1. /\ stage = "valid" /\ call' = call /\ changed' = changed /\ audited' = audited
      /\ IF code = "ok" THEN stage' = "known" /\ answer' = answer
         ELSE stage' = "answering" /\ answer' = Said(code, "access")
  BY DEF Authenticate, Answers, Quiet
<1>2. CASE code = "ok"
  <2>1. Able(call.command, call.who)
    BY <1>2 DEF Identity, Able
  <2> HIDE DEF code
  <2>2. Checked'
    BY <1>1, <1>2, <2>1 DEF Checked, Able
  <2> QED
    BY <1>1, <1>2, <2>2, QuietKeeps DEF IInv, Done
<1>3. CASE code # "ok"
  <2> HIDE DEF code
  <2>1. Checked'
    BY <1>1, <1>3 DEF Checked
  <2>2. stage' = "answering" /\ answer'.code # "ok" /\ answer'.by # "envelope"
    BY <1>1, <1>3 DEF Said
  <2> QED
    BY <1>1, <2>1, <2>2, QuietKeeps
<1> QED
  BY <1>2, <1>3

\* The admission.
LEMMA DispatchKeeps == IInv /\ Dispatch => IInv'
<1> SUFFICES ASSUME IInv, Dispatch PROVE IInv'
  OBVIOUS
<1>1. /\ stage = "known" /\ call' = call /\ changed' = changed /\ audited' = audited
      /\ IF Admitted(call.command, call.who) THEN stage' = "admitted" /\ answer' = answer
         ELSE stage' = "answering" /\ answer' = Said("ACCESS_DENIED", "access")
  BY DEF Dispatch, Answers, Quiet
<1>2. CASE Admitted(call.command, call.who)
  <2>1. Checked'
    BY <1>1, <1>2 DEF IInv, Checked, Able, Admitted
  <2> QED
    BY <1>1, <1>2, <2>1, QuietKeeps DEF IInv, Done
<1>3. CASE ~ Admitted(call.command, call.who)
  <2>1. Checked'
    BY <1>1, <1>3 DEF Checked
  <2>2. stage' = "answering" /\ answer'.code # "ok" /\ answer'.by # "envelope"
    BY <1>1, <1>3 DEF Said
  <2> QED
    BY <1>1, <2>1, <2>2, QuietKeeps
<1> QED
  BY <1>2, <1>3

\* A refusal, or an error that no one catches: nothing is done and it is told.
LEMMA RefusalKeeps ==
  ASSUME IInv, NEW code, NEW by, code # "ok", by # "envelope", Answers(code, by), Quiet,
         changed' = changed, audited' = audited
  PROVE  IInv'
<1>1. stage' = "answering" /\ answer'.code # "ok" /\ answer'.by # "envelope" /\ call' = call
  BY DEF Answers, Said, Quiet
<1>2. Checked'
  BY <1>1 DEF Checked
<1> QED
  BY <1>1, <1>2, QuietKeeps

\* The handler: what it changes, the caller is entitled to.
LEMMA HandleKeeps == IInv /\ Handle => IInv'
<1> SUFFICES ASSUME IInv, Handle PROVE IInv'
  OBVIOUS
<1>1. /\ stage = "admitted" /\ stage' = "handled" /\ call' = call /\ answer' = answer
      /\ changed' = Handlers[call.command].writes /\ audited' = Handlers[call.command].recorded
  BY DEF Handle, Quiet
<1>2. answer = NoAnswer /\ call.command \in Commands
      /\ Able(call.command, call.who) /\ Admitted(call.command, call.who)
  BY <1>1 DEF IInv, Done, Checked, Requested
<1>3. Requested'
  BY <1>1 DEF IInv, Requested
<1>4. Checked'
  BY <1>1, <1>2 DEF Checked, Able, Admitted
<1>5. Done'
  BY <1>1, <1>2 DEF Done
<1>6. ClientCallsAccepted' /\ ChangesAudited'
  BY <1>1, <1>2 DEF ClientCallsAccepted, ChangesAudited, NoAnswer
<1>7. ChangesEntitled'
  BY <1>1, <1>2, AdmittedEntitled DEF ChangesEntitled
<1> QED
  BY <1>3, <1>4, <1>5, <1>6, <1>7 DEF IInv

\* The audit row: the dispatcher writes it when the handler has not.
LEMMA AuditKeeps == IInv /\ Audit => IInv'
<1> SUFFICES ASSUME IInv, Audit PROVE IInv'
  OBVIOUS
<1>1. /\ stage = "handled" /\ stage' = "answering" /\ call' = call /\ changed' = changed
      /\ audited' = (audited \/ (call.command \in Audited /\ call.who # "web"))
      /\ answer'.code = "ok" /\ answer'.by = "handler"
  BY DEF Audit, Answers, Said, Quiet
<1>2. call.command \in Commands
      /\ changed = Handlers[call.command].writes /\ audited = Handlers[call.command].recorded
  BY <1>1 DEF IInv, Done, Requested
<1>3. Requested'
  BY <1>1 DEF IInv, Requested
<1>4. Checked'
  BY <1>1 DEF Checked
<1>5. Done'
  BY <1>1 DEF Done
<1>6. ClientCallsAccepted'
  BY <1>1 DEF ClientCallsAccepted
<1>7. ChangesAudited'
  BY <1>1, <1>2, HandlersMatchDispatcher, AllHandled DEF ChangesAudited
<1>8. ChangesEntitled'
  BY <1>1 DEF IInv, ChangesEntitled
<1> QED
  BY <1>3, <1>4, <1>5, <1>6, <1>7, <1>8 DEF IInv

\* The request ends, with whatever outcome, and nothing is left of it.
LEMMA EndsKeeps == ASSUME NEW outcome, Ends(outcome) PROVE IInv'
<1>1. /\ call'.command = "help" /\ call'.via = "none" /\ answer' = NoAnswer
      /\ changed' = FALSE /\ audited' = FALSE /\ stage' = "idle"
  BY DEF Ends, NoCall
<1> QED
  BY <1>1, HelpIsCommand DEF IInv, Requested, Checked, Done, ClientCallsAccepted,
                             ChangesAudited, ChangesEntitled, NoAnswer

\* A step that leaves the request and what is known of it alone.
LEMMA StutterKeeps ==
  ASSUME IInv, UNCHANGED <<stage, call, params, answer, changed, audited>>
  PROVE  IInv'
BY DEF IInv, Requested, Checked, Done, ClientCallsAccepted, ChangesAudited, ChangesEntitled,
       Able, Admitted, Meant

\* Every step keeps the invariant.
LEMMA StepInv == IInv /\ [Next]_vars => IInv'
<1> SUFFICES ASSUME IInv, [Next]_vars PROVE IInv'
  OBVIOUS
<1>1. CASE Caller
  BY <1>1, CallerKeeps
<1>2. CASE ReadRequest \/ Authenticate \/ Dispatch
  BY <1>2, ReadRequestKeeps, AuthenticateKeeps, DispatchKeeps
<1>3. ASSUME stage = "admitted", NEW code \in Handlers[call.command].refuses, Refuse(code)
      PROVE  IInv'
  <2>1. code # "ok"
    BY <1>3, HandlersMatchDispatcher, AllHandled DEF IInv, Requested
  <2> QED
    BY <1>3, <2>1, RefusalKeeps DEF Refuse
<1>4. CASE Raise \/ EscalationRaises \/ AuditFails
  BY <1>4, RefusalKeeps DEF Raise, EscalationRaises, AuditFails
<1>5. CASE Handle \/ Audit
  BY <1>5, HandleKeeps, AuditKeeps
<1>6. CASE Deliver \/ Dropped
  BY <1>6, EndsKeeps DEF Deliver, Dropped
<1>7. CASE ServerDies
  BY <1>7, EndsKeeps, StutterKeeps DEF ServerDies
<1>8. CASE ServerStarts \/ UNCHANGED vars
  BY <1>8, StutterKeeps DEF ServerStarts, vars
<1> QED
  BY <1>1, <1>2, <1>3, <1>4, <1>5, <1>6, <1>7, <1>8 DEF Next, Server

\* The invariant holds in every state that can be reached.
LEMMA Inductive == Spec => []IInv
BY InitInv, StepInv, PTL DEF Spec

\* What the client library sends is accepted by the envelope, for every command
\* and every choice of arguments that are what they are meant for: the methods
\* have the parameters the service declares, and their defaults are accepted.
THEOREM ContractCorrect == Spec => []ClientCallsAccepted
<1>1. IInv => ClientCallsAccepted
  BY DEF IInv
<1> QED
  BY <1>1, Inductive, PTL

\* A caller that is told of a success can find the change in the audit, unless it
\* is the local web interface: the handlers that leave the audit row to the
\* dispatcher are of commands it audits, and it answers only after the row.
THEOREM AuditCorrect == Spec => []ChangesAudited
<1>1. IInv => ChangesAudited
  BY DEF IInv
<1> QED
  BY <1>1, Inductive, PTL

\* Nothing is changed for an observer, for nobody, by the web interface but a new
\* organization, or by an account for an organization or the other way round.
THEOREM EntitlementCorrect == Spec => []ChangesEntitled
<1>1. IInv => ChangesEntitled
  BY DEF IInv
<1> QED
  BY <1>1, Inductive, PTL
=============================================================================
