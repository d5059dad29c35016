----------------------------- MODULE Messaging -----------------------------
(***************************************************************************)
(* Direct and group messages: the tables messages, conversations,          *)
(* reply_state, group_members and group_messages, with one action per      *)
(* command, and the paginated reads with their signed cursors.             *)
(*                                                                         *)
(* A writing handler runs between BEGIN IMMEDIATE and COMMIT.  Readers do  *)
(* not wait for it (WAL): they see the last committed database.  Dates are *)
(* taken inside the transaction, before the commit, or by some handlers    *)
(* before the transaction begins; time passes in between.  So the database *)
(* is db, the transaction in progress is txn, and reads outside the lock   *)
(* that a later step relies on are kept in threads.                        *)
(*                                                                         *)
(* Dates are milliseconds of a clock that does not jump back; identifiers  *)
(* are random, that is, drawn in any order.  A content stands for the text *)
(* and the business reference.                                             *)
(***************************************************************************)
EXTENDS Integers, FiniteSets, Sequences, SequencesExt

CONSTANTS
  Agents, Orgs, OrgOf,   \* accounts, each in one organization
  Group, Creator,        \* the one group of the instance and who created it
  Keys, NoKey,           \* the values of client_message_id, and NULL (groups only)
  Contents,
  Ids,                   \* message identifiers, drawn at random
  Budget, NoLimit,       \* agent_budgets.max_messages_per_hour of each account
  Hour,                  \* 3600 s, in clock units
  Limit,                 \* rows per page
  Threads,               \* requests that are between a read and the write lock
  Requests,              \* bound: the sends asked for, <<from, to, key, content>>
  Readers,               \* bound: the accounts that open and mark
  OrgCommands,           \* bound: the organizations' commands, <<"outgoing", org>>,
                         \* <<"incoming", org>> or <<"inactive", agent or org>>
  Views,                 \* bound: the paginated requests made, <<command, agent, filter>>
  MaxClock, MaxChanges   \* bounds: the last date, commands that change policies,
                         \* statuses or group membership, and listings

ASSUME MessagingAssumption ==
  /\ OrgOf \in [Agents -> Orgs]
  /\ Group \notin Agents /\ Creator \in Agents
  /\ NoKey \notin Keys
  /\ Ids \subseteq Nat \ {0}
  /\ Hour \in Nat /\ Limit \in Nat \ {0} /\ MaxClock \in Nat /\ MaxChanges \in Nat
  /\ Budget \in [Agents -> Nat \cup {NoLimit}]
  /\ \A r \in Requests :
       /\ r[1] \in Agents /\ r[4] \in Contents
       /\ \/ r[2] \in Agents /\ r[3] \in Keys
          \/ r[2] = Group /\ r[3] \in Keys \cup {NoKey}

VARIABLES
  clock,
  db,        \* the committed tables
  txn,       \* the tables as the transaction in progress leaves them, or NoTxn
  outgoing, incoming,  \* the organizations that allow outgoing, incoming messages
  inactive,  \* accounts closed, and organizations disabled
  threads,   \* what a thread has read or decided before it waits for the lock
  page,      \* the pagination in progress, with its cursor
  answer,    \* the error the last step answered to a send, or NoAnswer
  changes    \* their number so far

orgVars == <<outgoing, incoming, inactive, changes>>
vars    == <<clock, db, txn, orgVars, threads, page, answer>>

NoTxn    == [none |-> TRUE]
NoPage   == [phase |-> "none"]
NoAnswer == [outcome |-> "none"]
Idle     == [op |-> "idle"]

-----------------------------------------------------------------------------
(* Rows.  read is 0 for NULL: dates start at 1.                            *)

Row(conv, from, to, key, content, at) ==
  [conv |-> conv, from |-> from, to |-> to, key |-> key, content |-> content,
   at |-> at, read |-> 0]

\* The rows of one table: a table is a partial function on identifiers.
Direct(rows)  == {i \in DOMAIN rows : rows[i].to # Group}
Grouped(rows) == {i \in DOMAIN rows : rows[i].to = Group}

\* ORDER BY created_at, message_id.
Before(rows, i, j) == \/ rows[i].at < rows[j].at
                      \/ rows[i].at = rows[j].at /\ i < j

\* The last of some rows in that order, 0 if there is none.
Latest(rows, S) ==
  IF S = {} THEN 0 ELSE CHOOSE i \in S : \A j \in S \ {i} : Before(rows, j, i)

\* The conversation of a pair: the first message's transaction creates it and
\* it is named here for that message.  Its key does not depend on direction.
Between(rows, a, b) ==
  {i \in Direct(rows) : {rows[i].from, rows[i].to} = {a, b}}
ConvOf(rows, a, b, new) ==
  IF Between(rows, a, b) = {} THEN new
  ELSE rows[CHOOSE i \in Between(rows, a, b) : TRUE].conv

InConv(rows, c)      == {i \in Direct(rows) : rows[i].conv = c}
Convs(rows)          == {rows[i].conv : i \in Direct(rows)}
Received(rows, c, u) == {i \in InConv(rows, c) : rows[i].to = u}
Sent(rows, c, u)     == {i \in InConv(rows, c) : rows[i].from = u}
UpTo(rows, S, b)     == {i \in S : rows[i].at <= b}

ReadBy(rows, i, b) == rows[i].read # 0 /\ rows[i].read <= b

\* mark_read_conditional.
\* Mutant: no matter whether it was read.
FirstReadAlways(rows, i) == [rows EXCEPT ![i].read = clock]
FirstRead(rows, i) == [rows EXCEPT ![i].read = IF @ = 0 THEN clock ELSE @]

\* A new message lifts the marks of both participants.
\* Mutant: only the sender's.
LiftSender(mark, conv, from, to) == [mark EXCEPT ![<<from, conv>>] = 0]
Lift(mark, conv, from, to) == [mark EXCEPT ![<<from, conv>>] = 0, ![<<to, conv>>] = 0]

\* A row inserted.
Insert(rows, id, row) ==
  [i \in DOMAIN rows \cup {id} |-> IF i = id THEN row ELSE rows[i]]

-----------------------------------------------------------------------------
(* What sends ask of the tables.                                           *)

\* The message the idempotency key (sender, client id) names, in one table.
\* Mutant: among the sender's messages of the last hour.
ExistingRecent(rows, table, a, k) ==
  {i \in table : rows[i].from = a /\ rows[i].key = k /\ k # NoKey /\ rows[i].at > clock - Hour}
Existing(rows, table, a, k) ==
  {i \in table : rows[i].from = a /\ rows[i].key = k /\ k # NoKey}

\* messages_in_hour.
\* Mutant: direct messages only.
OverBudgetDirect(rows, a) ==
  /\ Budget[a] # NoLimit
  /\ Cardinality({i \in Direct(rows) : rows[i].from = a /\ rows[i].at > clock - Hour}) >= Budget[a]
SentSince(rows, a, since) == {i \in DOMAIN rows : rows[i].from = a /\ rows[i].at > since}

OverBudget(rows, a) ==
  /\ Budget[a] # NoLimit
  /\ Cardinality(SentSince(rows, a, clock - Hour)) >= Budget[a]

\* Both organizations allow a message from a to b.
ExternalCommAllowed(a, b) ==
  OrgOf[a] = OrgOf[b] \/ (OrgOf[a] \in outgoing /\ OrgOf[b] \in incoming)

\* Why a message from a to b is refused, if it is, in the order of the checks.
Refusal(a, b) ==
  IF OverBudget(db.rows, a) THEN "QUOTA_EXCEEDED"
  ELSE IF b \in inactive \/ OrgOf[b] \in inactive
       THEN IF OrgOf[a] \in outgoing THEN "RECIPIENT_NOT_FOUND" ELSE "POLICY_DENIED"
  ELSE IF ExternalCommAllowed(a, b) THEN "none" ELSE "POLICY_DENIED"

GroupRefusal(a) ==
  IF OverBudget(db.rows, a) THEN "QUOTA_EXCEEDED"
  ELSE IF \E b \in db.members \ {a} : ~ExternalCommAllowed(a, b) THEN "POLICY_DENIED"
  ELSE "none"

Answer(outcome, a, k, table) ==
  [outcome |-> outcome, from |-> a, key |-> k, table |-> table]

-----------------------------------------------------------------------------
(* Writing commands.  Each begins a transaction; Commit or Abort ends it.  *)

Locked == txn # NoTxn

\* _send_message.
Send(a, b, k, c) ==
  LET rows == db.rows
      old  == Existing(rows, Direct(rows), a, k)
      same == \E i \in old : rows[i].to = b /\ rows[i].content = c
  IN /\ ~Locked /\ a # b
     /\ \/ /\ old # {}
           /\ answer' = IF same THEN NoAnswer ELSE Answer("MESSAGE_ALREADY_EXISTS", a, k, "direct")
           /\ UNCHANGED txn
        \/ /\ old = {} /\ Refusal(a, b) # "none"
           /\ answer' = Answer(Refusal(a, b), a, k, "direct")
           /\ UNCHANGED txn
        \/ /\ old = {} /\ Refusal(a, b) = "none"
           /\ \E id \in Ids \ DOMAIN rows :
                LET conv == ConvOf(rows, a, b, id)
                IN txn' = [db EXCEPT
                     !.rows = Insert(rows, id, Row(conv, a, b, k, c, clock)),
                     !.mark = Lift(@, conv, a, b)]
           /\ answer' = NoAnswer
     /\ UNCHANGED <<clock, db, orgVars, threads, page>>

\* _read_message, the look outside the lock.  A sender, or the recipient of a
\* message already read, gets the row as it is and writes nothing.
LookToRead(t, i) ==
  /\ threads[t] = Idle
  /\ i \in Direct(db.rows) /\ db.rows[i].read = 0
  /\ threads' = [threads EXCEPT ![t] = [op |-> "read", id |-> i]]
  /\ answer' = NoAnswer
  /\ UNCHANGED <<clock, db, txn, orgVars, page>>

\* _read_message under the lock: the row is read again.
ReadMessage(t) ==
  /\ threads[t].op = "read" /\ ~Locked
  /\ txn' = [db EXCEPT !.rows = FirstRead(@, threads[t].id)]
  /\ threads' = [threads EXCEPT ![t] = Idle]
  /\ answer' = NoAnswer
  /\ UNCHANGED <<clock, db, orgVars, page>>

\* _mark_conversation_no_reply.
MarkNoReply(u, c) ==
  LET last == Latest(db.rows, Received(db.rows, c, u))
  IN /\ ~Locked /\ last # 0
     /\ txn' = [db EXCEPT !.mark[<<u, c>>] = last]
     /\ answer' = NoAnswer
     /\ UNCHANGED <<clock, db, orgVars, threads, page>>

\* _agent_send_group_message takes its date first, then waits for the lock.
\* Mutant: a date rounded up.
DateGroupMessageUp(t, a, k, c) ==
  /\ threads[t] = Idle
  /\ threads' = [threads EXCEPT ![t] =
       [op |-> "group", from |-> a, key |-> k, content |-> c, at |-> clock + 1]]
  /\ answer' = NoAnswer
  /\ UNCHANGED <<clock, db, txn, orgVars, page>>
DateGroupMessage(t, a, k, c) ==
  /\ threads[t] = Idle
  /\ threads' = [threads EXCEPT ![t] =
       [op |-> "group", from |-> a, key |-> k, content |-> c, at |-> clock]]
  /\ answer' = NoAnswer
  /\ UNCHANGED <<clock, db, txn, orgVars, page>>

\* The rest of _agent_send_group_message.  A retry is answered with the message
\* the key names, whatever group or content it is for.
SendGroup(t) ==
  LET w    == threads[t]
      rows == db.rows
      old  == Existing(rows, Grouped(rows), w.from, w.key)
      tell(outcome) == answer' = Answer(outcome, w.from, w.key, "group")
  IN /\ w.op = "group" /\ ~Locked
     /\ \/ /\ w.from \notin db.members
           /\ tell("GROUP_NOT_FOUND") /\ UNCHANGED txn
        \/ /\ w.from \in db.members /\ old # {}
           /\ answer' = NoAnswer /\ UNCHANGED txn
        \/ /\ w.from \in db.members /\ old = {} /\ GroupRefusal(w.from) # "none"
           /\ tell(GroupRefusal(w.from)) /\ UNCHANGED txn
        \/ /\ w.from \in db.members /\ old = {} /\ GroupRefusal(w.from) = "none"
           /\ \E id \in Ids \ DOMAIN rows :
                txn' = [db EXCEPT !.rows =
                  Insert(rows, id, Row(0, w.from, Group, w.key, w.content, w.at))]
           /\ answer' = NoAnswer
     /\ threads' = [threads EXCEPT ![t] = Idle]
     /\ UNCHANGED <<clock, db, orgVars, page>>

\* _agent_add_group_member: the member's account must be active (its
\* organization need not be) and the policies must allow the adder to write to the member.
AddMember(by, who) ==
  /\ ~Locked /\ changes < MaxChanges
  /\ by \in db.members /\ who \notin inactive /\ ExternalCommAllowed(by, who)
  /\ txn' = [db EXCEPT !.members = @ \cup {who}]
  /\ changes' = changes + 1
  /\ answer' = NoAnswer
  /\ UNCHANGED <<clock, db, outgoing, incoming, inactive, threads, page>>

\* _agent_remove_group_member: the creator removes anyone, others themselves.
RemoveMember(by, who) ==
  /\ ~Locked /\ changes < MaxChanges
  /\ by \in db.members /\ (by = Creator \/ by = who)
  /\ txn' = [db EXCEPT !.members = @ \ {who}]
  /\ changes' = changes + 1
  /\ answer' = NoAnswer
  /\ UNCHANGED <<clock, db, outgoing, incoming, inactive, threads, page>>

Commit ==
  /\ Locked
  /\ db' = txn /\ txn' = NoTxn
  /\ answer' = NoAnswer
  /\ UNCHANGED <<clock, orgVars, threads, page>>

\* The process dies: the transaction and every request are gone.  Cursors are
\* with the clients, and the key that signs them is on disk.
Crash ==
  /\ txn' = NoTxn
  /\ threads' = [t \in Threads |-> Idle]
  /\ answer' = NoAnswer
  /\ UNCHANGED <<clock, db, orgVars, page>>

\* set_communication_policy, deactivate_agent, disable_org and their reverses:
\* one write each, of other tables.
Toggle(S, x) == IF x \in S THEN S \ {x} ELSE S \cup {x}
OrgCommand ==
  /\ ~Locked /\ changes < MaxChanges
  /\ \E c \in OrgCommands :
       /\ outgoing' = IF c[1] = "outgoing" THEN Toggle(outgoing, c[2]) ELSE outgoing
       /\ incoming' = IF c[1] = "incoming" THEN Toggle(incoming, c[2]) ELSE incoming
       /\ inactive' = IF c[1] = "inactive" THEN Toggle(inactive, c[2]) ELSE inactive
  /\ changes' = changes + 1
  /\ answer' = NoAnswer
  /\ UNCHANGED <<clock, db, txn, threads, page>>

Tick ==
  /\ clock < MaxClock
  /\ clock' = clock + 1
  /\ answer' = NoAnswer
  /\ UNCHANGED <<db, txn, orgVars, threads, page>>

-----------------------------------------------------------------------------
(* Reply state (store/queries.py).                                         *)

\* reply_status: the five rules, one query each.
ReplyStatus(c, u, b) ==
  LET rows == db.rows
      last == Latest(rows, UpTo(rows, Received(rows, c, u), b))
  IN IF \/ last = 0
        \/ ~ReadBy(rows, last, b)
        \/ \E i \in UpTo(rows, Sent(rows, c, u), b) : Before(rows, last, i)
        \/ db.mark[<<u, c>>] = last
     THEN "no_reply_needed" ELSE "needs_reply"

\* notification_page: the same rules as one query.  lastrec numbers the received
\* messages of each conversation from the last one.
LastRec(u, b) ==
  LET rows == db.rows
      mine == {i \in Direct(rows) : rows[i].to = u /\ rows[i].at <= b}
  IN {i \in mine : \A j \in mine : rows[j].conv = rows[i].conv => ~Before(rows, i, j)}
\* Mutant: own messages compared by date alone.
NeedsReplyByDate(u, b) ==
  LET rows == db.rows
  IN {l \in LastRec(u, b) :
        /\ rows[l].read # 0 /\ rows[l].read <= b
        /\ ~\E x \in InConv(rows, rows[l].conv) :
              rows[x].from = u /\ rows[x].at <= b /\ rows[x].at > rows[l].at
        /\ db.mark[<<u, rows[l].conv>>] \in {0} \cup (Ids \ {l})}
NeedsReply(u, b) ==
  LET rows == db.rows
  IN {l \in LastRec(u, b) :
        /\ rows[l].read # 0 /\ rows[l].read <= b
        /\ ~\E x \in InConv(rows, rows[l].conv) :
              /\ rows[x].from = u /\ rows[x].at <= b
              /\ \/ rows[x].at > rows[l].at
                 \/ rows[x].at = rows[l].at /\ x > l
        /\ db.mark[<<u, rows[l].conv>>] \in {0} \cup (Ids \ {l})}

-----------------------------------------------------------------------------
(* Paginated reads.  An item of a page is a sort key: a date, then an      *)
(* identifier.                                                             *)

Item(date, id) == [date |-> date, id |-> id]
RowItems(S)    == {Item(db.rows[i].at, i) : i \in S}

Ascending == {"get_conversation", "get_org_conversation"}

\* Item x comes before item y in the order of a command.
Precedes(cmd, x, y) ==
  LET less(v, w) == v.date < w.date \/ (v.date = w.date /\ v.id < w.id)
  IN IF cmd \in Ascending THEN less(x, y) ELSE less(y, x)

ConvsOfOrg(o) ==
  {c \in Convs(db.rows) : \E i \in InConv(db.rows, c) :
     o \in {OrgOf[db.rows[i].from], OrgOf[db.rows[i].to]}}

\* What the command may return at all: the caller takes part, is a member, or
\* manages the organization.  The others learn nothing.
Visible(cmd, u, f) ==
  CASE cmd = "get_conversation"     -> Between(db.rows, u, f) # {}
    [] cmd = "get_group_messages"   -> u \in db.members
    [] cmd = "get_org_conversation" -> f \in ConvsOfOrg(OrgOf[u])
    [] OTHER                        -> TRUE

\* The items of all pages of a command, at boundary b.
Items(cmd, u, f, b) ==
  LET rows == db.rows
      asOf(S) == RowItems(UpTo(rows, S, b))
      inbox   == {i \in Direct(rows) : rows[i].to = u}
      lastIn(c) == Latest(rows, InConv(rows, c))
  IN CASE cmd = "get_messages" ->
            asOf({i \in inbox : CASE f = "unread" -> ~ReadBy(rows, i, b)
                                  [] f = "read"   -> ReadBy(rows, i, b)
                                  [] OTHER        -> TRUE})
       [] cmd = "get_conversation"     -> asOf(Between(rows, u, f))
       [] cmd = "get_group_messages"   -> asOf(Grouped(rows))
       [] cmd = "get_org_conversation" -> asOf(InConv(rows, f))
       [] cmd = "get_notifications"    ->
            {Item(rows[l].at, rows[l].conv) : l \in NeedsReply(u, b)}
       [] cmd = "list_org_conversations" ->
            {Item(rows[lastIn(c)].at, c) :
               c \in {d \in ConvsOfOrg(OrgOf[u]) : rows[lastIn(d)].at <= b}}

\* The keyset condition: what is left after the cursor's position.
\* Mutant: the position is a date alone.
AfterDate(cmd, items, last) ==
  {x \in items : last = <<>> \/ Precedes(cmd, [last[1] EXCEPT !.id = x.id], x)}
After(cmd, items, last) ==
  {x \in items : last = <<>> \/ Precedes(cmd, last[1], x)}

\* ORDER BY: a set of items in the order of a command.
Ordered(cmd, items) ==
  CHOOSE s \in [1..Cardinality(items) -> items] :
    \A m, n \in DOMAIN s : m < n => Precedes(cmd, s[m], s[n])

\* Service._pagination without a cursor: the boundary is taken before the read.
FirstPage(cmd, u, f) ==
  /\ page = NoPage /\ changes < MaxChanges
  /\ changes' = changes + 1
  /\ page' = [phase |-> "asked", cmd |-> cmd, user |-> u, filter |-> f,
              boundary |-> clock, last |-> <<>>, got |-> <<>>, first |-> {}]
  /\ answer' = NoAnswer
  /\ UNCHANGED <<clock, db, txn, outgoing, incoming, inactive, threads>>

\* decode_cursor and validate_cursor_binding: a cursor serves only the request
\* that it was issued for.
Bound(cursor, cmd, u, f) ==
  cursor.cmd = cmd /\ cursor.user = u /\ cursor.filter = f

\* The read of a first page, or a request for the next one.  got is what the
\* client has been given so far, first what there was at the first read.
ReadPage(cmd, u, f) ==
  /\ page.phase \in {"asked", "open"}
  /\ Bound(page, cmd, u, f)
  /\ IF ~Visible(cmd, u, f) THEN page' = NoPage
     ELSE LET items == Items(cmd, u, f, page.boundary)
              rest  == Ordered(cmd, After(cmd, items, page.last))
              more  == Len(rest) > Limit
              shown == SubSeq(rest, 1, IF more THEN Limit ELSE Len(rest))
          IN page' = [page EXCEPT
               !.phase = IF more THEN "open" ELSE "done",
               !.last  = IF more THEN <<shown[Limit]>> ELSE <<>>,
               !.got   = @ \o [n \in DOMAIN shown |-> shown[n].id],
               !.first = IF page.phase = "asked" THEN {x.id : x \in items} ELSE @]
  /\ answer' = NoAnswer
  /\ UNCHANGED <<clock, db, txn, orgVars, threads>>

\* The client is done with a listing or gives it up.
Forget ==
  /\ page # NoPage
  /\ page' = NoPage
  /\ answer' = NoAnswer
  /\ UNCHANGED <<clock, db, txn, orgVars, threads>>

-----------------------------------------------------------------------------

\* The tables after _agent_create_group, with no message yet.
Init ==
  /\ clock = 1
  /\ db = [rows    |-> [i \in {} |-> 0],
           mark    |-> [p \in Agents \X Ids |-> 0],
           members |-> {Creator}]
  /\ txn = NoTxn
  /\ outgoing = Orgs /\ incoming = Orgs /\ inactive = {}
  /\ threads = [t \in Threads |-> Idle]
  /\ page = NoPage /\ answer = NoAnswer /\ changes = 0

SendNext ==
  \/ \E r \in Requests : r[2] # Group /\ Send(r[1], r[2], r[3], r[4])
  \/ \E t \in Threads :
       \/ SendGroup(t)
       \/ \E r \in Requests : r[2] = Group /\ DateGroupMessage(t, r[1], r[3], r[4])

ReadNext ==
  \/ \E t \in Threads :
       \/ ReadMessage(t)
       \/ \E i \in DOMAIN db.rows : db.rows[i].to \in Readers /\ LookToRead(t, i)
  \/ \E u \in Readers, c \in Ids : MarkNoReply(u, c)

MemberNext == \E by, who \in Agents : AddMember(by, who) \/ RemoveMember(by, who)

PageNext ==
  \/ \E v \in Views : FirstPage(v[1], v[2], v[3]) \/ ReadPage(v[1], v[2], v[3])
  \/ Forget

Next ==
  \/ SendNext \/ ReadNext \/ MemberNext \/ PageNext
  \/ Commit \/ Crash \/ OrgCommand \/ Tick

Spec == Init /\ [][Next]_vars

-----------------------------------------------------------------------------
(* Properties.                                                             *)

MessageRow ==
  [conv : Ids \cup {0}, from : Agents, to : Agents \cup {Group},
   key : Keys \cup {NoKey}, content : Contents, at : 1..MaxClock, read : 0..MaxClock]

IsDatabase(d) ==
  /\ d = [rows |-> d.rows, mark |-> d.mark, members |-> d.members]
  /\ DOMAIN d.rows \subseteq Ids
  /\ \A i \in DOMAIN d.rows : d.rows[i] \in MessageRow
  /\ d.mark \in [Agents \X Ids -> Ids \cup {0}]
  /\ d.members \subseteq Agents

\* The type of every variable; a row is dated neither before the first date nor
\* after the present.
TypeOK ==
  /\ clock \in 1..MaxClock
  /\ IsDatabase(db)
  /\ txn = NoTxn \/ IsDatabase(txn)
  /\ outgoing \subseteq Orgs /\ incoming \subseteq Orgs /\ inactive \subseteq Agents \cup Orgs
  /\ changes \in 0..MaxChanges
  /\ \A i \in DOMAIN db.rows : db.rows[i].at <= clock /\ db.rows[i].read <= clock
  /\ \A t \in Threads : threads[t].op \in {"idle", "read", "group"}
  /\ page.phase \in {"none", "asked", "open", "done"}

\* Direct messages implement the mailbox: retries, concurrent first readers and
\* crashes included, a client id names one message, no message changes, and the
\* first read date stays (SPEC.txt 16, mark_read_conditional).
DirectBox(rows) ==
  {[from |-> rows[i].from, to |-> rows[i].to, key |-> rows[i].key,
    content |-> rows[i].content, opened |-> rows[i].read] : i \in Direct(rows)}
Box == INSTANCE Mailbox WITH box <- DirectBox(db.rows)
ImplementsMailbox == Box!Spec

\* A retry of a message that was accepted is never refused for the budget, a
\* policy or the recipient's account, whatever happened to them since the first
\* answer was lost (SPEC.txt 6.1; the order of the checks in both send handlers).
RetryNeverRefused ==
  [][answer'.outcome \in {"QUOTA_EXCEEDED", "POLICY_DENIED", "RECIPIENT_NOT_FOUND"} =>
       \A i \in DOMAIN db.rows :
         ~ /\ db.rows[i].from = answer'.from
           /\ db.rows[i].key = answer'.key /\ answer'.key # NoKey
           /\ (db.rows[i].to = Group) = (answer'.table = "group")]_vars

\* The two programs that decide whether a conversation waits for a reply agree
\* for everyone and at every boundary: reply_status, which get_conversation
\* shows, and the SQL of notification_page.
NotificationsAgree ==
  \A u \in Agents, b \in 1..clock, c \in Convs(db.rows) :
    (\E l \in NeedsReply(u, b) : db.rows[l].conv = c) <=> ReplyStatus(c, u, b) = "needs_reply"

\* A no-reply mark is always for the last message received: whatever arrives
\* next lifts it, also within a millisecond and while the marking waited for the
\* lock (SPEC.txt 12; the two set_no_reply of _send_message).
MarkIsForLast ==
  \A u \in Agents, c \in Ids :
    db.mark[<<u, c>>] # 0 => db.mark[<<u, c>>] = Latest(db.rows, Received(db.rows, c, u))

\* Within the hour that ends now, no agent has more messages, direct and group
\* together, than its budget: also when a group message took its date before it
\* waited for the lock (_check_message_budget).
HourlyBudget ==
  \A a \in Agents : Budget[a] # NoLimit =>
    Cardinality(SentSince(db.rows, a, clock - Hour)) <= Budget[a]

\* A listing of messages gives no row twice and, when it ends, has given every
\* row there was at its first page, although rows dated before the boundary are
\* committed and messages are opened while it goes on.  (A message opened
\* meanwhile may drop out of the listing of unread ones.)
PagedByRow == {"get_messages", "get_conversation", "get_org_conversation", "get_group_messages"}
PagesComplete ==
  page.phase # "none" /\ page.cmd \in PagedByRow =>
    /\ IsInjective(page.got)
    /\ \/ page.phase # "done"
       \/ page.cmd = "get_messages" /\ page.filter = "unread"
       \/ page.first \subseteq Range(page.got)

\* The same for the conversations of an organization (SPEC_WEB.txt 7.3, SPEC.txt 9).
OrgListingComplete ==
  page.phase = "done" /\ page.cmd = "list_org_conversations" =>
    page.first \subseteq Range(page.got)
=============================================================================
