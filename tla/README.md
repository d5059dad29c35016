# Synapse Messenger: a verification development in TLA+

Synapse is a local messaging and task service for software agents: one Python
process, one SQLite database, a Unix socket (loopback TCP on Windows), a web
interface and a bridge that lets agents of other installations in (A2A). This
directory models it, checks the models with TLC on small instances, and proves
what matters most with TLAPS for every instance.

1. [Inventory](#1-inventory) of the system
2. [Modules](#2-modules) and how they correspond to the code
3. [Runs](#3-runs): what TLC checks, bounds, fairness
4. [Proofs](#4-proofs)
5. [Disagreements](#5-where-the-code-and-its-documentation-disagree) between code and documentation
6. [Not modelled](#6-what-is-not-modelled)
7. [Plan](#7-plan)

To run a check: `tlc -config TasksLifecycle.cfg MCTasks`; to check proofs:
`tlapm TasksProofs.tla`.

## 1. Inventory

Paths are relative to `src/synapse/`.

### How the parts interact

```
 client.py / cli ──socket──▶ server.py ──process()──▶ service.py ──SQL──▶ db.py / store/*
 web.py ─────────client──────▲                          │   ▲ stamp
 a2a_bridge.py ──client──────┘                          ▼   │
      │ observe / stamp ────────────────────────────▶ hlc.py (one clock per process)
 backup.py (restore) ──lock file── server.py            journal: agent_events, audit
 registry.py: independent HTTP process that holds agent cards
```

Each request is authenticated in one read, then its handler runs in a
transaction of its own. `db.begin_immediate` issues `BEGIN IMMEDIATE`, so writing
handlers are serialised by SQLite's write lock. **A handler that does all its
reads inside that transaction is one atomic action of a model; one that reads
before it is not**, and that is where most of the hazards are.

### Components

| Component | State | Operations | What is hard | What makes it correct |
|---|---|---|---|---|
| Tasks and governance (`service.py`, `store/tasks.py`) | tasks, dependencies, approvals, delegations, budgets, policies, escalation targets, account status | create, update state, transfer, approval request / approve / reject, delegate / revoke; org commands | escalations move *other* tasks inside a command's transaction; callers authenticated earlier; idempotent create | documented state machine; dependency gate; budgets and policies hold for every hand-over |
| Causal time (`hlc.py`, clock in `service.py`) | `(l, c)` per process; `hlc` column of journal rows | stamp, observe, rehydrate after restart, encode | clock jumps, ties, overflow of the encoding, crash between stamp and commit, two clocks | order of stamps = order of commits; never behind the journal; event after its cause |
| A2A bridge (`a2a_bridge.py`) | clock, pending request | tasks/message, tasks/get, tasks/cancel | absorbs a remote stamp, then calls the service, which has (or shares) another clock | reply after event after remote message |
| Service lock (`server.py`, `backup.py`) | a file with a PID | acquire, judge stale, unlink, release; restore's variant | each system call interleaves; crashes anywhere; removing a lock that changed meanwhile | one holder of the storage; crashes block nobody |
| Server loop and pool (`server.py`) | listening socket, slots, queue, workers, stop lock | accept, acquire a slot or refuse, submit, handle, stop | overlapping stops; clients that never leave; stop while starting | no queue beyond the bound; no slot leak; stop ends; lock outlives the listener |
| Messaging (`service.py`, `store/messages.py`, `store/queries.py`) | messages, notifications, read dates, reply states | send, read, reply, mark no reply, group sends | read before the write lock; retries with a client id; ties in a millisecond; hourly budget over two kinds of messages | a retry returns the first message; first read wins; reply state agrees with the messages |
| Pagination (`cursor.py`, `store/queries.py`) | signed cursor: boundary, position, filter | first page, next page | rows commit between pages with dates older than the boundary | no row twice; none skipped that was there at the boundary |
| Event journal (`store/events.py`, `store/audit.py`) | events, predecessor of each principal's event | append, purge | a purge by the acting organization's retention covers everyone's rows | chain per principal; purge never lowers the greatest stamp |
| Authentication (`service.py`, `security.py`, `store/authfail.py`) | failures by identity, cache of verified passwords, hashes | authenticate, rotate, disable | count, Argon2 and record are separate steps; cache against rotation; two-transaction audit | a rotated password stops working; failures are bounded |
| Accounts and organizations | status, policies, hashes | create, disable, rotate | disabling races with running commands | a disabled account receives no work |
| Groups, observers, agent cards | membership, read-only roles, cards | single-row writes | – | – |
| Database access (`db.py`) | schema version | begin_immediate, migrations, max_hlc | – | atomicity assumed by every model |
| Backup and restore (`backup.py`) | archive; database, WAL, cursor key | create, restore | crash or error between replacing the database, deleting the WAL and writing the key | old state or new state; a mixture is served only after a restore that said it failed |
| A2A registry (`registry.py`) | cards, heartbeats | register, heartbeat, evict | fetches outside the lock finish out of order | the last registration wins |
| Web interface (`web.py`) | sessions, failure counters, cache | login, logout, expire, cached reads, invalidate | check / call / count in three steps; cache filled with a value read before the invalidation | lockout, session cap, no stale data after a write |
| Client library (`client.py`) and contract (`validation.py`, `helpdoc.py`) | a connection | one method per command; envelope; table of commands and fields | three hand-written lists of the same 65 commands; a server that dies between commit and answer | what the library sends is accepted; an entitled caller, and no other, changes something; changes are audited |
| Command line (`cli/`) | PID file, running processes | start, stop, restart, update, backup, restore; one-request commands | servers die, PIDs are used again, waits run out | a stop that reports success has stopped the server; every command ends |
| Monitoring, installation, texts of the help, logging | none of their own | – | – | – |

`PROJECT.json` has the same list with the status of each part, and under
`hazards` every place where something can go wrong that a test would hardly
reach, with the property that would catch it or the reason there is none yet.

## 2. Modules

```
TaskLifecycle ◀──implements── Tasks ◀── MCTasks          TasksProofs
Mailbox ◀──implements── Messaging ◀── MCMessaging        MessagingProofs
HLC ◀── CausalLog ◀── MCCausalLog                        CausalLogProofs
Access ◀── MCAccess                                      AccessProofs
Web ◀── MCWeb                                            WebProofs
StorageLock ◀──implements── ServiceLock                  ServerProofs
                            ConnectionPool               ServerProofs
StorageLock ◀──implements── Operations                   OperationsProofs
ApiCommands ◀── ApiClients ◀── Api                       ApiProofs
```

The modules meet where one takes for granted what another shows. `Tasks` and
`Messaging` take callers that passed authentication at some earlier time, which
is what `Access` shows of them. `Web` sees of the service what `Access`
gives it: whether it is up, whether an organization is enabled, and the trust
token of its run. `Operations` takes the service lock in one step, which
`ServiceLock` shows call by call: both implement `StorageLock`. A server in
`Operations` either serves or does not, which `ConnectionPool` shows thread by
thread; `ServerProofs` puts the lock and the threads together
(`ListenerExclusive`). `Api` carries a request from the
method of the client to the answer and leaves what handlers do to the data to
the others.

Definitions marked `Mutant:` in a module are deliberately wrong variants of
the definition that follows them. No specification uses them; each is there
to show that a property notices the bug.

### `TaskLifecycle`: the abstract task

One task is a state and a holder. `Edges` is the documented state machine;
tasks change hands until they end. It knows no dependencies, budgets or callers.

### `Tasks`: the task component

State: one variable for each column of `tasks` that a guard reads (`creator`,
`assignee`, `state`, `approver`, `clientKey`), `dependsOn`, `delegations`
(alive ones), and the organization's side: `status`, `budget`, `escalateTo`,
`policy`. One action for each handler:

| Action | Handler in `service.py` |
|---|---|
| `CreateTask` | `_agent_create_task`: idempotency by `client_task_id`, assignee active, policy, dependencies that exist and are not too deep, budget, escalations |
| `UpdateTaskState` | `_agent_update_task_state`: creator, assignee or delegate; transition table; dependency gate; escalations |
| `TransferTask` | `_agent_transfer_task`: visible, unfinished, policy, budget of the new holder, escalations |
| `RequestApproval`, `ApproveTask`, `RejectTask` | the approval handlers; none of them escalates |
| `CreateDelegation`, `RevokeDelegation`, `DelegationExpires` | delegation handlers, and time |
| `SetAgentBudget`, `SetEscalationPolicy`, `SetPolicy`, `DeactivateAgent`, `ReactivateAgent` | the organization's commands |

`Escalate` ends the handlers that call `_check_escalations`. It is part of
their action, not one of its own: it reads the rows the command has just
written, moves any set of unfinished tasks that may be overdue, and asks the
target's status and budget for every single task moved.

Callers need not be active: they were authenticated in an earlier transaction.

### `HLC`, `CausalLog`: stamps and the journal

`HLC` has the two clock rules and the limits of the encoding. `CausalLog` runs
them in one service and one bridge: `Stamp` opens a stamped transaction
(`Service._stamp`; the clock moves even when the stamp does not encode),
`Commit` and `Rollback` end it, `Crash` loses the clock, which the next stamp
rebuilds from the journal (`_build_clock`, `db.max_hlc`). The bridge
`Absorb`s a remote stamp (`_tasks_message`), waits for its event and sends a
`Reply` with a stamp of its own (`_envelope_hlc`). `shared` tells whether the
bridge got the service's clock (the `clock` parameter of `A2ABridge`) or, as
`run_bridge` starts it, has one of its own.

### `StorageLock`, `ServiceLock`: the lock file

`StorageLock` is what the lock is for: the storage is with one process at a time,
which takes it when nobody has it and gives it back, alive or dead.

`ServiceLock` has one action for each system call of `SynapseServer._acquire_lock`,
`lock_is_stale`, `_release_lock` and `backup._acquire_service_lock`; `Die` is a
crash between any two. `serial` is an assumption about the environment: starts
do not overlap. A process runs once and its PID is not used again. Its
definitions are called `LockInit`, `LockNext` and so on, so that a module can
extend it together with `ConnectionPool`.

### `ConnectionPool`: threads of the server

The main thread (`start`, `serve_forever`, `process_request`), the workers
(`_ConnectionPool._run`, `process_request_thread`) and the threads in `stop`
are processes; locations are named for what comes next. Every place where a
thread can be overtaken is a step: acquiring a slot and submitting are two,
the critical section of `stop` and the removal of files after it are three.
`Bind` may fail, `Finish` has a handler that returns and one that raises, and
signals arrive at any time, also before the server is published. `Exit` is the
end of the process, which takes every other thread with it; where the server is
embedded, as in the tests, it may never come.

### `Mailbox`, `Messaging`: messages

`Mailbox` is what SPEC.txt §6, §10 and §16 promise about direct messages: a
sender's `client_message_id` names one message for ever, an accepted message
never changes or disappears, and it is opened once, on a date that stays.

`Messaging` has the tables (`messages` and `group_messages` as rows of `db`,
with `reply_state` and `group_members`), the transaction in progress (`txn`),
what threads have read outside the write lock (`threads`), the policies and
statuses of organizations and accounts, a pagination in progress (`page`), and
the last answer a sender got. Dates are milliseconds; identifiers are random, so
two messages of a millisecond come in either order.

| Action | Code |
|---|---|
| `Send` | `_agent_send_message`: existing `client_message_id`, recipient, policy, hourly budget, conversation, lift of a no-reply mark |
| `LookToRead`, `ReadMessage` | `_agent_read_message`: the row is looked up first, the write lock comes later, and the row is read again |
| `MarkNoReply` | `_agent_mark_no_reply`, for the last message received |
| `DateGroupMessage`, `SendGroup` | `_agent_send_group_message`: the date is taken before the transaction begins |
| `AddMember`, `RemoveMember` | group membership |
| `Commit`, `Crash` | the end of the transaction, or of the process before it |
| `OrgCommand` | policies and accounts that change between a send and its retry |
| `FirstPage`, `ReadPage` | the paginated reads of messages, conversations and notifications: boundary, position after the last row, binding of the cursor to command, account and filter |

### `Access`: who may do what

A request is not one transaction. Its thread goes through `Arrive`,
`CheckToken`, `CountFailures`, `ReadRow`, `ReadOrg`, `Lookup` (the cache of
verified passwords), `Verify` (Argon2, no lock held), `RecordFailure` or
`ClearFailures`, its handler, and `AuditAction` in a second transaction. The
handlers that hash a password do so before their own transaction, which is a
step more (`BeginChangePassword`, ...). `InitOrg` and `EnableOrganization` are
the command line, which writes to the database beside the server. `since`
records, for each request in progress, which of the things it must show held at
some moment since it arrived: it is what the main property speaks about.

### `Web`: sessions and cached answers

Each section under a lock of `web.py` is a step and each call to the service is
a step between two of them: `Login`, `AskService`, `LoginFailed` or
`LoginSucceeded`; `Request`, `LookUp`, `Fetch`, `Store`, `Answer`, `Open`;
`Post` and `DisableOrg` with their `Invalidate`; `Logout`, and `Expel` when the
service refuses the session's password (a service that does not answer leaves
the session alone). Sessions in the code are objects that are replaced at every use
and compared by identity; here they carry a version, so that
`_destroy_session_for` compares what it compares in the code.

### `Operations`: the server's process and the operator's commands

Server processes go through `WritePidFile`, `StartServing` (lock taken, key
read, listener open), `Write`, `HandleSignal`, `ReleaseLock`, `RemovePidFile`,
or `Die` anywhere; `Recycle` gives the PID of a dead one to a stranger. The
commands `start`, `stop`, `stop --force`, `restart`, `update`, `backup` and
`restore` are processes of an operator that look (PID file, socket), act
(signal, spawn, replace a file) and wait, for a time that may run out at any
moment. The storage is a database file, a write-ahead log and a cursor key, each
named by the restore it comes from. A restore goes through `Lock`, `Replace`,
`UnlinkWal`, `TruncateKey`, `WriteKey` and `Unlock`, as `_restore` does. Each step
of these may fail, as the system calls in it may (`FailsHalfway`), and the
`finally` then frees the lock with what was done so far; a killed restore
(`RestoreDies`) leaves its mark on the lock instead. `store.failed` is what the
restore of the present database said of itself. `Holders` are the servers that serve or stop and
the restores between their lock and their unlock; they implement `StorageLock`.

### `ApiCommands`, `ApiClients`, `Api`: the contract

`ApiCommands` is `validation.py`: every validator by the forms of JSON values
it lets through, and the table `COMMAND_SPECS` with who may call what.
`ApiClients` is the other two lists of the same fields: the methods of
`client.py` and the help's examples and error codes (`helpdoc.py`). `Api` runs
one request after the other: `ClientCall`, `ExampleCall` or `RawCall`;
`ReadRequest`, `Authenticate`, `Dispatch`; `Handle`, `Refuse`, `Raise` or
`EscalationRaises`; `Audit` or `AuditFails`; `Deliver` or `Dropped`; with
`ServerDies` between any two, and connections that fail on either transport.
The tables of commands, methods, documents and handlers are written by section,
as in the source, and put together by `Merged`.

## 3. Runs

"States" are distinct states.

| Run | States | What it asks |
|---|---|---|
| `tasks_lifecycle` | 520 434 | `TypeOK`; `GateByApproval`: work starts past an unmet dependency only by way of an approver |
| `tasks_governance` | 527 072 | `ImplementsLifecycle` (refinement); `BudgetRespected`, `CrossOrgByPolicy`, `WorkReachesActiveAccount`: no hand-over, escalations included, overruns a budget, crosses a closed policy or reaches a disabled account |
| `causal_log` | 65 679 | `HlcOrderIsSeqOrder` (I4), `AheadOfJournal` (I3 across restarts), `CausalWhenShared`, `ReplyAfterEvent` |
| `service_lock` | 97 473 | `LockTypeOK`; with starts one at a time and crashes anywhere: `ImplementsStorageLock` (refinement: one holder), `HolderHasFile`, `RefusalJustified` |
| `connection_pool` | 19 932 | `NoQueueing`, `RefusedOnlyWhenFull`, `LockOutlivesListener`; liveness `NobodyWaitsForEver`, `StopEnds` |
| `messaging` | 1 776 972 | `ImplementsMailbox` (refinement); `RetryNeverRefused`; `NotificationsAgree`: the two programs that decide whether a conversation waits for a reply agree; `MarkIsForLast`: a no-reply mark is for the last message received; `HourlyBudget` over both kinds of messages; `PagesComplete`: a pagination skips nothing that was there at its boundary |
| `access` | 2 779 474 | `PassedWasValid`: who passes had shown each thing at some moment since it arrived; `FailuresBounded`: how many attempts get through in parallel; `HumanOfOrg`; `AuditOfCommitted` |
| `web` | 4 203 785 | `SessionsBounded`, `LoggedOutForEver`, `CachedAnswersAreRecent` |
| `operations` | 1 762 708 | `StopStops`: a stop that says so has stopped the server; `ServesOneStorage`: the database of one restore with the log or key of another only after a restore that said it failed; `ImplementsStorageLock` (refinement); liveness `CommandsEnd` |
| `api` | 385 500 | `ClientCallsAccepted`, `ChangesAudited`, `ChangesEntitled` |
| `service_lock_race`, `api_escalation` | – | each finds a documented statement violated: section 5 |

### Bounds, and why they are enough

* **Tasks.** Two tasks and three agents. Who may do what depends on the roles of
  at most three agents to a task (creator, holder, and a delegate, approver or
  escalation target), and every guard that relates tasks relates two: a
  dependency and its dependent, or a moved task and the load it adds to.
  The two runs split the features: one organization with dependencies,
  a client key and a delegation; two organizations with budgets, policies,
  escalation and status. `Limits = {1}` puts one agent at its budget with one
  task, so the second task is the one over the limit. `Managed` bounds which
  account the organizations' commands name. Dependency depth is limited to 1 (no
  dependencies in the second run) in place of the code's limit, so that a chain of
  two is past the boundary.
  `DepthBounded` needs three tasks and is run with two agents.
* **CausalLog.** Times 0, 1 and 3 with `MaxL = 2`: a physical clock can stand
  still, go backwards, jump, and leave the encodable range; `MaxC = 2` makes
  the counter overflow; `MaxOver` bounds how far it is followed past that.
  Three journal entries give a restart with entries before and after it.
* **ServiceLock.** Three servers (one crashed, one judging, one slipping in
  between) and a restore; a fourth process repeats one of these roles.
* **ConnectionPool.** Three clients for two workers, so that slots run out while
  one waits; two signals, which with the loop's own call are three overlapping
  calls of `stop`.
* **Messaging.** Two agents of two organizations and one group: a conversation
  has two sides, and a group adds a third kind of recipient. Three identifiers
  and two keys give a retry, a message after it, and a third in the same
  millisecond. `Limit = 1` row to a page makes every listing of two rows a
  pagination; `Hour = 1` with dates up to 2 lets messages leave the budget's
  window, whose limit is 1 for one agent. One thread is between its read and the write
  lock while others commit. `MCMessaging` names the four sends.
* **Access.** Two requests at a time, three in all, of fourteen kinds. `Max`,
  `Window` and `TTL` are 1 with a clock that runs to 2, so that a failure locks,
  expires, and a cached password does too; the cache has room for 2. Two
  organizations, the second created in the course of the run.
* **Web.** Two requests at a time, four in all, on two organizations, with
  `MaxSessions = 1` (the second login evicts), two attempts before the lockout,
  time to live 1 on a clock that runs to 2, one restart, one change of content.
* **Operations.** Three processes, two of which may die, one operator, four
  commands, two restores (the second may restore what was backed up between
  them): a command, what it left behind, and one that finds it.
* **Api.** All 65 commands and all kinds of principals; each field is missing,
  null, or takes one of the forms that its validator tells apart, one field at
  a time.

Symmetry is used over identifiers that no constant names, in the two task runs
(agents, tasks), in `access` (threads) and in `web` (organizations, threads),
and never with liveness.

Where deadlock is not checked (`CHECK_DEADLOCK FALSE`) the system really
stops: all tasks of the instance have ended, all processes have run, all
requests are answered, or the server has stopped.

### Fairness

`ConnectionPool` and `Operations` need some. In `ConnectionPool` the main thread, each worker and each thread
in `stop` is weakly fair: threads are scheduled, `serve_forever` polls twice
a second, `acquire` has a timeout of two seconds, and `queue.get` wakes a
worker. Nothing is assumed of a handler (a client that keeps sending never
leaves: only silence is limited, by 60 s), of signals, or of the end of the
process. That is why `NobodyWaitsForEver` and `StopEnds` rest on the
timeout of `acquire`: without it one set of stubborn clients would hold
up the accept loop, and with it every stop.

In `Operations` each operator's command is weakly fair (`WF_vars(OpStep(o))`):
the system runs the process, and its waits run out. Nothing is assumed of
servers: they may ignore a signal, never listen, or never die. `CommandsEnd`
therefore rests on the commands' timeouts alone.

## 4. Proofs

TLAPS proves these for all values of the constants that satisfy the named
assumptions of the modules. The bounds of TLC (`MaxJournal`, `MaxClock`,
`MaxRequests`, ...) are constants too, so they may be as large as one likes.

| Module | Theorem | Statement |
|---|---|---|
| `TasksProofs` | `TypeCorrect` | `Spec => []TypeOK` |
| | `GateCorrect` | `Spec => []GateByApproval` |
| | `Refinement` | `Spec => ImplementsLifecycle` |
| | `BudgetCorrect`, `PolicyCorrect`, `ActiveCorrect` | hand-overs respect budgets, policies and account status |
| `CausalLogProofs` | `LogTypeCorrect`, `OrderCorrect`, `AheadCorrect` | type invariant, I4 and I3 |
| | `CausalCorrect`, `ReplyCorrect` | causality with a shared clock |
| `ServerProofs` | `LockRefinement` | `LockSpec => ImplementsStorageLock` |
| | `LockTypeCorrect`, `ExclusionCorrect`, `FileCorrect`, `TurnedAwayCorrect` | types, one holder, its file, who is turned away, with serial starts |
| | `OutliveCorrect` | `Spec => []LockOutlivesListener` |
| | `QueueCorrect`, `RefusalCorrect` | no queue beyond the bound, no slot leaks |
| | `ListenerExclusive` | lock and server together: while a server listens, nobody else has the storage |
| `MessagingProofs` | `MailboxCorrect` | `Spec => ImplementsMailbox` |
| | `RetryCorrect` | `Spec => RetryNeverRefused` |
| | `NotificationsCorrect`, `MarkCorrect` | `NotificationsAgree`, `MarkIsForLast` |
| | `BudgetCorrect` | `HourlyBudget`, over messages and group messages |
| | `ListingsCorrect` | `PagesComplete` |
| `AccessProofs` | `PassedCorrect`, `HumanCorrect`, `AuditCorrect` | `PassedWasValid`, `HumanOfOrg`, `AuditOfCommitted` |
| | `FailuresCorrect` | `FailuresBounded`, for any number of threads |
| `WebProofs` | `LogoutCorrect`, `CacheCorrect`, `BoundCorrect` | `LoggedOutForEver`, `CachedAnswersAreRecent`, `SessionsBounded` |
| `OperationsProofs` | `StopCorrect`, `StorageCorrect` | `OneOperator => (Spec => []StopStops)`, and so for `ServesOneStorage` |
| | `ExclusionRefinement` | `OneOperator => (Spec => ImplementsStorageLock)` |
| `ApiProofs` | `ContractCorrect`, `AuditCorrect`, `EntitlementCorrect` | `ClientCallsAccepted`, `ChangesAudited`, `ChangesEntitled` |
| | `HandlersMatchDispatcher`, `ClientMatchesContract` | the tables agree, command by command |

How they go:

* **Tasks: type, gate, refinement.** The type invariant is inductive by itself:
  what a command and its escalations do to `state` and `assignee` is well typed
  (`EscalateHeld`). The gate is inductive relative to it: a completed dependency
  stays completed, the dependencies of a task are fixed when it is created, and
  an approver is never erased. For the refinement, each handler together with its
  escalations is one step of `TaskLifecycle`, or a stutter.
* **Budgets, policies, status.** What a command and the escalations it drags
  along add to an agent's tasks is a cardinality: the loop asks the budget
  before every move, so the load of the target grows by the tasks moved and
  stays within the budget (`EscalateLoads`), and that of everyone else does not
  grow. The policy needs one invariant, `TargetsInside`: an escalation target is
  a member of the organization that names it.
* **Order of stamps.** `HlcOrderIsSeqOrder` is not inductive alone. The open
  transaction's stamp has to be past the journal, and the clock not behind
  either; after a restart the clock comes from the largest committed stamp, which
  is the last one because of the order itself. Causality with a shared clock
  follows: both rules move one clock strictly forward.
* **The lock.** With serial starts one process acquires at a time; the file it has
  judged can only disappear meanwhile, so what it unlinks is that stale file,
  and nobody holds at that moment (`Serial`). Without serial starts there can be
  two holders, as `service_lock_race` shows. For the refinement, only the call
  that writes the PID takes the abstract lock (`WriterAcquires`): the file at the
  path is then the writer's, where a holder's would have to be. Every other call,
  stop or death gives back what its process had (`OthersKeep`). Where starts may
  overlap `HoldersIfSerial` is empty and nothing is claimed.
* **The pool.** `PoolInv` accounts for every slot: those taken are the ones held
  by the accept loop, the queued and handled connections and the workers about
  to release. Counting them against the workers gives an idle worker for every
  queued connection.
* **Lock and server together.** `ConnectionPool` is one process of
  `ServiceLock`. `ListenerExclusive` takes both specifications and the link
  between them, `KnowsItsLock`: while the server's own state says it has the
  lock, the process, if alive, holds it in `ServiceLock`. That is a hypothesis, since the
  two modules are not one specification; it stands for `_acquire_lock` returning
  in one exactly where `Write` ends in the other, and for the process dying
  in both at once. From it, from the exclusion of the lock and from
  `LockOutlivesListener` follows that a server listens alone.
* **Mailbox.** A transaction shows in the mailbox when it commits, so the
  invariant says of the one in progress what it will do to the box (nothing,
  one new message, one opening). That a sender's key names one row makes rows
  and messages one to one; without it, opening one row would show as several
  openings. A read keeps the date of whoever committed first because the row is
  read again under the write lock.
* **Retries.** An accepted message is in the table for good, and `Send` looks for
  it before it asks about policy, budget or recipient.
* **Marks, notifications, budget.** All three are about the tables as a
  transaction leaves them, so the invariant is about two databases at once
  (`TablesInv`): the committed one and the one of the open transaction, which
  only extends it (`Extends`). Of each it says that its rows are finitely many
  and well formed (`Shape`), that a mark names the last message its owner
  received in the conversation (`Marked`) and that no sender has more rows in the
  hour than its budget allows (`Spent`). `Marked` needs a last message to exist:
  the order of `_pagination` is a strict total order on rows (`BeforeOrder`), and
  in a finite set such an order has a greatest element (`Maximal`, from the
  well-foundedness of strict inclusion, which stands in for an induction over
  the set). One insertion moves a count by one (`InsertSpends`), and the passing
  of time only takes rows out of the hour (`TimePasses`).
* **Listings.** `PageInv` (its part for a listing is `Listing`) says where the
  cursor stands among the rows: what was given lies at or before it, and what was
  there at the first page and was not given lies after it and is still in the
  listing. No commit can upset that: rows keep their date and what they are part
  of, so what is in a listing stays in it (`ItemsGrow`, `PageStays`), and a row
  that comes in behind the cursor was not there at the first page. Only the
  listing of unread messages loses rows, and `PagesComplete` excepts it. The step
  that reads a page needs that its items have an order (`Sortable`); `Ordered` is
  that sequence, and `Appended` says what is left after it.
* **Failures.** `FailuresBounded` alone is not inductive: a thread that was let
  past the count will add a row later, whatever the count is by then. `Limited`
  bounds the sum of the rows in the window and of the threads past the count for
  that name (`Past`). Passing the count needs fewer rows than the maximum, with
  at most all threads past it; recording a failure adds a row and takes its
  thread out; pruning and the clock only take rows away.
* **Who passes.** What a request holds is a row read at one time, an
  organization read later and an entry of a cache. `IInv` says of each what was
  true when it was read (`RowShown`, `OrgShown`), of the cache that an entry has
  the password of its hash (`CacheOk`), and of the tables that a row's
  organization and type stay as they are. The human account of an organization
  follows from what each handler may touch (`Touches`); the audit from a count
  of the commands committed and not yet audited.
* **Sessions.** A token is issued once, a request that read its session stores it
  anew only while the table still has one under that token, and logout removes
  it: so every token in the table or in a thread was issued, and those that
  ended are not in the table. The bound takes that eviction removes the least
  element of a finite set of numbers. For the cache, the moment a thread looked
  at its clock is not after the moment it read from the service (`ReadLater`).
* **Stop and storage**, for an operator whose commands do not overlap
  (`OneOperator`), any number of server processes and any deaths. Every server
  that has written the PID file is the one it names, and one that has not yet is
  the one a start still waits for (`OneServer`); so when the file names nobody
  alive, nobody serves. The lock is with the server or with the restore
  (`LockHeld`), and a restore that is killed leaves its mark, which is not
  stale; one that fails frees the lock and says so (`store.failed`). So whenever
  the lock is not a restore's, database, log and key fit or the restore of that
  database has failed, and so it is with the two halves of every archive, which
  carries the mark along (`Storage`).
* **One storage lock.** For `Operations` the refinement goes by steps that take
  the lock and steps that take nothing (`StepTakes`). A server's start and a
  restore take it, and both have found it free or stale, when nobody has it
  (`FreeNoHolder`, from `LockHeld`); all other steps take nothing, and as
  there is one holder at most (`OneHolder`), what they leave is that holder or
  nobody.
* **The contract.** The invariant follows one request: what it has asked
  (`Requested`: a call of the client has the fields its method sends), what the
  steps before the handler have found out (`Checked`: past authentication the
  identity is the caller's, past dispatch it is admitted) and what a handler
  has done (`Done`: a change not yet audited is of a command that the dispatcher
  audits). The rest is about the tables. A fact about every row of a table
  is proved for each section of it and carried to the whole by `MergedAre`; that
  the methods have the parameters of the commands takes a comparison of each
  section of `COMMAND_SPECS` with each of the client's (`ClientMatchesContract`),
  that defaults are accepted one of the parameters with the validators
  (`KindsAccept`, `KindsApart`). The commands are spelled out in the module, so
  TLC goes through every row as well, for two transports; what the proof adds is
  the reason: which agreements between the tables the properties rest on.

Only model-checked: the liveness properties (`NobodyWaitsForEver`, `StopEnds`,
`CommandsEnd`), which are out of the prover's reach.

## 5. Where the code and its documentation disagree

Two runs of section 3 have a counterexample that shows the behaviour. The others
have a configuration here, to be run by hand, that finds it:

| Configuration | Module | Property |
|---|---|---|
| `ServiceLockRace.cfg` (run) | `ServiceLock` | `MutualExclusion` |
| `ApiEscalation.cfg` (run) | `Api` | `EscalationNeverRaises` |
| `TasksDependencyGate.cfg`, `TasksDepthBounded.cfg`, `TasksRevocation.cfg` | `MCTasks` | `DependencyGate`, `DepthBounded`, `RevocableDelegations` |
| `CausalLogStandalone.cfg` | `MCCausalLog` | `CausallyAfter` |
| `MessagingOrgListing.cfg` | `MCMessaging` | `OrgListingComplete` |
| `AccessHumanDisabled.cfg` | `MCAccess` | `HumanNeverDisabled` |
| `WebTokenRestart.cfg` | `MCWeb` | `TokenReadAgain` |
| `OperationsDoubleStart.cfg`, `OperationsPidReuse.cfg` | `Operations` | `StopStops` with two operators, `StrangersSpared` |
| `OperationsBackupRace.cfg` | `Operations` | `ServesOneStorage` with two operators |
| `OperationsRestoreFails.cfg` | `Operations` | `NeverServesMixed` |
| `ApiExamples.cfg`, `ApiRefusals.cfg`, `ApiUnreachable.cfg`, `ApiPassword.cfg`, `ApiAuditRow.cfg` | `Api` | `ExamplesAccepted`, `RefusalsDocumented`, `UnreachableIsTransport`, `WrongPasswordRefused`, `ChangedIsAudited` |

* **`DependencyGate`.** SPEC.txt F5 wants all dependencies completed before
  `in_progress`. `reject_task` puts a task there without asking: a submitted
  task sent to an approver and rejected is in progress.
* **`DepthBounded`.** `_dependency_depth` searches breadth-first and visits a
  task once, so it measures the longest of the *shortest* paths: with
  `t2 → t1`, a task that depends on both gets a chain of two counted as one.
* **`RevocableDelegations`.** SPEC.txt F17 lets the delegator revoke at
  once. `revoke_delegation` wants the task visible; a delegator who was its
  holder and lost it by transfer gets `TASK_NOT_FOUND`.
* **`CausallyAfter`.** A comment in `_tasks_message` says the event is causally
  after the remote message. `run_bridge` gives the bridge a clock of its own,
  so the service may stamp the event before it. With a shared clock it holds,
  and is proved (`CausalCorrect`).
* **`MutualExclusion`.** `db.py` and `backup.py` say that the lock
  guarantees one writer. When starts overlap, the stale file that one process
  has judged can be replaced by another's lock before it is unlinked.
* **`EscalationNeverRaises`.** `validate_positive_seconds` accepts any integer
  from 1 on. `_check_escalations` subtracts the delay from the date, which
  overflows for some 2000 years and more: every command of the organization
  that ends with an escalation check then fails with `INTERNAL_ERROR`. A comment
  in the loop says an escalation must not raise.
* **`OrgListingComplete`.** The listing of an organization's conversations keeps
  those whose last message is not later than the boundary (`HAVING
  MAX(created_at) <= boundary`). A conversation that receives a message after
  the first page leaves the pages still to come, which SPEC.txt §9 and
  SPEC_WEB.txt 7.3 exclude.
* **`HumanNeverDisabled`.** SPEC_WEB.txt R5.5 says that the human account cannot
  be disabled by itself. `revoke_observer_account` disables any member of the
  organization, the human included.
* **`TokenReadAgain`.** SPEC_WEB.txt C6.5 has the web interface read the trust
  token again when the service restarts. `start` reads it once; until the
  interface restarts too, every login fails.
* **`StopStops` with two operators.** A daemon writes the PID file before it
  takes the lock. One that then fails to take it removes the PID file, of the
  server that runs, on its way out; `stop` finds no file and says that the
  server is already stopped. With one operator the property holds (`operations`).
* **`ServesOneStorage` with two operators.** A backup reads the key, then copies
  the database, without the lock. A restore between the two makes an archive
  with the key of one and the data of the other; restored, its cursors are
  refused. With one operator the property holds (`operations`).
* **`NeverServesMixed`.** The docstring of `restore` says that the database is
  fully replaced and the cursor signing key restored. An error after
  `os.replace` (`backup.py` 271–285: the WAL cannot be unlinked, the key file
  not be opened, Ctrl-C) ends in the `finally`, which frees the lock: the new
  database stays, with the old key and perhaps the old WAL, and the next server
  serves the two together, so every cursor of the new database is refused. The
  command does report the failure, and a later restore that succeeds puts it
  right: `ServesOneStorage`, which excepts just this, holds and is proved.
* **`StrangersSpared`.** SPEC_CLI.md calls the PID file robust against PIDs used
  again. `stop` signals any live process that has the PID.
* **`ExamplesAccepted`.** The help's "full JSON envelope" examples of
  `create_agent`, `list_orgs`, `send_message`, `create_task` and
  `get_group_members` lack fields the validation wants, and the identifier in
  that of `get_org_conversation` is no UUID of version 4.
* **`RefusalsDocumented`.** `send_message` may refuse with `QUOTA_EXCEEDED`,
  `create_task`, `transfer_task` and `create_delegation` with `POLICY_DENIED`;
  the help does not list these.
* **`UnreachableIsTransport`.** The client's documentation has connection failures
  raise its own transport error. Over TCP the connection is made outside the
  `try`, so the caller gets an `OSError`.
* **`WrongPasswordRefused`.** A wrong password with characters outside ASCII makes
  the comparison with the trust token raise, so the caller gets
  `INTERNAL_ERROR` instead of a refusal.
* **`ChangedIsAudited`.** `audit.py` says that the audit row is written in the
  transaction of the command. `_audit_action` is a second one: a server that
  dies between them has changed something without a row. What does hold, and is
  proved, is the converse (`AuditOfCommitted`).

Smaller observations that no run checks:

* SPEC V.7bis excludes tasks from communication policies; code and tests apply
  them. `request_approval` asks no policy at all.
* SPEC F9 has escalation "at each change of state"; approvals and rejections
  do not trigger it. `update_task_state` escalates the caller's organization,
  its docstring says the assignee's.
* A pending task whose approver is disabled is stuck; a dependency that failed
  or was canceled blocks its dependents for good.
* A retried `create_task` whose task has meanwhile been handed over is refused
  where SPEC.txt:415 has it return the existing task.
* A stamp that overflows leaves the clock on the value that does not encode,
  so every later stamp of the process fails until the physical clock passes it.
* A crash between creating the lock file and writing the PID, or of a restore,
  leaves a lock that is never stale (`RefusalJustified` names both cases).
* A stop signal before `_server` is set is lost: the server goes on to serve.
* `start` that fails after `_acquire_lock` (the socket is in use, the bind
  fails) leaves the lock file and the web token behind.
* `stop` removes files after its critical section; the loop's own `stop` can
  return meanwhile and the process end, leaving them, although SPEC_CLI.md
  lists them as removed by a clean stop. The lock left behind is stale.
* The reply status in a started pagination is not frozen at the boundary.
  Messages of one millisecond are ordered by random identifiers, not by arrival
  (SPEC.txt:1689). Rows dated before the boundary and committed after the first
  page do appear on later pages (SPEC.txt:1320).
* A group send that repeats a client identifier gets the old message back,
  whatever the group and the content.
* `_destroy_session_for` compares by identity an object that every use replaces,
  so it destroys nothing, though the comment of `_serve_json` says the session is
  destroyed. A failed login that began before a lockout sets
  `locked_until` back to 0. `_cached` may store what was read before an
  invalidation; and an organization that has been disabled still gets cached
  answers until they expire.
* Failures are counted before Argon2 and recorded after it, so as many attempts
  as there are threads get through beyond the maximum (`FailuresBounded` has the
  bound). The authentication cache may exceed its size by the requests in
  progress.
* `create_observer_account` accepts the names reserved for human accounts.
  `create_org` by the local web identity is not audited.
* `set_agent_card` overwrites the card that its documentation says stays
  displayed until the new one is approved; `approve_agent_card` approves
  whatever is current when it commits; the search over cards ignores the
  boundary of its cursor. The bridge's agent card lists pending capabilities.
* A card with `[null]` as capabilities, integers from 2^63 on, lone surrogates
  and a cursor outside ASCII end in `INTERNAL_ERROR`. An unknown command
  name, field or event type with a lone surrogate gets no answer at all, since
  the error quotes it and cannot be encoded. Due dates may have digits of other scripts, and days that no
  calendar has. The help calls lists and objects "boolean".
* `update` ignores a restart that failed and says that the update was applied;
  when the update itself fails, all services stay stopped. A backup before a
  stop misses what is committed in between.
* The Unix client has no timeout. `get_group_members` takes a limit and a cursor
  and ignores both.
* `get_events` gives no cursor to a caller that has caught up, who has to read
  its last page again. Appending an event purges by the retention of the acting
  organization, which may leave another's `prev_event` naming a row that is gone;
  the help calls the retention one "of the organization's consultable events".
* A heartbeat revives a stale registry card that has not been evicted yet.

## 6. What is not modelled

* Bytes: framing of requests, JSON, HTTP, signatures of cursors, Argon2 and
  encryption. A password is a value, a hash is a password with a salt, a cursor
  is the record it carries; JSON values are their type and form.
* Text: titles, results, notes, help texts, logs, pages of the web interface.
* Time, where nothing reads it twice: in `Tasks` overdue tasks, expiring
  delegations and timeouts may happen at any moment, in `CausalLog` the
  physical clock shows any value. `Messaging`, `Access` and `Web` have a clock,
  which does not jump back.
* Listings of tasks, agents, events and audit rows, which write nothing and use
  the keyset condition that `Messaging` has.
* The chain and purge of events: each is one statement inside the transaction of
  a task command, and no document says more of them than that statement does.
* The registry: one dictionary under one lock with a single race (section 1).
* Single-row writes with no protocol: departments, cards, descriptions,
  directory visibility. `Api` has who may call them, with which fields.
* Migrations and installation; command-line commands that send one request and
  print the answer; archive format and pruning of backups; systemd.
* Reuse of PIDs in `ServiceLock` (it is in `Operations`); requests already being
  handled when a server stops (`stop` does not wait for them) in
  `ConnectionPool`; failures between publishing the server and entering the
  loop.

## 7. Plan

The order is by what would hurt most if it were wrong.

| # | Modules | Content | State |
|---|---|---|---|
| 1 | `TaskLifecycle`, `Tasks` | task commands and governance | all five safety properties and the refinement proved |
| 2 | `HLC`, `CausalLog` | stamps, journal, bridge | proved |
| 3 | `StorageLock`, `ServiceLock` | lock protocol | refinement and safety proved for serial starts |
| 4 | `ConnectionPool` | threads, stop, liveness | safety proved, also together with the lock |
| 5 | `Mailbox`, `Messaging` | messages, retries, groups, listings page by page | refinement and the five safety properties proved |
| 6 | `Access` | authentication, accounts, audit | all four proved |
| 7 | `Web` | sessions, lockout, cache | proved |
| 8 | `Operations` | server process and operator's commands, storage | safety and the refinement of `StorageLock` proved for one operator |
| 9 | `ApiCommands`, `ApiClients`, `Api` | contract of the 65 commands | proved |
| 10 | `Journal` | predecessor chain, purge by retention, pages of `get_events` for a caller that polls | next |
| 11 | `Registry` | slow fetches, heartbeats, eviction: as far as it asks a distinct question | open |
| 12 | proofs | every safety property of the passing runs | done |
