----------------------------- MODULE Operations -----------------------------
(***************************************************************************)
(* The server's process and the commands that start, stop, update, back up *)
(* and restore it: the PID file, the service lock, the database with its   *)
(* write-ahead log (WAL) and the key of the cursors.                       *)
(*                                                                         *)
(* A command is a process of the operator's: it looks at the PID file and  *)
(* at the socket, sends a signal or spawns a server, and waits, for a time *)
(* that may run out at any moment.  Servers die at any moment, and so does *)
(* a restore.  The PID of a dead server may name another process later.    *)
(*                                                                         *)
(* Taking the lock is one step here; ServiceLock has the system calls.     *)
(* Start-up and shutdown of the listener are in ConnectionPool: here it is *)
(* open while its server is serving.                                       *)
(***************************************************************************)
EXTENDS Integers, FiniteSets

CONSTANTS
  Pids,         \* processes that servers are started in, each once
  Operators,    \* whoever gives commands: one, when commands do not overlap
  Commands,     \* bound: the commands given
  MaxCommands, MaxDeaths, MaxRestores   \* bounds

ASSUME OperationsAssumption ==
  /\ {"free", "restore", "none"} \cap Pids = {}
  /\ Commands \subseteq {"start", "stop", "stop --force", "restart", "update", "backup", "restore"}
  /\ MaxCommands \in Nat /\ MaxDeaths \in Nat /\ MaxRestores \in Nat

VARIABLES
  proc,       \* what each server process does
  signalled,  \* processes with a stop signal they have not handled yet
  strangers,  \* PIDs of dead servers that name another process by now
  pidfile,    \* the PID in synapse.pid, or NoPid
  lock,       \* the PID in the lock file, "restore" or "free"
  store,      \* database file, WAL and cursor key: each named by the restore
              \* it comes from, 0 at first; and whether the restore that the
              \* database comes from has failed (what its command said)
  archives,   \* backups: the database and the key they hold, and that mark
  others,     \* running among web interface and bridge
  op,         \* where each operator's command is
  commands, deaths, restores

machine  == <<proc, signalled, strangers, pidfile, lock>>
counters == <<commands, deaths, restores>>
vars     == <<machine, store, archives, others, op, counters>>

NoPid == "none"
NoWal == -1
Empty == -1    \* a key file that was opened for writing, and not written

Alive(p) == proc[p] \notin {"unborn", "dead"} \/ p \in strangers

\* socket_responds: somebody accepts connections.
SocketResponds == \E p \in Pids : proc[p] = "serving"

\* lock_is_stale: only a PID can be, when no process has it.
\* Mutant: the mark of a restore too.
StaleMark(l) == l = "restore" \/ (l \in Pids /\ ~Alive(l))
Stale(l) == l \in Pids /\ ~Alive(l)

\* service_state.
ServiceState ==
  IF pidfile # NoPid /\ ~Alive(pidfile) THEN "stopped"
  ELSE IF SocketResponds THEN "running"
  ELSE IF pidfile = NoPid THEN "stopped" ELSE "degraded"

-----------------------------------------------------------------------------
(* The server process (run_server_daemon, _run_server_foreground).         *)

ProcFrame == UNCHANGED <<archives, others, op, counters>>

\* The PID is written first, over any other.
WritePidFile(p) ==
  /\ proc[p] = "new" /\ proc' = [proc EXCEPT ![p] = "filed"]
  /\ pidfile' = p
  /\ UNCHANGED <<signalled, strangers, lock, store>> /\ ProcFrame

\* SynapseServer.start: the key is checked, then the lock taken; one step, since
\* only commands that overlap come in between.  What signs is read later, under
\* the lock.
StartServing(p) ==
  /\ proc[p] = "filed"
  /\ IF store.key # Empty /\ (lock = "free" \/ Stale(lock))
     THEN proc' = [proc EXCEPT ![p] = "serving"] /\ lock' = p
     ELSE proc' = [proc EXCEPT ![p] = "ended"] /\ UNCHANGED lock
  /\ UNCHANGED <<signalled, strangers, pidfile, store>> /\ ProcFrame

\* A write leaves frames in the WAL; the last connection to close moves them to
\* the database and removes it.
Write(p) ==
  /\ proc[p] = "serving"
  /\ store' \in {[store EXCEPT !.wal = store.db], [store EXCEPT !.wal = NoWal]}
  /\ UNCHANGED machine /\ ProcFrame

\* The signal's handler calls SynapseServer.stop, which does nothing to a server
\* that does not listen yet.
\* Mutant: it releases the lock before it stops.
HandleSignalReleases(p) ==
  /\ p \in signalled /\ proc[p] \in {"filed", "serving", "stopping", "ended"}
  /\ signalled' = signalled \ {p}
  /\ proc' = [proc EXCEPT ![p] = IF @ = "serving" THEN "stopping" ELSE @]
  /\ lock' = IF proc[p] = "serving" THEN "free" ELSE lock
  /\ UNCHANGED <<strangers, pidfile, store>> /\ ProcFrame
HandleSignal(p) ==
  /\ p \in signalled /\ proc[p] \in {"filed", "serving", "stopping", "ended"}
  /\ signalled' = signalled \ {p}
  /\ proc' = [proc EXCEPT ![p] = IF @ = "serving" THEN "stopping" ELSE @]
  /\ UNCHANGED <<strangers, pidfile, lock, store>> /\ ProcFrame

ReleaseLock(p) ==
  /\ proc[p] = "stopping" /\ proc' = [proc EXCEPT ![p] = "ended"]
  /\ lock' = "free"
  /\ UNCHANGED <<signalled, strangers, pidfile, store>> /\ ProcFrame

\* The finally of both: the PID file is removed, whoever wrote it.
RemovePidFile(p) ==
  /\ proc[p] = "ended" /\ proc' = [proc EXCEPT ![p] = "dead"]
  /\ pidfile' = NoPid /\ signalled' = signalled \ {p}
  /\ UNCHANGED <<strangers, lock, store>> /\ ProcFrame

Die(p) ==
  /\ proc[p] \notin {"unborn", "dead"} /\ deaths < MaxDeaths
  /\ proc' = [proc EXCEPT ![p] = "dead"] /\ signalled' = signalled \ {p}
  /\ deaths' = deaths + 1
  /\ UNCHANGED <<strangers, pidfile, lock, store, archives, others, op, commands, restores>>

\* The system gives the PID to a process that has nothing to do with Synapse; a
\* stop signal may end that.
Recycle(p) ==
  /\ proc[p] = "dead" /\ p \notin strangers /\ strangers' = strangers \cup {p}
  /\ UNCHANGED <<proc, signalled, pidfile, lock, store>> /\ ProcFrame
StrangerEnds(p) ==
  /\ p \in strangers /\ strangers' = strangers \ {p} /\ signalled' = signalled \ {p}
  /\ UNCHANGED <<proc, pidfile, lock, store>> /\ ProcFrame

-----------------------------------------------------------------------------
(* Commands.                                                               *)

Idle == [cmd |-> "none", step |-> "idle", pid |-> NoPid, arch |-> NoPid, key |-> 0]

At(o, step)      == op[o].step = step
Goes(o, step)    == op' = [op EXCEPT ![o].step = step]
Ends(o)          == op' = [op EXCEPT ![o] = Idle]
OpFrame          == UNCHANGED counters

First(cmd) ==
  CASE cmd = "start"            -> "start"
    [] cmd \in {"backup", "update"} -> "backup"
    [] cmd = "restore"          -> "lock"
    [] OTHER                    -> "stop"

Give(o) ==
  /\ At(o, "idle") /\ commands < MaxCommands /\ commands' = commands + 1
  /\ \E cmd \in Commands : op' = [op EXCEPT ![o] = [Idle EXCEPT !.cmd = cmd, !.step = First(cmd)]]
  /\ UNCHANGED <<machine, store, archives, others, deaths, restores>>

\* What follows the end of a command's server part: update goes on whether the
\* server started or not.
AfterStart(o) == IF op[o].cmd = "update" THEN Goes(o, "again") ELSE Ends(o)

\* _start_detached: the state, the lock, then a new process.  Bound: without a PID
\* left none is spawned.
Start(o) ==
  /\ At(o, "start")
  /\ \/ /\ ServiceState = "stopped" /\ (lock = "free" \/ Stale(lock))
        /\ \E p \in Pids :
             /\ proc[p] = "unborn" /\ proc' = [proc EXCEPT ![p] = "new"]
             /\ op' = [op EXCEPT ![o].step = "ready", ![o].pid = p]
     \/ /\ \/ ServiceState # "stopped" \/ (lock # "free" /\ ~Stale(lock))
           \/ \A p \in Pids : proc[p] # "unborn"
        /\ AfterStart(o) /\ UNCHANGED proc
  /\ UNCHANGED <<signalled, strangers, pidfile, lock, store, archives, others>> /\ OpFrame

Ready(o) ==
  /\ At(o, "ready") /\ SocketResponds /\ pidfile # NoPid
  /\ AfterStart(o)
  /\ UNCHANGED <<machine, store, archives, others>> /\ OpFrame

\* The time is up: the child is asked to end, and killed if it does not.
NotReady(o) ==
  /\ At(o, "ready")
  /\ Goes(o, "reap") /\ signalled' = signalled \cup ({op[o].pid} \cap {p \in Pids : Alive(p)})
  /\ UNCHANGED <<proc, strangers, pidfile, lock, store, archives, others>> /\ OpFrame
\* Mutant: only asked.
ReapAsked(o) ==
  /\ At(o, "reap") /\ AfterStart(o)
  /\ UNCHANGED <<machine, store, archives, others>> /\ OpFrame
Reap(o) ==
  LET p == op[o].pid IN
  /\ At(o, "reap") /\ AfterStart(o)
  /\ proc' = [proc EXCEPT ![p] = "dead"] /\ signalled' = signalled \ {p}
  /\ UNCHANGED <<strangers, pidfile, lock, store, archives, others>> /\ OpFrame

\* stop_service: nothing to stop, or a signal to the PID of the file.
Look(o) ==
  /\ At(o, "stop")
  /\ \/ /\ ServiceState = "stopped" \/ pidfile = NoPid
        /\ Goes(o, "stopped") /\ UNCHANGED signalled
     \/ /\ ServiceState # "stopped" /\ pidfile # NoPid
        /\ signalled' = signalled \cup {pidfile}
        /\ op' = [op EXCEPT ![o].step = "wait", ![o].pid = pidfile]
  /\ UNCHANGED <<proc, strangers, pidfile, lock, store, archives, others>> /\ OpFrame

Gone(o) ==
  /\ op[o].step \in {"wait", "killed"} /\ ~Alive(op[o].pid)
  /\ pidfile' = NoPid /\ Goes(o, "stopped")
  /\ UNCHANGED <<proc, signalled, strangers, lock, store, archives, others>> /\ OpFrame

\* Fifteen seconds are over.  Without --force the command fails; an update that
\* fails here leaves the others stopped.
\* Mutant: it waits until the process is gone.
TimeoutNever(o) ==
  /\ op[o].cmd = "stop --force" /\ At(o, "wait") /\ ~Alive(op[o].pid)
  /\ Ends(o) /\ UNCHANGED <<machine, store, archives, others>> /\ OpFrame
Timeout(o) ==
  LET p == op[o].pid IN
  /\ At(o, "wait") /\ Alive(p)
  /\ IF op[o].cmd = "stop --force"
     THEN /\ proc' = [proc EXCEPT ![p] = "dead"] /\ strangers' = strangers \ {p}
          /\ signalled' = signalled \ {p} /\ Goes(o, "killed")
     ELSE Ends(o) /\ UNCHANGED <<proc, signalled, strangers>>
  /\ UNCHANGED <<pidfile, lock, store, archives, others>> /\ OpFrame

\* Five more seconds.
GiveUp(o) ==
  /\ At(o, "killed") /\ Alive(op[o].pid) /\ Ends(o)
  /\ UNCHANGED <<machine, store, archives, others>> /\ OpFrame

\* The command has said that the server is stopped.
Stopped(o) ==
  /\ At(o, "stopped")
  /\ CASE op[o].cmd = "restart" -> Goes(o, "start")
       [] op[o].cmd = "update"  -> Goes(o, "install")
       [] OTHER                 -> Ends(o)
  /\ UNCHANGED <<machine, store, archives, others>> /\ OpFrame

\* _backup: the key, then the database.
ReadKey(o) ==
  /\ At(o, "backup")
  /\ IF store.key = Empty THEN Ends(o)
     ELSE op' = [op EXCEPT ![o].step = "copy", ![o].key = store.key]
  /\ UNCHANGED <<machine, store, archives, others>> /\ OpFrame
CopyDatabase(o) ==
  /\ At(o, "copy")
  /\ archives' = archives \cup {[db |-> store.db, key |-> op[o].key, failed |-> store.failed]}
  /\ IF op[o].cmd = "update" THEN Goes(o, "halt") ELSE Ends(o)
  /\ UNCHANGED <<machine, store, others>> /\ OpFrame

\* _stop_services: the others first; that they do not stop is not a failure.
HaltOthers(o) ==
  /\ At(o, "halt") /\ Goes(o, "stop")
  /\ others' \in SUBSET others
  /\ UNCHANGED <<machine, store, archives>> /\ OpFrame

\* _run_update_command.  If it fails everything stays stopped.
Install(o) ==
  /\ At(o, "install")
  /\ Goes(o, "start") \/ Ends(o)
  /\ UNCHANGED <<machine, store, archives, others>> /\ OpFrame

\* The rest of _restart_services.  The web interface wants the server, and the
\* command ends there when it is not up.
StartOthers(o) ==
  /\ At(o, "again") /\ Ends(o)
  /\ others' \in IF SocketResponds THEN {{"web"}, {"web", "a2a"}} ELSE {others}
  /\ UNCHANGED <<machine, store, archives>> /\ OpFrame

\* _restore, under the lock.
Lock(o) ==
  /\ At(o, "lock")
  /\ IF restores < MaxRestores /\ archives # {} /\ (lock = "free" \/ Stale(lock))
     THEN /\ lock' = "restore"
          /\ \E a \in archives : op' = [op EXCEPT ![o].step = "replace", ![o].arch = a]
     ELSE Ends(o) /\ UNCHANGED lock
  /\ UNCHANGED <<proc, signalled, strangers, pidfile, store, archives, others>> /\ OpFrame

\* Up to os.replace: the archive is checked, ensure_storage moves the WAL to the
\* database if the disk has room, and the new file takes the place.  An error in
\* any of it leaves the database as it was.  After any error, here and below, the
\* lock is released and the command fails (the finally; an interrupt does it too).
Replace(o) ==
  /\ At(o, "replace")
  /\ \E w \in {NoWal, store.wal} :
       \/ /\ Goes(o, "unlink") /\ restores' = restores + 1
          /\ store' = [store EXCEPT !.db = restores', !.wal = w, !.failed = FALSE]
       \/ /\ Goes(o, "unlock") /\ UNCHANGED restores
          /\ store' = [store EXCEPT !.wal = w]
  /\ UNCHANGED <<machine, archives, others, commands, deaths>>

\* An error between the database and the key: the old key stays.
FailsHalfway(o) == Goes(o, "unlock") /\ store' = [store EXCEPT !.failed = TRUE]

UnlinkWal(o) ==
  /\ At(o, "unlink")
  /\ \/ Goes(o, "truncate") /\ store' = [store EXCEPT !.wal = NoWal]
     \/ FailsHalfway(o)
  /\ UNCHANGED <<machine, archives, others>> /\ OpFrame

\* chmod of the database, then open for writing.
TruncateKey(o) ==
  /\ At(o, "truncate")
  /\ \/ Goes(o, "write") /\ store' = [store EXCEPT !.key = Empty]
     \/ FailsHalfway(o)
  /\ UNCHANGED <<machine, archives, others>> /\ OpFrame

\* The archive's key, which is that of the new database if it was that of the
\* database in the archive; then chmod.  Either may fail.
RestoredKey(a) == IF a.key = a.db THEN store.db ELSE a.key
WriteKey(o) ==
  /\ At(o, "write") /\ Goes(o, "unlock")
  /\ LET key == RestoredKey(op[o].arch) IN
     store' \in {[store EXCEPT !.key = key, !.failed = op[o].arch.failed],
                 [store EXCEPT !.key = key, !.failed = TRUE],
                 [store EXCEPT !.failed = TRUE]}
  /\ UNCHANGED <<machine, archives, others>> /\ OpFrame

Unlock(o) ==
  /\ At(o, "unlock") /\ Ends(o) /\ lock' = "free"
  /\ UNCHANGED <<proc, signalled, strangers, pidfile, store, archives, others>> /\ OpFrame

Restoring == {"replace", "unlink", "truncate", "write", "unlock"}

\* A restore is killed.
RestoreDies(o) ==
  /\ op[o].step \in Restoring /\ deaths < MaxDeaths /\ deaths' = deaths + 1
  /\ Ends(o)
  /\ UNCHANGED <<machine, store, archives, others, commands, restores>>

-----------------------------------------------------------------------------

Init ==
  /\ proc = [p \in Pids |-> "unborn"] /\ signalled = {} /\ strangers = {}
  /\ pidfile = NoPid /\ lock = "free"
  /\ store = [db |-> 0, wal |-> NoWal, key |-> 0, failed |-> FALSE]
  /\ archives = {} /\ others = {}
  /\ op = [o \in Operators |-> Idle]
  /\ commands = 0 /\ deaths = 0 /\ restores = 0

ProcNext(p) ==
  \/ WritePidFile(p) \/ StartServing(p) \/ Write(p) \/ HandleSignal(p) \/ ReleaseLock(p)
  \/ RemovePidFile(p) \/ Die(p) \/ Recycle(p) \/ StrangerEnds(p)

\* A step of a command that has begun.
OpStep(o) ==
  \/ Start(o) \/ Ready(o) \/ NotReady(o) \/ Reap(o)
  \/ Look(o) \/ Gone(o) \/ Timeout(o) \/ GiveUp(o) \/ Stopped(o)
  \/ ReadKey(o) \/ CopyDatabase(o) \/ HaltOthers(o) \/ Install(o) \/ StartOthers(o)
  \/ Lock(o) \/ Replace(o) \/ UnlinkWal(o) \/ TruncateKey(o) \/ WriteKey(o) \/ Unlock(o)

Next ==
  \/ \E p \in Pids : ProcNext(p)
  \/ \E o \in Operators : Give(o) \/ OpStep(o) \/ RestoreDies(o)

\* The system runs commands; nothing is assumed of servers.
Fairness == \A o \in Operators : WF_vars(OpStep(o))

Spec == Init /\ [][Next]_vars /\ Fairness

-----------------------------------------------------------------------------
(* Properties.                                                             *)

\* When stop, or the stop in a restart or an update, says that the server is
\* stopped, none is serving: so nothing writes while an update is installed
\* (stop_service; SPEC_CLI 5.2).  It takes that commands do not overlap.
StopStops ==
  \A o \in Operators : op[o].step \in {"stopped", "install"} => ~SocketResponds

\* A server serves a database with the WAL and the key that belong to it, unless
\* the restore of that database said that it failed.  So a restore that is killed
\* among the three leaves nothing that is served, one that was said to succeed has
\* all three in place, and it puts right what a failed one left; a backup, which
\* copies two of them one after the other, copies what fits (_restore, _backup).
\* It takes that commands do not overlap.
Mixed == store.wal \notin {NoWal, store.db} \/ store.key # store.db
ServesOneStorage == SocketResponds /\ Mixed => store.failed

\* The same of every restore.  It does not hold: one that fails between database
\* and key frees the lock, and a server starts with the new database and the old
\* key (OperationsRestoreFails.cfg).
NeverServesMixed == SocketResponds => ~Mixed

\* Servers and restores have the storage one at a time, whatever starts, stops,
\* kills and deaths: a server has it until it releases the lock or dies, a restore
\* until its database, WAL and key are in place, it fails or is killed (_acquire_lock,
\* _acquire_service_lock).  It takes that commands do not overlap.
Holders == {p \in Pids : proc[p] \in {"serving", "stopping"}}
           \cup {o \in Operators : op[o].step \in Restoring}
Exclusion == INSTANCE StorageLock WITH Users <- Pids \cup Operators, holders <- Holders
ImplementsStorageLock == Exclusion!Spec

\* Every command ends: no wait depends on what a server does.
CommandsEnd ==
  \A o \in Operators : [](~At(o, "idle") => <>At(o, "idle"))

\* SPEC_CLI, decision 4: the PID files are robust to PIDs that are used again: a
\* command never signals another process.
StrangersSpared ==
  [][strangers \cap (signalled' \ signalled) = {}]_vars
=============================================================================
