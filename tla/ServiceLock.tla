---------------------------- MODULE ServiceLock ----------------------------
(***************************************************************************)
(* The service lock: a file at a fixed path that a server creates with     *)
(* O_EXCL and fills with its PID, and that an offline restore creates with *)
(* O_EXCL and fills with "restore".  A file whose PID belongs to no live   *)
(* process is stale and may be removed by the next one to come.            *)
(*                                                                         *)
(* Each system call is one step; processes interleave between any two and  *)
(* may die anywhere.  A process of the model runs once and its PID is not  *)
(* used again, so a restart is another process.                            *)
(***************************************************************************)
EXTENDS Naturals

CONSTANTS
  Servers, Restores,  \* the processes
  Modes,              \* the values of serial
  NoFile

Procs == Servers \cup Restores

ASSUME LockAssumption ==
  /\ Servers \cap Restores = {}
  /\ Modes \subseteq BOOLEAN
  /\ NoFile \notin Procs

VARIABLES
  serial,    \* environment: whether starts are serialised
  pc,        \* where each process is
  lockFile,  \* the file at the path, named by the process that created it
  written,   \* whether the creator has written its content
  seen       \* the PID a process has read from the file

lockVars == <<serial, pc, lockFile, written, seen>>

-----------------------------------------------------------------------------
Acquiring == {"exists", "create", "read", "judge", "unlink", "recreate", "write"}
Ended     == {"refused", "stopped", "dead"}
Locations == Acquiring \cup Ended \cup {"idle", "holding"}

Alive(p)   == pc[p] \notin Ended \cup {"idle"}
Holding(p) == pc[p] = "holding"

Goto(p, l) == pc' = [pc EXCEPT ![p] = l]

\* Another process begins to start while serial forbids it.
Busy == \E q \in Procs : pc[q] \in Acquiring

Start(p) ==
  /\ pc[p] = "idle"
  /\ serial => ~ Busy
  /\ Goto(p, IF p \in Servers THEN "create" ELSE "exists")
  /\ UNCHANGED <<serial, lockFile, written, seen>>

\* A restore looks for the file before anything else.
Exists(p) ==
  /\ pc[p] = "exists"
  /\ Goto(p, IF lockFile = NoFile THEN "recreate" ELSE "read")
  /\ UNCHANGED <<serial, lockFile, written, seen>>

\* open with O_EXCL: creates the file, or goes to onFailure if there is one.
Open(p, onFailure) ==
  IF lockFile = NoFile
  THEN Goto(p, "write") /\ lockFile' = p
  ELSE Goto(p, onFailure) /\ UNCHANGED lockFile

\* A server's first attempt.
Create(p) ==
  /\ pc[p] = "create"
  /\ Open(p, "read")
  /\ UNCHANGED <<serial, written, seen>>

\* Mutant: the content is taken for a PID without being looked at.
ReadAny(p) ==
  /\ pc[p] = "read"
  /\ IF lockFile # NoFile /\ written[lockFile]
     THEN Goto(p, "judge") /\ seen' = [seen EXCEPT ![p] = lockFile]
     ELSE Goto(p, "refused") /\ UNCHANGED seen
  /\ UNCHANGED <<serial, lockFile, written>>

\* lock_is_stale reads the file.  One that has gone, is still empty or says
\* "restore" is not stale, and the process gives up.
Read(p) ==
  /\ pc[p] = "read"
  /\ IF lockFile \in Servers /\ written[lockFile]
     THEN Goto(p, "judge") /\ seen' = [seen EXCEPT ![p] = lockFile]
     ELSE Goto(p, "refused") /\ UNCHANGED seen
  /\ UNCHANGED <<serial, lockFile, written>>

\* Mutants: any lock that can be read is stale; none is; a process that is
\* turned away releases the lock all the same.
JudgeStale(p) ==
  /\ pc[p] = "judge"
  /\ Goto(p, "unlink")
  /\ UNCHANGED <<serial, lockFile, written, seen>>

JudgeActive(p) ==
  /\ pc[p] = "judge"
  /\ Goto(p, "refused")
  /\ UNCHANGED <<serial, lockFile, written, seen>>

JudgeReleases(p) ==
  /\ pc[p] = "judge"
  /\ Goto(p, IF Alive(seen[p]) THEN "refused" ELSE "unlink")
  /\ lockFile' = NoFile
  /\ UNCHANGED <<serial, written, seen>>

\* lock_is_stale asks whether the PID it read is alive.
Judge(p) ==
  /\ pc[p] = "judge"
  /\ Goto(p, IF Alive(seen[p]) THEN "refused" ELSE "unlink")
  /\ UNCHANGED <<serial, lockFile, written, seen>>

\* The path is unlinked, whatever file it names by now.
Unlink(p) ==
  /\ pc[p] = "unlink"
  /\ lockFile' = NoFile
  /\ Goto(p, "recreate")
  /\ UNCHANGED <<serial, written, seen>>

\* A server's second attempt, a restore's only one.
Recreate(p) ==
  /\ pc[p] = "recreate"
  /\ Open(p, "refused")
  /\ UNCHANGED <<serial, written, seen>>

\* The content goes to the file the process opened, wherever the path leads.
Write(p) ==
  /\ pc[p] = "write"
  /\ written' = [written EXCEPT ![p] = TRUE]
  /\ Goto(p, "holding")
  /\ UNCHANGED <<serial, lockFile, seen>>

\* A server stops or a restore ends: the path is unlinked, whatever it names.
Release(p) ==
  /\ Holding(p)
  /\ lockFile' = NoFile
  /\ Goto(p, "stopped")
  /\ UNCHANGED <<serial, written, seen>>

\* The process dies, or exits without releasing: a server that finds its
\* socket in use, or whose main thread ends before the stopping one is done.
Die(p) ==
  /\ Alive(p)
  /\ Goto(p, "dead")
  /\ UNCHANGED <<serial, lockFile, written, seen>>

-----------------------------------------------------------------------------
LockInit ==
  /\ serial \in Modes
  /\ pc = [p \in Procs |-> "idle"]
  /\ lockFile = NoFile
  /\ written = [p \in Procs |-> FALSE]
  /\ seen = [p \in Procs |-> NoFile]

\* The next system call of a process that is starting.
Proceed(p) ==
  Exists(p) \/ Create(p) \/ Read(p) \/ Judge(p) \/ Unlink(p) \/ Recreate(p) \/ Write(p)

LockNext == \E p \in Procs : Start(p) \/ Proceed(p) \/ Release(p) \/ Die(p)

LockSpec == LockInit /\ [][LockNext]_lockVars

-----------------------------------------------------------------------------
(* Properties.                                                             *)

\* Types.  What lock_is_stale takes for a PID was written by a server.
LockTypeOK ==
  /\ serial \in BOOLEAN
  /\ pc \in [Procs -> Locations]
  /\ lockFile \in Procs \cup {NoFile}
  /\ written \in [Procs -> BOOLEAN]
  /\ seen \in [Procs -> Servers \cup {NoFile}]

\* At most one process, server or restore, has the storage.  The comment on
\* _verified_schema (db.py) says that the lock guarantees a single writer
\* process, the docstring of restore that no server can start meanwhile.
MutualExclusion ==
  \A p, q \in Procs : Holding(p) /\ Holding(q) => p = q

\* It holds as long as processes are started one at a time, crashes and stops
\* at any moment included.
ExclusiveWhenSerial == serial => MutualExclusion

\* Then the system calls of all the processes, stale files and crashes included,
\* amount to a lock that is taken when it is free and given back: what the other
\* modules take for one step.  Where starts may overlap nothing is claimed.
HoldersIfSerial == IF serial THEN {p \in Procs : Holding(p)} ELSE {}
Exclusion == INSTANCE StorageLock WITH Users <- Procs, holders <- HoldersIfSerial
ImplementsStorageLock == Exclusion!Spec

\* Then, too, the file at the path is the one its holder created: nobody has
\* removed it, and a third process would be turned away.
HolderHasFile ==
  serial => \A p \in Procs : Holding(p) => lockFile = p /\ written[p]

\* Then, too, a process is turned away only while another one is alive with
\* the lock, or by a file that says nothing of a live process: empty, or left
\* by a restore.  A server's crash blocks nobody once it has written its PID.
RefusalJustified ==
  [][\A p \in Procs :
       serial /\ pc[p] # "refused" /\ pc'[p] = "refused" =>
         \/ \E q \in Procs \ {p} : Alive(q)
         \/ lockFile = NoFile
         \/ lockFile \in Restores
         \/ ~ written[lockFile]]_lockVars
=============================================================================
