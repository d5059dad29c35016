--------------------------- MODULE OperationsProofs ---------------------------
(***************************************************************************)
(* Proofs about the operator's commands, for any number of processes,      *)
(* commands, restores and deaths, when commands do not overlap.            *)
(*                                                                         *)
(* A stop that says so has stopped the server because every server process *)
(* there is, is the one of the PID file, or the one a start still waits    *)
(* for.  A server serves what belongs together, or what a restore has said *)
(* that it failed to put together, because a restore that has begun keeps  *)
(* the lock, also when it is killed, until database, WAL and key fit again *)
(* or it fails; and a backup made meanwhile is never restored.  Together   *)
(* they have the storage one at a time, as StorageLock promises.           *)
(***************************************************************************)
EXTENDS Operations, TLAPS

OneOperator == \A o, q \in Operators : o = q

-----------------------------------------------------------------------------
(* The invariant.                                                          *)

IsOp(r) == r = [cmd |-> r.cmd, step |-> r.step, pid |-> r.pid, arch |-> r.arch, key |-> r.key]

Typed ==
  /\ proc = [p \in Pids |-> proc[p]]
  /\ op = [o \in Operators |-> op[o]]
  /\ \A o \in Operators : IsOp(op[o])
  /\ store = [db |-> store.db, wal |-> store.wal, key |-> store.key, failed |-> store.failed]

\* The lock is with the server, or with the restore.
LockHeld ==
  /\ \A p \in Pids : proc[p] \in {"serving", "stopping"} => lock = p
  /\ \A o \in Operators : op[o].step \in Restoring => lock = "restore"

Filed    == {"filed", "serving", "stopping", "ended"}
Starting == {"ready", "reap"}
Waiting  == {"wait", "killed"}

\* A server process is the one of the PID file, or the one that a start, beside
\* which there is none, still waits for.
OneServer ==
  /\ \A p \in Pids : proc[p] \in Filed => pidfile = p
  /\ \A p \in Pids : proc[p] = "new" =>
       \E o \in Operators : op[o].step \in Starting /\ op[o].pid = p
  /\ \A o \in Operators : op[o].step \in Starting =>
       /\ op[o].pid \in Pids
       /\ \A p \in Pids \ {op[o].pid} : proc[p] \notin Filed \cup {"new"}
  /\ \A o \in Operators : op[o].step \in {"stopped", "install"} =>
       \A p \in Pids : proc[p] \notin Filed
  /\ \A o \in Operators : op[o].step \in Waiting =>
       pidfile \in {op[o].pid, NoPid}

\* What does not serve a database with the log or the key of another, unless a
\* restore has said that it failed; the same of an archive.
Fits ==
  \/ store.failed = TRUE
  \/ store.wal \in {NoWal, store.db} /\ store.key \in {store.db, Empty}
Matched(a) == a.failed = TRUE \/ a.key = a.db
AllMatched == \A a \in archives : Matched(a)

\* How far a restore has come.
RestoreAt(o) ==
  /\ op[o].step \in Restoring =>
       Matched(op[o].arch) /\ AllMatched
  /\ op[o].step \in {"replace", "unlock"} => Fits
  /\ op[o].step \in {"truncate", "write"} => store.wal = NoWal
  /\ op[o].step = "write" => store.key = Empty

Storage ==
  /\ lock # "restore" => Fits /\ AllMatched
  /\ \A p \in Pids : proc[p] = "serving" => store.key # Empty
  /\ \A o \in Operators :
       /\ op[o].step = "copy" /\ lock # "restore" =>
            store.failed = TRUE \/ op[o].key = store.db
       /\ RestoreAt(o)

IInv == Typed /\ LockHeld /\ OneServer /\ StopStops /\ Storage

LEMMA A0 == "free" \notin Pids /\ "restore" \notin Pids /\ NoPid \notin Pids
BY OperationsAssumption DEF NoPid

LEMMA InitIInv == Init => IInv
<1> SUFFICES ASSUME Init PROVE IInv
  OBVIOUS
<1>1. Typed
  BY DEF Init, Typed, IsOp, Idle
<1>2. LockHeld
  BY DEF Init, LockHeld, Restoring, Idle
<1>3. OneServer
  BY DEF Init, OneServer, Filed, Starting, Waiting, Idle
<1>4. StopStops
  BY DEF Init, StopStops, Idle, SocketResponds
<1>5. Storage
  BY DEF Init, Storage, RestoreAt, Restoring, Fits, AllMatched, NoWal, Empty, Idle
<1> QED
  BY <1>1, <1>2, <1>3, <1>4, <1>5 DEF IInv

\* What the two ways to change a command do.
LEMMA GoesOp == ASSUME Typed, NEW o \in Operators, NEW s, Goes(o, s)
                PROVE  op' = [q \in Operators |-> op'[q]] /\ (\A q \in Operators \ {o} : op'[q] = op[q])
                       /\ op'[o].step = s /\ op'[o].pid = op[o].pid /\ op'[o].arch = op[o].arch
                       /\ op'[o].key = op[o].key /\ op'[o].cmd = op[o].cmd /\ IsOp(op'[o])
BY DEF Typed, Goes, IsOp
LEMMA EndsOp == ASSUME Typed, NEW o \in Operators, Ends(o)
                PROVE  op' = [q \in Operators |-> op'[q]] /\ (\A q \in Operators \ {o} : op'[q] = op[q])
                       /\ op'[o] = Idle
BY DEF Typed, Ends

\* What the steps that change several fields of a command do.
LEMMA LockDoes ==
  ASSUME Typed, NEW o \in Operators, Lock(o)
  PROVE  /\ op[o].step = "lock" /\ UNCHANGED <<proc, pidfile, store, archives>>
         /\ op' = [q \in Operators |-> op'[q]] /\ IsOp(op'[o])
         /\ \A q \in Operators \ {o} : op'[q] = op[q]
         /\ \/ /\ lock = "free" \/ Stale(lock)
               /\ lock' = "restore" /\ op'[o].step = "replace" /\ op'[o].arch \in archives
            \/ lock' = lock /\ op'[o].step = "idle"
<1>1. CASE lock \in {"free"} \/ Stale(lock)
  <2>1. CASE /\ lock' = "restore"
             /\ \E a \in archives : op' = [op EXCEPT ![o].step = "replace", ![o].arch = a]
    <3>1. PICK a \in archives : op' = [op EXCEPT ![o].step = "replace", ![o].arch = a]
      BY <2>1
    <3>2. op'[o] = [op[o] EXCEPT !.step = "replace", !.arch = a]
      BY <3>1 DEF Typed
    <3>3. op'[o].step = "replace" /\ op'[o].arch = a /\ IsOp(op'[o])
      BY <3>2 DEF Typed, IsOp
    <3>4. op' = [q \in Operators |-> op'[q]] /\ \A q \in Operators \ {o} : op'[q] = op[q]
      BY <3>1 DEF Typed
    <3> QED
      BY <1>1, <2>1, <3>3, <3>4 DEF Lock, At
  <2>2. CASE Ends(o) /\ UNCHANGED lock
    BY <2>2, EndsOp DEF Lock, At, Idle, IsOp, Typed, Ends
  <2> QED
    BY <2>1, <2>2 DEF Lock
<1>2. CASE ~(lock \in {"free"} \/ Stale(lock))
  <2>1. Ends(o) /\ UNCHANGED lock
    BY <1>2 DEF Lock
  <2> QED
    BY <2>1, EndsOp DEF Lock, At, Idle, IsOp, Typed, Ends
<1> QED
  BY <1>1, <1>2

LEMMA TimeoutDoes ==
  ASSUME Typed, NEW o \in Operators, Timeout(o)
  PROVE  /\ op[o].step = "wait" /\ UNCHANGED <<pidfile, lock, store, archives>>
         /\ op' = [q \in Operators |-> op'[q]] /\ IsOp(op'[o])
         /\ \A q \in Operators \ {o} : op'[q] = op[q]
         /\ op'[o].step \in {"killed", "idle"}
         /\ op'[o].step = "killed" => op'[o].pid = op[o].pid
         /\ proc' = [p \in Pids |-> proc'[p]]
         /\ \A p \in Pids : proc'[p] \in {proc[p], "dead"}
<1>1. CASE op[o].cmd = "stop --force"
  <2>1. proc' = [proc EXCEPT ![op[o].pid] = "dead"] /\ Goes(o, "killed")
    BY <1>1 DEF Timeout
  <2>2. proc' = [p \in Pids |-> proc'[p]] /\ \A p \in Pids : proc'[p] \in {proc[p], "dead"}
    BY <2>1 DEF Typed
  <2> QED
    BY <2>1, <2>2, GoesOp DEF Timeout, At
<1>2. CASE op[o].cmd # "stop --force"
  <2>1. proc' = proc /\ Ends(o)
    BY <1>2 DEF Timeout
  <2>2. proc' = [p \in Pids |-> proc'[p]] /\ \A p \in Pids : proc'[p] \in {proc[p], "dead"}
    BY <2>1 DEF Typed
  <2>5. UNCHANGED <<pidfile, lock, store, archives>> /\ op[o].step = "wait"
    BY DEF Timeout, At
  <2>6. IsOp(Idle) /\ Idle.step = "idle"
    BY DEF IsOp, Idle
  <2>3. op'[o] = Idle /\ op' = [q \in Operators |-> op'[q]]
    BY <2>1, EndsOp
  <2>4. \A q \in Operators \ {o} : op'[q] = op[q]
    BY <2>1 DEF Ends, Typed
  <2> QED
    BY <2>2, <2>3, <2>4, <2>5, <2>6
<1> QED
  BY <1>1, <1>2

LEMMA StartDoes ==
  ASSUME Typed, NEW o \in Operators, Start(o)
  PROVE  /\ op[o].step = "start" /\ UNCHANGED <<pidfile, lock, store, archives>>
         /\ op' = [q \in Operators |-> op'[q]] /\ IsOp(op'[o])
         /\ \A q \in Operators \ {o} : op'[q] = op[q]
         /\ \/ /\ ServiceState = "stopped"
               /\ op'[o].step = "ready" /\ op'[o].pid \in Pids
               /\ proc[op'[o].pid] = "unborn"
               /\ proc' = [proc EXCEPT ![op'[o].pid] = "new"]
            \/ proc' = proc /\ op'[o].step \in {"again", "idle"}
<1>1. CASE /\ ServiceState = "stopped"
           /\ \E p \in Pids : /\ proc[p] = "unborn" /\ proc' = [proc EXCEPT ![p] = "new"]
                              /\ op' = [op EXCEPT ![o].step = "ready", ![o].pid = p]
  <2>1. PICK p \in Pids : /\ proc[p] = "unborn" /\ proc' = [proc EXCEPT ![p] = "new"]
                          /\ op' = [op EXCEPT ![o].step = "ready", ![o].pid = p]
    BY <1>1
  <2>2. op'[o] = [op[o] EXCEPT !.step = "ready", !.pid = p]
    BY <2>1 DEF Typed
  <2>3. op'[o].step = "ready" /\ op'[o].pid = p /\ IsOp(op'[o])
    BY <2>2 DEF Typed, IsOp
  <2>4. op' = [q \in Operators |-> op'[q]] /\ \A q \in Operators \ {o} : op'[q] = op[q]
    BY <2>1 DEF Typed
  <2> QED
    BY <1>1, <2>1, <2>3, <2>4 DEF Start, At
<1>2. CASE AfterStart(o) /\ UNCHANGED proc
  <2>1. CASE Goes(o, "again")
    BY <1>2, <2>1, GoesOp DEF Start, At
  <2>2. CASE Ends(o)
    BY <1>2, <2>2, EndsOp DEF Start, At, Idle, IsOp, Ends, Typed
  <2> QED
    BY <1>2, <2>1, <2>2 DEF AfterStart
<1> QED
  BY <1>1, <1>2 DEF Start

LEMMA LookDoes ==
  ASSUME Typed, NEW o \in Operators, Look(o)
  PROVE  /\ UNCHANGED <<proc, pidfile, lock, store, archives>>
         /\ op' = [q \in Operators |-> op'[q]] /\ IsOp(op'[o])
         /\ \A q \in Operators \ {o} : op'[q] = op[q]
         /\ \/ (ServiceState = "stopped" \/ pidfile = NoPid) /\ op'[o].step = "stopped"
            \/ op'[o].step = "wait" /\ op'[o].pid = pidfile
<1>1. CASE (ServiceState = "stopped" \/ pidfile = NoPid) /\ Goes(o, "stopped")
  BY <1>1, GoesOp DEF Look
<1>2. CASE op' = [op EXCEPT ![o].step = "wait", ![o].pid = pidfile]
  <2>1. op'[o] = [op[o] EXCEPT !.step = "wait", !.pid = pidfile]
    BY <1>2 DEF Typed
  <2>2. op'[o].step = "wait" /\ op'[o].pid = pidfile /\ IsOp(op'[o])
    BY <2>1 DEF Typed, IsOp
  <2>3. op' = [q \in Operators |-> op'[q]] /\ \A q \in Operators \ {o} : op'[q] = op[q]
    BY <1>2 DEF Typed
  <2> QED
    BY <2>2, <2>3 DEF Look
<1> QED
  BY <1>1, <1>2 DEF Look

LEMMA ReadKeyDoes ==
  ASSUME Typed, NEW o \in Operators, ReadKey(o)
  PROVE  /\ UNCHANGED <<proc, lock, store, archives>>
         /\ op' = [q \in Operators |-> op'[q]] /\ IsOp(op'[o])
         /\ \A q \in Operators \ {o} : op'[q] = op[q]
         /\ \/ op'[o].step = "idle"
            \/ store.key # Empty /\ op'[o].step = "copy" /\ op'[o].key = store.key
<1>1. CASE store.key # Empty
  <2>1. op' = [op EXCEPT ![o].step = "copy", ![o].key = store.key]
    BY <1>1 DEF ReadKey
  <2>2. op'[o] = [op[o] EXCEPT !.step = "copy", !.key = store.key]
    BY <2>1 DEF Typed
  <2>3. op'[o].step = "copy" /\ op'[o].key = store.key /\ IsOp(op'[o])
    BY <2>2 DEF Typed, IsOp
  <2>4. op' = [q \in Operators |-> op'[q]] /\ \A q \in Operators \ {o} : op'[q] = op[q]
    BY <2>1 DEF Typed
  <2> QED
    BY <1>1, <2>3, <2>4 DEF ReadKey, machine
<1>2. CASE store.key = Empty
  <2>1. Ends(o)
    BY <1>2 DEF ReadKey
  <2>2. op'[o] = Idle /\ op' = [q \in Operators |-> op'[q]]
    BY <2>1, EndsOp
  <2>3. \A q \in Operators \ {o} : op'[q] = op[q]
    BY <2>1 DEF Ends, Typed
  <2> QED
    BY <2>2, <2>3 DEF ReadKey, machine, Idle, IsOp
<1> QED
  BY <1>1, <1>2

\* Types.
LEMMA TypedStep == OneOperator /\ IInv /\ [Next]_vars => Typed'
<1> SUFFICES ASSUME OneOperator, IInv, [Next]_vars PROVE Typed'
  OBVIOUS
<1> USE A0 DEF IInv, Typed, IsOp, NoPid, NoWal, Empty, ProcFrame, OpFrame, machine, counters, Goes, Ends, At, Idle
<1>1. ASSUME NEW p \in Pids, WritePidFile(p) PROVE Typed'
  BY <1>1 DEF WritePidFile
<1>2. ASSUME NEW p \in Pids, StartServing(p) PROVE Typed'
  BY <1>2 DEF StartServing
<1>3. ASSUME NEW p \in Pids, Write(p) PROVE Typed'
  BY <1>3 DEF Write
<1>4. ASSUME NEW p \in Pids, HandleSignal(p) PROVE Typed'
  BY <1>4 DEF HandleSignal
<1>5. ASSUME NEW p \in Pids, ReleaseLock(p) PROVE Typed'
  BY <1>5 DEF ReleaseLock
<1>6. ASSUME NEW p \in Pids, RemovePidFile(p) PROVE Typed'
  BY <1>6 DEF RemovePidFile
<1>7. ASSUME NEW p \in Pids, Die(p) PROVE Typed'
  BY <1>7 DEF Die
<1>8. ASSUME NEW p \in Pids, Recycle(p) PROVE Typed'
  BY <1>8 DEF Recycle
<1>9. ASSUME NEW p \in Pids, StrangerEnds(p) PROVE Typed'
  BY <1>9 DEF StrangerEnds
<1>10. ASSUME NEW o \in Operators, Give(o) PROVE Typed'
  BY <1>10 DEF Give, First
<1>11. ASSUME NEW o \in Operators, Start(o) PROVE Typed'
  BY <1>11, StartDoes
<1>12. ASSUME NEW o \in Operators, Ready(o) PROVE Typed'
  BY <1>12 DEF Ready, AfterStart
<1>13. ASSUME NEW o \in Operators, NotReady(o) PROVE Typed'
  BY <1>13 DEF NotReady
<1>14. ASSUME NEW o \in Operators, Reap(o) PROVE Typed'
  BY <1>14 DEF Reap, AfterStart
<1>15. ASSUME NEW o \in Operators, Look(o) PROVE Typed'
  BY <1>15, LookDoes
<1>16. ASSUME NEW o \in Operators, Gone(o) PROVE Typed'
  BY <1>16 DEF Gone
<1>17. ASSUME NEW o \in Operators, Timeout(o) PROVE Typed'
  <2> HIDE DEF IInv, IsOp
  <2>1. Typed /\ UNCHANGED store
    BY <1>17 DEF IInv, Timeout
  <2>2. /\ op' = [q \in Operators |-> op'[q]] /\ IsOp(op'[o])
        /\ \A q \in Operators \ {o} : op'[q] = op[q]
        /\ proc' = [p \in Pids |-> proc'[p]]
    BY <1>17, <2>1, TimeoutDoes
  <2> QED
    BY <2>1, <2>2
<1>18. ASSUME NEW o \in Operators, GiveUp(o) PROVE Typed'
  BY <1>18 DEF GiveUp
<1>19. ASSUME NEW o \in Operators, Stopped(o) PROVE Typed'
  BY <1>19 DEF Stopped
<1>20. ASSUME NEW o \in Operators, ReadKey(o) PROVE Typed'
  BY <1>20, ReadKeyDoes
<1>21. ASSUME NEW o \in Operators, CopyDatabase(o) PROVE Typed'
  BY <1>21 DEF CopyDatabase
<1>22. ASSUME NEW o \in Operators, HaltOthers(o) PROVE Typed'
  BY <1>22 DEF HaltOthers
<1>23. ASSUME NEW o \in Operators, Install(o) PROVE Typed'
  BY <1>23 DEF Install
<1>24. ASSUME NEW o \in Operators, StartOthers(o) PROVE Typed'
  BY <1>24 DEF StartOthers
<1>25. ASSUME NEW o \in Operators, Lock(o) PROVE Typed'
  BY <1>25, LockDoes
<1>26. ASSUME NEW o \in Operators, Replace(o) PROVE Typed'
  BY <1>26 DEF Replace
<1>27. ASSUME NEW o \in Operators, UnlinkWal(o) PROVE Typed'
  BY <1>27 DEF UnlinkWal, FailsHalfway
<1>28. ASSUME NEW o \in Operators, TruncateKey(o) PROVE Typed'
  BY <1>28 DEF TruncateKey, FailsHalfway
<1>29. ASSUME NEW o \in Operators, WriteKey(o) PROVE Typed'
  BY <1>29 DEF WriteKey, RestoredKey
<1>30. ASSUME NEW o \in Operators, Unlock(o) PROVE Typed'
  BY <1>30 DEF Unlock
<1>31. ASSUME NEW o \in Operators, RestoreDies(o) PROVE Typed'
  BY <1>31 DEF RestoreDies
<1>32. CASE UNCHANGED vars
  BY <1>32 DEF vars, machine, counters
<1> QED
  BY <1>1, <1>2, <1>3, <1>4, <1>5, <1>6, <1>7, <1>8, <1>9, <1>10, <1>11, <1>12, <1>13, <1>14, <1>15, <1>16, <1>17, <1>18, <1>19, <1>20, <1>21, <1>22, <1>23, <1>24, <1>25, <1>26, <1>27, <1>28, <1>29, <1>30, <1>31, <1>32 DEF Next, ProcNext, OpStep

\* The lock.
LEMMA LockStep == OneOperator /\ IInv /\ [Next]_vars => LockHeld'
<1> SUFFICES ASSUME OneOperator, IInv, [Next]_vars PROVE LockHeld'
  OBVIOUS
<1> USE A0 DEF IInv, Typed, IsOp, LockHeld, Restoring, Stale, Alive, ProcFrame, OpFrame, machine, counters, Goes, Ends, At, Idle
<1>1. ASSUME NEW p \in Pids, WritePidFile(p) PROVE LockHeld'
  BY <1>1 DEF WritePidFile
<1>2. ASSUME NEW p \in Pids, StartServing(p) PROVE LockHeld'
  BY <1>2 DEF StartServing
<1>3. ASSUME NEW p \in Pids, Write(p) PROVE LockHeld'
  BY <1>3 DEF Write
<1>4. ASSUME NEW p \in Pids, HandleSignal(p) PROVE LockHeld'
  BY <1>4 DEF HandleSignal
<1>5. ASSUME NEW p \in Pids, ReleaseLock(p) PROVE LockHeld'
  BY <1>5 DEF ReleaseLock
<1>6. ASSUME NEW p \in Pids, RemovePidFile(p) PROVE LockHeld'
  BY <1>6 DEF RemovePidFile
<1>7. ASSUME NEW p \in Pids, Die(p) PROVE LockHeld'
  BY <1>7 DEF Die
<1>8. ASSUME NEW p \in Pids, Recycle(p) PROVE LockHeld'
  BY <1>8 DEF Recycle
<1>9. ASSUME NEW p \in Pids, StrangerEnds(p) PROVE LockHeld'
  BY <1>9 DEF StrangerEnds
<1>10. ASSUME NEW o \in Operators, Give(o) PROVE LockHeld'
  BY <1>10 DEF Give, First
<1>11. ASSUME NEW o \in Operators, Start(o) PROVE LockHeld'
  BY <1>11, StartDoes
<1>12. ASSUME NEW o \in Operators, Ready(o) PROVE LockHeld'
  BY <1>12 DEF Ready, AfterStart
<1>13. ASSUME NEW o \in Operators, NotReady(o) PROVE LockHeld'
  BY <1>13 DEF NotReady
<1>14. ASSUME NEW o \in Operators, Reap(o) PROVE LockHeld'
  BY <1>14 DEF Reap, AfterStart
<1>15. ASSUME NEW o \in Operators, Look(o) PROVE LockHeld'
  BY <1>15, LookDoes
<1>16. ASSUME NEW o \in Operators, Gone(o) PROVE LockHeld'
  BY <1>16 DEF Gone
<1>17. ASSUME NEW o \in Operators, Timeout(o) PROVE LockHeld'
  BY <1>17, TimeoutDoes
<1>18. ASSUME NEW o \in Operators, GiveUp(o) PROVE LockHeld'
  BY <1>18 DEF GiveUp
<1>19. ASSUME NEW o \in Operators, Stopped(o) PROVE LockHeld'
  BY <1>19 DEF Stopped
<1>20. ASSUME NEW o \in Operators, ReadKey(o) PROVE LockHeld'
  BY <1>20, ReadKeyDoes
<1>21. ASSUME NEW o \in Operators, CopyDatabase(o) PROVE LockHeld'
  BY <1>21 DEF CopyDatabase
<1>22. ASSUME NEW o \in Operators, HaltOthers(o) PROVE LockHeld'
  BY <1>22 DEF HaltOthers
<1>23. ASSUME NEW o \in Operators, Install(o) PROVE LockHeld'
  BY <1>23 DEF Install
<1>24. ASSUME NEW o \in Operators, StartOthers(o) PROVE LockHeld'
  BY <1>24 DEF StartOthers
<1>25. ASSUME NEW o \in Operators, Lock(o) PROVE LockHeld'
  <2> HIDE DEF IInv
  <2>1. Typed /\ LockHeld /\ \A q \in Operators : q = o
    BY DEF IInv, OneOperator
  <2>2. /\ op[o].step = "lock" /\ proc' = proc
        /\ \/ (lock = "free" \/ Stale(lock)) /\ lock' = "restore"
           \/ lock' = lock /\ op'[o].step = "idle"
    BY <1>25, <2>1, LockDoes
  <2> QED
    BY <2>1, <2>2
<1>26. ASSUME NEW o \in Operators, Replace(o) PROVE LockHeld'
  BY <1>26 DEF Replace
<1>27. ASSUME NEW o \in Operators, UnlinkWal(o) PROVE LockHeld'
  BY <1>27 DEF UnlinkWal, FailsHalfway
<1>28. ASSUME NEW o \in Operators, TruncateKey(o) PROVE LockHeld'
  BY <1>28 DEF TruncateKey, FailsHalfway
<1>29. ASSUME NEW o \in Operators, WriteKey(o) PROVE LockHeld'
  BY <1>29 DEF WriteKey
<1>30. ASSUME NEW o \in Operators, Unlock(o) PROVE LockHeld'
  BY <1>30 DEF Unlock, OneOperator
<1>31. ASSUME NEW o \in Operators, RestoreDies(o) PROVE LockHeld'
  BY <1>31 DEF RestoreDies
<1>32. CASE UNCHANGED vars
  BY <1>32 DEF vars, machine, counters
<1> QED
  BY <1>1, <1>2, <1>3, <1>4, <1>5, <1>6, <1>7, <1>8, <1>9, <1>10, <1>11, <1>12, <1>13, <1>14, <1>15, <1>16, <1>17, <1>18, <1>19, <1>20, <1>21, <1>22, <1>23, <1>24, <1>25, <1>26, <1>27, <1>28, <1>29, <1>30, <1>31, <1>32 DEF Next, ProcNext, OpStep

\* When the service looks stopped, or there is no PID file, there is no server.
LEMMA LooksStopped ==
  ASSUME IInv, ServiceState = "stopped" \/ pidfile = NoPid
  PROVE  \A p \in Pids : proc[p] \notin Filed
<1>1. \A p \in Pids : proc[p] \in Filed => pidfile = p /\ Alive(p) /\ p # NoPid
  BY A0 DEF IInv, OneServer, Filed, Alive
<1>2. CASE pidfile = NoPid
  BY <1>1, <1>2
<1>3. CASE pidfile # NoPid
  <2>1. ~Alive(pidfile)
    BY <1>3 DEF ServiceState
  <2> QED
    BY <1>1, <2>1
<1> QED
  BY <1>2, <1>3

\* A step that changes no process and no PID file, of a command that does not
\* wait before or after it.
LEMMA QuietStep ==
  ASSUME OneOperator, IInv, NEW o \in Operators, UNCHANGED <<proc, pidfile>>,
         op[o].step \notin Starting,
         op'[o].step \notin Starting \cup Waiting \cup {"stopped", "install"}
  PROVE  (OneServer /\ StopStops)'
<1>1. \A q \in Operators : q = o
  BY DEF OneOperator
<1>2. \A p \in Pids : proc[p] # "new"
  BY <1>1 DEF IInv, OneServer
<1> QED
  BY <1>1, <1>2 DEF IInv, OneServer, StopStops

LEMMA QuietGoes ==
  ASSUME OneOperator, IInv, NEW o \in Operators, NEW s, UNCHANGED <<proc, pidfile>>, Goes(o, s),
         op[o].step \notin Starting, s \notin Starting \cup Waiting \cup {"stopped", "install"}
  PROVE  (OneServer /\ StopStops)'
BY GoesOp, QuietStep DEF IInv

LEMMA QuietEnds ==
  ASSUME OneOperator, IInv, NEW o \in Operators, UNCHANGED <<proc, pidfile>>, Ends(o),
         op[o].step \notin Starting
  PROVE  (OneServer /\ StopStops)'
<1>1. op'[o].step = "idle"
  BY EndsOp DEF IInv, Idle
<1> QED
  BY <1>1, QuietStep DEF Starting, Waiting

\* The server processes.
LEMMA ServerStep == OneOperator /\ IInv /\ [Next]_vars => (OneServer /\ StopStops)'
<1> SUFFICES ASSUME OneOperator, IInv, [Next]_vars PROVE (OneServer /\ StopStops)'
  OBVIOUS
<1> USE A0 DEF IInv, Typed, IsOp, OneServer, StopStops, Filed, Starting, Waiting, SocketResponds, ServiceState, Alive, OneOperator, NoPid, ProcFrame, OpFrame, machine, counters, Goes, Ends, At, Idle
<1>1. ASSUME NEW p \in Pids, WritePidFile(p) PROVE (OneServer /\ StopStops)'
  BY <1>1 DEF WritePidFile
<1>2. ASSUME NEW p \in Pids, StartServing(p) PROVE (OneServer /\ StopStops)'
  BY <1>2 DEF StartServing
<1>3. ASSUME NEW p \in Pids, Write(p) PROVE (OneServer /\ StopStops)'
  BY <1>3 DEF Write
<1>4. ASSUME NEW p \in Pids, HandleSignal(p) PROVE (OneServer /\ StopStops)'
  BY <1>4 DEF HandleSignal
<1>5. ASSUME NEW p \in Pids, ReleaseLock(p) PROVE (OneServer /\ StopStops)'
  BY <1>5 DEF ReleaseLock
<1>6. ASSUME NEW p \in Pids, RemovePidFile(p) PROVE (OneServer /\ StopStops)'
  BY <1>6 DEF RemovePidFile
<1>7. ASSUME NEW p \in Pids, Die(p) PROVE (OneServer /\ StopStops)'
  BY <1>7 DEF Die
<1>8. ASSUME NEW p \in Pids, Recycle(p) PROVE (OneServer /\ StopStops)'
  BY <1>8 DEF Recycle
<1>9. ASSUME NEW p \in Pids, StrangerEnds(p) PROVE (OneServer /\ StopStops)'
  BY <1>9 DEF StrangerEnds
<1>10. ASSUME NEW o \in Operators, Give(o) PROVE (OneServer /\ StopStops)'
  <2>1. PICK cmd \in Commands : op' = [op EXCEPT ![o] = [Idle EXCEPT !.cmd = cmd, !.step = First(cmd)]]
    BY <1>10 DEF Give
  <2>2. op'[o].step = First(cmd)
    BY <2>1
  <2>3. First(cmd) \in {"start", "backup", "lock", "stop"}
    BY DEF First
  <2>4. UNCHANGED <<proc, pidfile>> /\ op[o].step = "idle"
    BY <1>10 DEF Give
  <2> HIDE DEF IInv, OneServer, StopStops
  <2> QED
    BY <2>2, <2>3, <2>4, QuietStep
<1>11. ASSUME NEW o \in Operators, Start(o) PROVE (OneServer /\ StopStops)'
  <2> HIDE DEF IInv, ServiceState
  <2>1. Typed /\ OneServer /\ StopStops /\ \A q \in Operators : q = o
    BY DEF IInv
  <2>2. op[o].step = "start" /\ UNCHANGED pidfile
    BY <1>11, <2>1, StartDoes
  <2>3. \A p \in Pids : proc[p] # "new"
    BY <2>1, <2>2
  <2>4. CASE /\ ServiceState = "stopped"
             /\ op'[o].step = "ready" /\ op'[o].pid \in Pids
             /\ proc[op'[o].pid] = "unborn"
             /\ proc' = [proc EXCEPT ![op'[o].pid] = "new"]
    <3>1. \A p \in Pids : proc[p] \notin Filed
      BY <2>4, LooksStopped
    <3>2. \A p \in Pids : proc'[p] = IF p = op'[o].pid THEN "new" ELSE proc[p]
      BY <2>1, <2>4
    <3> QED
      BY <2>1, <2>2, <2>3, <2>4, <3>1, <3>2
  <2>5. CASE proc' = proc /\ op'[o].step \in {"again", "idle"}
    BY <2>1, <2>2, <2>5, QuietStep
  <2> QED
    BY <1>11, <2>1, <2>4, <2>5, StartDoes
<1>12. ASSUME NEW o \in Operators, Ready(o) PROVE (OneServer /\ StopStops)'
  BY <1>12 DEF Ready, AfterStart
<1>13. ASSUME NEW o \in Operators, NotReady(o) PROVE (OneServer /\ StopStops)'
  BY <1>13 DEF NotReady
<1>14. ASSUME NEW o \in Operators, Reap(o) PROVE (OneServer /\ StopStops)'
  BY <1>14 DEF Reap, AfterStart
<1>15. ASSUME NEW o \in Operators, Look(o) PROVE (OneServer /\ StopStops)'
  <2> HIDE DEF IInv, ServiceState
  <2>1. Typed /\ OneServer /\ StopStops /\ \A q \in Operators : q = o
    BY DEF IInv
  <2>2. op[o].step = "stop" /\ UNCHANGED <<proc, pidfile>>
    BY <1>15, <2>1, LookDoes DEF Look
  <2>3. \A p \in Pids : proc[p] # "new"
    BY <2>1, <2>2
  <2>4. CASE (ServiceState = "stopped" \/ pidfile = NoPid) /\ op'[o].step = "stopped"
    <3>1. \A p \in Pids : proc[p] \notin Filed
      BY <2>4, LooksStopped
    <3> QED
      BY <2>1, <2>2, <2>3, <2>4, <3>1
  <2>5. CASE op'[o].step = "wait" /\ op'[o].pid = pidfile
    BY <2>1, <2>2, <2>3, <2>5
  <2> QED
    BY <1>15, <2>1, <2>4, <2>5, LookDoes
<1>16. ASSUME NEW o \in Operators, Gone(o) PROVE (OneServer /\ StopStops)'
  BY <1>16 DEF Gone
<1>17. ASSUME NEW o \in Operators, Timeout(o) PROVE (OneServer /\ StopStops)'
  <2> HIDE DEF IInv
  <2>1. Typed /\ OneServer /\ StopStops /\ \A q \in Operators : q = o
    BY DEF IInv
  <2>2. /\ op[o].step = "wait" /\ UNCHANGED pidfile
        /\ op'[o].step \in {"killed", "idle"}
        /\ op'[o].step = "killed" => op'[o].pid = op[o].pid
        /\ \A p \in Pids : proc'[p] \in {proc[p], "dead"}
    BY <1>17, <2>1, TimeoutDoes
  <2>3. \A p \in Pids : proc'[p] # "new"
    BY <2>1, <2>2
  <2> QED
    BY <2>1, <2>2, <2>3
<1>18. ASSUME NEW o \in Operators, GiveUp(o) PROVE (OneServer /\ StopStops)'
  BY <1>18 DEF GiveUp
<1>19. ASSUME NEW o \in Operators, Stopped(o) PROVE (OneServer /\ StopStops)'
  BY <1>19 DEF Stopped
<1>20. ASSUME NEW o \in Operators, ReadKey(o) PROVE (OneServer /\ StopStops)'
  BY <1>20, ReadKeyDoes, QuietStep DEF ReadKey
<1>21. ASSUME NEW o \in Operators, CopyDatabase(o) PROVE (OneServer /\ StopStops)'
  BY <1>21 DEF CopyDatabase
<1>22. ASSUME NEW o \in Operators, HaltOthers(o) PROVE (OneServer /\ StopStops)'
  <2> HIDE DEF Goes, IInv, OneServer, StopStops
  <2>1. UNCHANGED <<proc, pidfile>> /\ Goes(o, "stop") /\ op[o].step = "halt"
    BY <1>22 DEF HaltOthers
  <2> QED
    BY <2>1, QuietGoes
<1>23. ASSUME NEW o \in Operators, Install(o) PROVE (OneServer /\ StopStops)'
  BY <1>23 DEF Install
<1>24. ASSUME NEW o \in Operators, StartOthers(o) PROVE (OneServer /\ StopStops)'
  BY <1>24 DEF StartOthers
<1>25. ASSUME NEW o \in Operators, Lock(o) PROVE (OneServer /\ StopStops)'
  BY <1>25, LockDoes, QuietStep
<1>26. ASSUME NEW o \in Operators, Replace(o) PROVE (OneServer /\ StopStops)'
  <2> HIDE DEF Goes, IInv, OneServer, StopStops
  <2>1. UNCHANGED <<proc, pidfile>> /\ op[o].step = "replace"
    BY <1>26 DEF Replace
  <2>2. Goes(o, "unlink") \/ Goes(o, "unlock")
    BY <1>26 DEF Replace
  <2> QED
    BY <2>1, <2>2, QuietGoes
<1>27. ASSUME NEW o \in Operators, UnlinkWal(o) PROVE (OneServer /\ StopStops)'
  <2> HIDE DEF Goes, IInv, OneServer, StopStops
  <2>1. UNCHANGED <<proc, pidfile>> /\ op[o].step = "unlink"
    BY <1>27 DEF UnlinkWal
  <2>2. Goes(o, "truncate") \/ Goes(o, "unlock")
    BY <1>27 DEF UnlinkWal, FailsHalfway
  <2> QED
    BY <2>1, <2>2, QuietGoes
<1>28. ASSUME NEW o \in Operators, TruncateKey(o) PROVE (OneServer /\ StopStops)'
  <2> HIDE DEF Goes, IInv, OneServer, StopStops
  <2>1. UNCHANGED <<proc, pidfile>> /\ op[o].step = "truncate"
    BY <1>28 DEF TruncateKey
  <2>2. Goes(o, "write") \/ Goes(o, "unlock")
    BY <1>28 DEF TruncateKey, FailsHalfway
  <2> QED
    BY <2>1, <2>2, QuietGoes
<1>29. ASSUME NEW o \in Operators, WriteKey(o) PROVE (OneServer /\ StopStops)'
  <2> HIDE DEF Goes, IInv, OneServer, StopStops
  <2>1. UNCHANGED <<proc, pidfile>> /\ Goes(o, "unlock") /\ op[o].step = "write"
    BY <1>29 DEF WriteKey
  <2> QED
    BY <2>1, QuietGoes
<1>30. ASSUME NEW o \in Operators, Unlock(o) PROVE (OneServer /\ StopStops)'
  BY <1>30 DEF Unlock
<1>31. ASSUME NEW o \in Operators, RestoreDies(o) PROVE (OneServer /\ StopStops)'
  <2> HIDE DEF Ends, IInv, OneServer, StopStops
  <2>1. UNCHANGED <<proc, pidfile>> /\ Ends(o) /\ op[o].step \in Restoring
    BY <1>31 DEF RestoreDies
  <2> QED
    BY <2>1, QuietEnds DEF Restoring
<1>32. CASE UNCHANGED vars
  BY <1>32 DEF vars, machine, counters
<1> QED
  BY <1>1, <1>2, <1>3, <1>4, <1>5, <1>6, <1>7, <1>8, <1>9, <1>10, <1>11, <1>12, <1>13, <1>14, <1>15, <1>16, <1>17, <1>18, <1>19, <1>20, <1>21, <1>22, <1>23, <1>24, <1>25, <1>26, <1>27, <1>28, <1>29, <1>30, <1>31, <1>32 DEF Next, ProcNext, OpStep

\* The storage.
LEMMA StorageStep == OneOperator /\ IInv /\ [Next]_vars => Storage'
<1> SUFFICES ASSUME OneOperator, IInv, [Next]_vars PROVE Storage'
  OBVIOUS
<1> USE A0 DEF IInv, Typed, IsOp, LockHeld, Storage, RestoreAt, Restoring, Fits, Matched, AllMatched, Stale, OneOperator, NoPid, NoWal, Empty, ProcFrame, OpFrame, machine, counters, Goes, Ends, At, Idle
<1>1. ASSUME NEW p \in Pids, WritePidFile(p) PROVE Storage'
  BY <1>1 DEF WritePidFile
<1>2. ASSUME NEW p \in Pids, StartServing(p) PROVE Storage'
  BY <1>2 DEF StartServing
<1>3. ASSUME NEW p \in Pids, Write(p) PROVE Storage'
  BY <1>3 DEF Write
<1>4. ASSUME NEW p \in Pids, HandleSignal(p) PROVE Storage'
  BY <1>4 DEF HandleSignal
<1>5. ASSUME NEW p \in Pids, ReleaseLock(p) PROVE Storage'
  BY <1>5 DEF ReleaseLock
<1>6. ASSUME NEW p \in Pids, RemovePidFile(p) PROVE Storage'
  BY <1>6 DEF RemovePidFile
<1>7. ASSUME NEW p \in Pids, Die(p) PROVE Storage'
  BY <1>7 DEF Die
<1>8. ASSUME NEW p \in Pids, Recycle(p) PROVE Storage'
  BY <1>8 DEF Recycle
<1>9. ASSUME NEW p \in Pids, StrangerEnds(p) PROVE Storage'
  BY <1>9 DEF StrangerEnds
<1>10. ASSUME NEW o \in Operators, Give(o) PROVE Storage'
  BY <1>10 DEF Give, First
<1>11. ASSUME NEW o \in Operators, Start(o) PROVE Storage'
  <2> HIDE DEF IInv, RestoreAt, Fits, AllMatched
  <2>1. Typed /\ Storage /\ \A q \in Operators : q = o
    BY DEF IInv
  <2>2. /\ UNCHANGED <<lock, store, archives>>
        /\ op'[o].step \in {"ready", "again", "idle"}
        /\ \A p \in Pids : proc'[p] = "serving" => proc[p] = "serving"
    BY <1>11, <2>1, StartDoes
  <2>3. Fits' = Fits /\ AllMatched' = AllMatched /\ RestoreAt(o)'
    BY <2>2 DEF Fits, AllMatched, RestoreAt
  <2> QED
    BY <2>1, <2>2, <2>3
<1>12. ASSUME NEW o \in Operators, Ready(o) PROVE Storage'
  BY <1>12 DEF Ready, AfterStart
<1>13. ASSUME NEW o \in Operators, NotReady(o) PROVE Storage'
  BY <1>13 DEF NotReady
<1>14. ASSUME NEW o \in Operators, Reap(o) PROVE Storage'
  BY <1>14 DEF Reap, AfterStart
<1>15. ASSUME NEW o \in Operators, Look(o) PROVE Storage'
  BY <1>15, LookDoes
<1>16. ASSUME NEW o \in Operators, Gone(o) PROVE Storage'
  BY <1>16 DEF Gone
<1>17. ASSUME NEW o \in Operators, Timeout(o) PROVE Storage'
  <2> HIDE DEF IInv, RestoreAt, Fits, AllMatched
  <2>1. Typed /\ Storage /\ \A q \in Operators : q = o
    BY DEF IInv
  <2>2. /\ UNCHANGED <<lock, store, archives>>
        /\ op'[o].step \in {"killed", "idle"}
        /\ \A p \in Pids : proc'[p] = "serving" => proc[p] = "serving"
    BY <1>17, <2>1, TimeoutDoes
  <2>3. Fits' = Fits /\ AllMatched' = AllMatched /\ RestoreAt(o)'
    BY <2>2 DEF Fits, AllMatched, RestoreAt
  <2> QED
    BY <2>1, <2>2, <2>3
<1>18. ASSUME NEW o \in Operators, GiveUp(o) PROVE Storage'
  BY <1>18 DEF GiveUp
<1>19. ASSUME NEW o \in Operators, Stopped(o) PROVE Storage'
  BY <1>19 DEF Stopped
<1>20. ASSUME NEW o \in Operators, ReadKey(o) PROVE Storage'
  <2> HIDE DEF IInv, RestoreAt, Fits, AllMatched
  <2>1. Typed /\ Storage /\ \A q \in Operators : q = o
    BY DEF IInv
  <2>2. /\ UNCHANGED <<proc, lock, store, archives>>
        /\ \/ op'[o].step = "idle"
           \/ store.key # Empty /\ op'[o].step = "copy" /\ op'[o].key = store.key
    BY <1>20, <2>1, ReadKeyDoes
  <2>3. Fits' = Fits /\ AllMatched' = AllMatched /\ RestoreAt(o)'
    BY <2>2 DEF Fits, AllMatched, RestoreAt
  <2> QED
    BY <2>1, <2>2, <2>3 DEF Fits
<1>21. ASSUME NEW o \in Operators, CopyDatabase(o) PROVE Storage'
  BY <1>21 DEF CopyDatabase
<1>22. ASSUME NEW o \in Operators, HaltOthers(o) PROVE Storage'
  BY <1>22 DEF HaltOthers
<1>23. ASSUME NEW o \in Operators, Install(o) PROVE Storage'
  BY <1>23 DEF Install
<1>24. ASSUME NEW o \in Operators, StartOthers(o) PROVE Storage'
  BY <1>24 DEF StartOthers
<1>25. ASSUME NEW o \in Operators, Lock(o) PROVE Storage'
  <2> HIDE DEF IInv, RestoreAt, Fits, AllMatched
  <2>1. Typed /\ Storage /\ \A q \in Operators : q = o
    BY DEF IInv
  <2>2. /\ op[o].step = "lock" /\ UNCHANGED <<proc, store, archives>>
        /\ \/ /\ lock = "free" \/ Stale(lock)
              /\ lock' = "restore" /\ op'[o].step = "replace" /\ op'[o].arch \in archives
           \/ lock' = lock /\ op'[o].step = "idle"
    BY <1>25, <2>1, LockDoes
  <2>3. Fits' = Fits /\ AllMatched' = AllMatched
    BY <2>2 DEF Fits, AllMatched
  <2>4. RestoreAt(o)'
    BY <2>1, <2>2, <2>3 DEF AllMatched, RestoreAt
  <2> QED
    BY <2>1, <2>2, <2>3, <2>4
<1>26. ASSUME NEW o \in Operators, Replace(o) PROVE Storage'
  BY <1>26 DEF Replace
<1>27. ASSUME NEW o \in Operators, UnlinkWal(o) PROVE Storage'
  BY <1>27 DEF UnlinkWal, FailsHalfway
<1>28. ASSUME NEW o \in Operators, TruncateKey(o) PROVE Storage'
  BY <1>28 DEF TruncateKey, FailsHalfway
<1>29. ASSUME NEW o \in Operators, WriteKey(o) PROVE Storage'
  <2> HIDE DEF IInv, RestoreAt, Fits, AllMatched, Goes
  <2>1. Typed /\ LockHeld /\ Storage /\ \A q \in Operators : q = o
    BY DEF IInv
  <2>2. /\ op[o].step = "write" /\ UNCHANGED <<proc, lock, archives>>
        /\ op'[o].step = "unlock" /\ op'[o].arch = op[o].arch
    BY <1>29, <2>1, GoesOp DEF WriteKey
  <2>3. /\ lock = "restore" /\ store.wal = NoWal
        /\ store.key = Empty /\ Matched(op[o].arch) /\ AllMatched
    BY <2>1, <2>2 DEF RestoreAt
  <2>4. store'.wal = NoWal /\ store'.db = store.db
    BY <1>29, <2>1, <2>3 DEF WriteKey
  <2>5. Fits'
    <3>1. CASE store' = [store EXCEPT !.key = RestoredKey(op[o].arch), !.failed = op[o].arch.failed]
      <4>1. store'.key = RestoredKey(op[o].arch) /\ store'.failed = op[o].arch.failed
        BY <2>1, <3>1
      <4> QED
        BY <2>3, <2>4, <4>1 DEF RestoredKey, Fits
    <3>2. CASE store'.failed = TRUE
      BY <3>2 DEF Fits
    <3> QED
      BY <1>29, <2>1, <3>1, <3>2 DEF WriteKey
  <2>6. RestoreAt(o)'
    BY <2>2, <2>3, <2>5 DEF AllMatched, RestoreAt
  <2> QED
    BY <2>1, <2>2, <2>3, <2>5, <2>6
<1>30. ASSUME NEW o \in Operators, Unlock(o) PROVE Storage'
  BY <1>30 DEF Unlock
<1>31. ASSUME NEW o \in Operators, RestoreDies(o) PROVE Storage'
  BY <1>31 DEF RestoreDies
<1>32. CASE UNCHANGED vars
  BY <1>32 DEF vars, machine, counters
<1> QED
  BY <1>1, <1>2, <1>3, <1>4, <1>5, <1>6, <1>7, <1>8, <1>9, <1>10, <1>11, <1>12, <1>13, <1>14, <1>15, <1>16, <1>17, <1>18, <1>19, <1>20, <1>21, <1>22, <1>23, <1>24, <1>25, <1>26, <1>27, <1>28, <1>29, <1>30, <1>31, <1>32 DEF Next, ProcNext, OpStep

LEMMA StepIInv == OneOperator /\ IInv /\ [Next]_vars => IInv'
BY TypedStep, LockStep, ServerStep, StorageStep DEF IInv

-----------------------------------------------------------------------------
(* The theorems.                                                           *)

\* StopStops, for commands that do not overlap: whatever servers do, die of or
\* leave behind, none serves when a command has said that it is stopped.
THEOREM StopCorrect == OneOperator => (Spec => []StopStops)
<1> SUFFICES ASSUME OneOperator PROVE Spec => []StopStops
  OBVIOUS
<1>1. IInv => StopStops
  BY DEF IInv
<1>2. IInv /\ [Next]_vars => IInv'
  BY StepIInv
<1> QED
  BY InitIInv, <1>1, <1>2, PTL DEF Spec

\* ServesOneStorage, for commands that do not overlap: a restore that is killed
\* between database, log and key leaves nothing that a server serves, and a server
\* that serves a mixture does so after a restore that said that it failed, until
\* one that succeeds.
THEOREM StorageCorrect == OneOperator => (Spec => []ServesOneStorage)
<1> SUFFICES ASSUME OneOperator PROVE Spec => []ServesOneStorage
  OBVIOUS
<1>1. IInv => ServesOneStorage
  BY A0 DEF IInv, Storage, LockHeld, Fits, ServesOneStorage, Mixed, SocketResponds
<1>2. IInv /\ [Next]_vars => IInv'
  BY StepIInv
<1> QED
  BY InitIInv, <1>1, <1>2, PTL DEF Spec

-----------------------------------------------------------------------------
(* The lock's promise.  A step takes the lock for its one process, when    *)
(* nobody has it, or takes nothing.                                        *)

HasIt(p)   == proc[p] \in {"serving", "stopping"}
Restores(o) == op[o].step \in Restoring

TakesNothing ==
  /\ \A p \in Pids : HasIt(p)' => HasIt(p)
  /\ \A o \in Operators : Restores(o)' => Restores(o)

Takes ==
  /\ Holders = {}
  /\ \E u \in Pids \cup Operators : Holders' = {u}

\* At most one server or restore has the lock.
LEMMA OneHolder ==
  ASSUME OneOperator, LockHeld
  PROVE  \A u, v \in Holders : u = v
BY A0 DEF OneOperator, LockHeld, Holders

\* With the lock free, or left by a dead process, nobody has it.
LEMMA FreeNoHolder ==
  ASSUME LockHeld, lock = "free" \/ Stale(lock)
  PROVE  Holders = {}
<1>1. ASSUME NEW p \in Pids PROVE ~ HasIt(p)
  BY A0 DEF LockHeld, HasIt, Stale, Alive
<1>2. ASSUME NEW o \in Operators PROVE ~ Restores(o)
  BY A0 DEF LockHeld, Restores, Stale
<1> QED
  BY <1>1, <1>2 DEF Holders, HasIt, Restores

\* What a server's start takes, and what a restore's lock does.
LEMMA StartTakes ==
  ASSUME IInv, NEW p \in Pids, StartServing(p)
  PROVE  Takes \/ TakesNothing
<1> USE DEF StartServing, ProcFrame
<1>1. CASE store.key # Empty /\ (lock = "free" \/ Stale(lock))
  <2>1. Holders = {}
    BY <1>1, FreeNoHolder DEF IInv
  <2>2. op' = op /\ proc' = [proc EXCEPT ![p] = "serving"]
    BY <1>1
  <2>3. \A q \in Pids : proc'[q] \in {"serving", "stopping"} <=> q = p
    BY <2>1, <2>2 DEF Holders, IInv, Typed
  <2>4. \A o \in Operators : op'[o].step \notin Restoring
    BY <2>1, <2>2 DEF Holders
  <2>5. Holders' = {p}
    BY <2>3, <2>4 DEF Holders
  <2> QED
    BY <2>1, <2>5 DEF Takes
<1>2. CASE ~ (store.key # Empty /\ (lock = "free" \/ Stale(lock)))
  BY <1>2 DEF TakesNothing, HasIt, Restores, IInv, Typed
<1> QED
  BY <1>1, <1>2

LEMMA LockTakes ==
  ASSUME OneOperator, IInv, NEW o \in Operators, Lock(o)
  PROVE  Takes \/ TakesNothing
<1>1. /\ proc' = proc /\ op[o].step = "lock"
      /\ \/ /\ lock = "free" \/ Stale(lock)
            /\ op'[o].step = "replace"
         \/ op'[o].step = "idle"
  BY LockDoes DEF IInv
<1>2. \A q \in Operators : q = o
  BY DEF OneOperator
<1>3. CASE (lock = "free" \/ Stale(lock)) /\ op'[o].step = "replace"
  <2>1. Holders = {}
    BY <1>3, FreeNoHolder DEF IInv
  <2>2. Holders' = {o}
    BY <1>1, <1>2, <1>3, <2>1 DEF Holders, Restoring
  <2> QED
    BY <2>1, <2>2 DEF Takes
<1>4. CASE op'[o].step = "idle"
  BY <1>1, <1>2, <1>4 DEF TakesNothing, HasIt, Restores, Restoring
<1> QED
  BY <1>1, <1>3, <1>4

\* Every other step takes nothing.
LEMMA StepTakes == OneOperator /\ IInv /\ [Next]_vars => Takes \/ TakesNothing
<1> SUFFICES ASSUME OneOperator, IInv, [Next]_vars PROVE Takes \/ TakesNothing
  OBVIOUS
<1> USE DEF IInv, Typed, IsOp, TakesNothing, HasIt, Restores, Restoring, ProcFrame, OpFrame, machine, counters, Goes, Ends, At, Idle
<1>1. ASSUME NEW p \in Pids, WritePidFile(p) PROVE Takes \/ TakesNothing
  BY <1>1 DEF WritePidFile
<1>2. ASSUME NEW p \in Pids, StartServing(p) PROVE Takes \/ TakesNothing
  BY <1>2, StartTakes
<1>3. ASSUME NEW p \in Pids, Write(p) PROVE Takes \/ TakesNothing
  BY <1>3 DEF Write
<1>4. ASSUME NEW p \in Pids, HandleSignal(p) PROVE Takes \/ TakesNothing
  BY <1>4 DEF HandleSignal
<1>5. ASSUME NEW p \in Pids, ReleaseLock(p) PROVE Takes \/ TakesNothing
  BY <1>5 DEF ReleaseLock
<1>6. ASSUME NEW p \in Pids, RemovePidFile(p) PROVE Takes \/ TakesNothing
  BY <1>6 DEF RemovePidFile
<1>7. ASSUME NEW p \in Pids, Die(p) PROVE Takes \/ TakesNothing
  BY <1>7 DEF Die
<1>8. ASSUME NEW p \in Pids, Recycle(p) PROVE Takes \/ TakesNothing
  BY <1>8 DEF Recycle
<1>9. ASSUME NEW p \in Pids, StrangerEnds(p) PROVE Takes \/ TakesNothing
  BY <1>9 DEF StrangerEnds
<1>10. ASSUME NEW o \in Operators, Give(o) PROVE Takes \/ TakesNothing
  BY <1>10 DEF Give, First
<1>11. ASSUME NEW o \in Operators, Start(o) PROVE Takes \/ TakesNothing
  BY <1>11, StartDoes
<1>12. ASSUME NEW o \in Operators, Ready(o) PROVE Takes \/ TakesNothing
  BY <1>12 DEF Ready, AfterStart
<1>13. ASSUME NEW o \in Operators, NotReady(o) PROVE Takes \/ TakesNothing
  BY <1>13 DEF NotReady
<1>14. ASSUME NEW o \in Operators, Reap(o) PROVE Takes \/ TakesNothing
  BY <1>14 DEF Reap, AfterStart
<1>15. ASSUME NEW o \in Operators, Look(o) PROVE Takes \/ TakesNothing
  BY <1>15, LookDoes DEF Look
<1>16. ASSUME NEW o \in Operators, Gone(o) PROVE Takes \/ TakesNothing
  BY <1>16 DEF Gone
<1>17. ASSUME NEW o \in Operators, Timeout(o) PROVE Takes \/ TakesNothing
  BY <1>17, TimeoutDoes
<1>18. ASSUME NEW o \in Operators, GiveUp(o) PROVE Takes \/ TakesNothing
  BY <1>18 DEF GiveUp
<1>19. ASSUME NEW o \in Operators, Stopped(o) PROVE Takes \/ TakesNothing
  BY <1>19 DEF Stopped
<1>20. ASSUME NEW o \in Operators, ReadKey(o) PROVE Takes \/ TakesNothing
  BY <1>20, ReadKeyDoes
<1>21. ASSUME NEW o \in Operators, CopyDatabase(o) PROVE Takes \/ TakesNothing
  BY <1>21, SMTT(30) DEF CopyDatabase
<1>22. ASSUME NEW o \in Operators, HaltOthers(o) PROVE Takes \/ TakesNothing
  BY <1>22 DEF HaltOthers
<1>23. ASSUME NEW o \in Operators, Install(o) PROVE Takes \/ TakesNothing
  BY <1>23 DEF Install
<1>24. ASSUME NEW o \in Operators, StartOthers(o) PROVE Takes \/ TakesNothing
  BY <1>24 DEF StartOthers
<1>25. ASSUME NEW o \in Operators, Lock(o) PROVE Takes \/ TakesNothing
  BY <1>25, LockTakes
<1>26. ASSUME NEW o \in Operators, Replace(o) PROVE Takes \/ TakesNothing
  BY <1>26 DEF Replace
<1>27. ASSUME NEW o \in Operators, UnlinkWal(o) PROVE Takes \/ TakesNothing
  BY <1>27 DEF UnlinkWal, FailsHalfway
<1>28. ASSUME NEW o \in Operators, TruncateKey(o) PROVE Takes \/ TakesNothing
  BY <1>28 DEF TruncateKey, FailsHalfway
<1>29. ASSUME NEW o \in Operators, WriteKey(o) PROVE Takes \/ TakesNothing
  BY <1>29 DEF WriteKey
<1>30. ASSUME NEW o \in Operators, Unlock(o) PROVE Takes \/ TakesNothing
  BY <1>30 DEF Unlock
<1>31. ASSUME NEW o \in Operators, RestoreDies(o) PROVE Takes \/ TakesNothing
  BY <1>31 DEF RestoreDies
<1>32. CASE UNCHANGED vars
  BY <1>32 DEF vars, machine, counters
<1> QED
  BY <1>1, <1>2, <1>3, <1>4, <1>5, <1>6, <1>7, <1>8, <1>9, <1>10, <1>11, <1>12, <1>13, <1>14, <1>15, <1>16, <1>17, <1>18, <1>19, <1>20, <1>21, <1>22, <1>23, <1>24, <1>25, <1>26, <1>27, <1>28, <1>29, <1>30, <1>31, <1>32 DEF Next, ProcNext, OpStep

\* So every step is one of the abstract lock, or leaves its holders alone.
LEMMA StepExcludes ==
  OneOperator /\ IInv /\ [Next]_vars => [Exclusion!Next]_Holders
<1> SUFFICES ASSUME OneOperator, IInv, [Next]_vars PROVE [Exclusion!Next]_Holders
  OBVIOUS
<1>1. CASE Takes
  BY <1>1 DEF Takes, Exclusion!Next, Exclusion!Acquire
<1>2. CASE TakesNothing
  <2>1. Holders' \subseteq Holders
    BY <1>2 DEF TakesNothing, HasIt, Restores, Holders
  <2>2. CASE Holders' # Holders
    <3>1. PICK u \in Holders : u \notin Holders'
      BY <2>1, <2>2
    <3>2. Holders' = Holders \ {u}
      BY <2>1, <3>1, OneHolder DEF IInv
    <3>3. u \in Pids \cup Operators
      BY <3>1 DEF Holders
    <3> QED
      BY <3>1, <3>2, <3>3 DEF Exclusion!Next, Exclusion!Release
  <2> QED
    BY <2>2
<1> QED
  BY <1>1, <1>2, StepTakes

\* ImplementsStorageLock, for commands that do not overlap: servers and restores
\* have the storage one at a time, through every start, stop, kill and death.
THEOREM ExclusionRefinement == OneOperator => (Spec => ImplementsStorageLock)
<1> SUFFICES ASSUME OneOperator PROVE Spec => ImplementsStorageLock
  OBVIOUS
<1>1. Init => Exclusion!Init
  BY DEF Init, Exclusion!Init, Holders, Idle, Restoring
<1>2. IInv /\ [Next]_vars => IInv'
  BY StepIInv
<1>3. IInv /\ [Next]_vars => [Exclusion!Next]_Holders
  BY StepExcludes
<1> QED
  BY InitIInv, <1>1, <1>2, <1>3, PTL DEF Spec, ImplementsStorageLock, Exclusion!Spec
=============================================================================
