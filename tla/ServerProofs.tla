---------------------------- MODULE ServerProofs ----------------------------
(***************************************************************************)
(* Proofs about a server process: the service lock it takes, the threads   *)
(* it runs while it holds it, and the two together.                        *)
(*                                                                         *)
(* The service lock excludes, keeps its file and turns away with reason    *)
(* for any number of servers and restores, as long as starts are           *)
(* serialised.  Stops and crashes may come at any moment.                  *)
(*                                                                         *)
(* A server, of any number of threads and connections, keeps the lock      *)
(* until it has stopped listening and removed its files: where a thread    *)
(* that has taken the server stands in stop() says what has been undone    *)
(* (the loop, the socket, the files), none of which is ever done again.    *)
(* And the pool has no queue beyond its bound, because every slot is       *)
(* accounted for: this is a count over the semaphore, the accept loop, the *)
(* queue and the workers.                                                  *)
(***************************************************************************)
EXTENDS ServiceLock, ConnectionPool, FunctionTheorems, FiniteSetTheorems, TLAPS

-----------------------------------------------------------------------------
(* The inductive invariant.                                                *)

\* Where a process is that has not yet created a file.
Before == {"idle", "exists", "create", "read", "judge", "unlink", "recreate"}

\* The path leads to no file of a process that has not created one, and the
\* PID a process judges is another's.
Foreign ==
  \A p \in Procs :
    /\ pc[p] \in Before => lockFile # p
    /\ pc[p] = "judge" => seen[p] \in Servers \ {p}

\* What serial starts give: one process acquires at a time, the file it has
\* read can only go meanwhile, and it unlinks only when nobody holds.
OneAcquires == \A p, q \in Procs : pc[p] \in Acquiring /\ pc[q] \in Acquiring => p = q
HoldersOwn  == \A p \in Procs : Holding(p) => lockFile = p /\ written[p]
WritersOwn  == \A p \in Procs : pc[p] = "write" => lockFile = p
JudgedStays == \A p \in Procs : pc[p] = "judge" => lockFile \in {seen[p], NoFile}
UnlinkAlone == \A p \in Procs : pc[p] = "unlink" => \A q \in Procs : ~ Holding(q)
FreshIsFree == \A p \in Procs : pc[p] = "recreate" => lockFile = NoFile

Serial ==
  serial =>
    /\ OneAcquires /\ HoldersOwn  /\ WritersOwn
    /\ JudgedStays /\ UnlinkAlone /\ FreshIsFree

LockIInv == LockTypeOK /\ Foreign /\ Serial

-----------------------------------------------------------------------------
(* The invariant is inductive.                                             *)

\* It holds before any process has started: no file, nobody on the way.
LEMMA LockInitially == LockInit => LockIInv
<1> SUFFICES ASSUME LockInit PROVE LockIInv
  OBVIOUS
<1> USE LockAssumption DEF LockInit
<1>1. LockTypeOK
  BY DEF LockTypeOK, Locations
<1>2. Foreign
  BY DEF Foreign
<1>3. Serial
  BY DEF Serial, OneAcquires, HoldersOwn, WritersOwn, JudgedStays, UnlinkAlone,
         FreshIsFree, Holding, Acquiring

<1> QED
  BY <1>1, <1>2, <1>3 DEF LockIInv

\* Start: starting makes p the only process on the way, for serial forbids more.
LEMMA StartKeeps ==
  ASSUME LockIInv, NEW p \in Procs, Start(p)
  PROVE  LockIInv'
<1> USE LockAssumption DEF LockIInv, Procs
<1>1. LockTypeOK'
  BY DEF Start, Goto, LockTypeOK, Locations, Acquiring
<1>2. Foreign'
  BY DEF Start, Goto, Foreign, Before
<1>3. Serial'
  <2> SUFFICES ASSUME serial PROVE (OneAcquires /\ HoldersOwn /\ WritersOwn
                                 /\ JudgedStays /\ UnlinkAlone /\ FreshIsFree)'
    BY DEF Serial, Start
  <2> USE DEF Serial, LockTypeOK, Holding
  <2>1. OneAcquires'
    BY DEF Start, Busy, Goto, OneAcquires
  <2>2. HoldersOwn'
    BY DEF Start, Goto, HoldersOwn
  <2>3. WritersOwn'
    BY DEF Start, Goto, WritersOwn
  <2>4. JudgedStays'
    BY DEF Start, Goto, JudgedStays
  <2>5. UnlinkAlone'
    BY DEF Start, Goto, UnlinkAlone
  <2>6. FreshIsFree'
    BY DEF Start, Goto, FreshIsFree
  <2> QED
    BY <2>1, <2>2, <2>3, <2>4, <2>5, <2>6
<1> QED
  BY <1>1, <1>2, <1>3

\* Exists: a restore that finds no file may create one; nothing else moves.
LEMMA ExistsKeeps ==
  ASSUME LockIInv, NEW p \in Procs, Exists(p)
  PROVE  LockIInv'
<1> USE LockAssumption DEF LockIInv, Procs
<1>1. LockTypeOK'
  BY DEF Exists, Goto, LockTypeOK, Locations, Acquiring
<1>2. Foreign'
  BY DEF Exists, Goto, Foreign, Before
<1>3. Serial'
  <2> SUFFICES ASSUME serial PROVE (OneAcquires /\ HoldersOwn /\ WritersOwn
                                 /\ JudgedStays /\ UnlinkAlone /\ FreshIsFree)'
    BY DEF Serial, Exists
  <2> USE DEF Serial, LockTypeOK, Holding
  <2>1. OneAcquires'
    BY DEF Exists, Goto, Acquiring, OneAcquires
  <2>2. HoldersOwn'
    BY DEF Exists, Goto, HoldersOwn
  <2>3. WritersOwn'
    BY DEF Exists, Goto, WritersOwn
  <2>4. JudgedStays'
    BY DEF Exists, Goto, JudgedStays
  <2>5. UnlinkAlone'
    BY DEF Exists, Goto, UnlinkAlone
  <2>6. FreshIsFree'
    BY DEF Exists, Goto, FreshIsFree
  <2> QED
    BY <2>1, <2>2, <2>3, <2>4, <2>5, <2>6
<1> QED
  BY <1>1, <1>2, <1>3

\* Create: a file is created only where there is none, so nobody holds then.
LEMMA CreateKeeps ==
  ASSUME LockIInv, NEW p \in Procs, Create(p)
  PROVE  LockIInv'
<1> USE LockAssumption DEF LockIInv, Procs
<1>1. LockTypeOK'
  BY DEF Create, Open, Goto, LockTypeOK, Locations, Acquiring
<1>2. Foreign'
  BY DEF Create, Open, Goto, LockTypeOK, Foreign, Before
<1>3. Serial'
  <2> SUFFICES ASSUME serial PROVE (OneAcquires /\ HoldersOwn /\ WritersOwn
                                 /\ JudgedStays /\ UnlinkAlone /\ FreshIsFree)'
    BY DEF Serial, Create
  <2> USE DEF Serial, LockTypeOK, Holding
  <2>1. OneAcquires'
    BY DEF Create, Open, Goto, Acquiring, OneAcquires
  <2>2. HoldersOwn'
    BY DEF Create, Open, Goto, HoldersOwn
  <2>3. WritersOwn'
    BY DEF Create, Open, Goto, WritersOwn
  <2>4. JudgedStays'
    BY DEF Create, Open, Goto, Acquiring, OneAcquires, JudgedStays
  <2>5. UnlinkAlone'
    BY DEF Create, Open, Goto, UnlinkAlone
  <2>6. FreshIsFree'
    BY DEF Create, Open, Goto, Acquiring, OneAcquires, FreshIsFree
  <2> QED
    BY <2>1, <2>2, <2>3, <2>4, <2>5, <2>6
<1> QED
  BY <1>1, <1>2, <1>3

\* Read: the file that is read is another process's, a server's.
LEMMA ReadKeeps ==
  ASSUME LockIInv, NEW p \in Procs, Read(p)
  PROVE  LockIInv'
<1> USE LockAssumption DEF LockIInv, Procs
<1>1. LockTypeOK'
  BY DEF Read, Goto, LockTypeOK, Locations, Acquiring, Ended
<1>2. Foreign'
  BY DEF Read, Goto, LockTypeOK, Foreign, Before
<1>3. Serial'
  <2> SUFFICES ASSUME serial PROVE (OneAcquires /\ HoldersOwn /\ WritersOwn
                                 /\ JudgedStays /\ UnlinkAlone /\ FreshIsFree)'
    BY DEF Serial, Read
  <2> USE DEF Serial, LockTypeOK, Holding
  <2>1. OneAcquires'
    BY DEF Read, Goto, Acquiring, OneAcquires
  <2>2. HoldersOwn'
    BY DEF Read, Goto, HoldersOwn
  <2>3. WritersOwn'
    BY DEF Read, Goto, WritersOwn
  <2>4. JudgedStays'
    BY DEF Read, Goto, JudgedStays
  <2>5. UnlinkAlone'
    BY DEF Read, Goto, UnlinkAlone
  <2>6. FreshIsFree'
    BY DEF Read, Goto, FreshIsFree
  <2> QED
    BY <2>1, <2>2, <2>3, <2>4, <2>5, <2>6
<1> QED
  BY <1>1, <1>2, <1>3

\* Judge: the PID judged is dead, so no holder is left that owns the file.
LEMMA JudgeKeeps ==
  ASSUME LockIInv, NEW p \in Procs, Judge(p)
  PROVE  LockIInv'
<1> USE LockAssumption DEF LockIInv, Procs
<1>1. LockTypeOK'
  BY DEF Judge, Goto, Ended, LockTypeOK, Locations, Acquiring
<1>2. Foreign'
  BY DEF Judge, Goto, Foreign, Before
<1>3. Serial'
  <2> SUFFICES ASSUME serial PROVE (OneAcquires /\ HoldersOwn /\ WritersOwn
                                 /\ JudgedStays /\ UnlinkAlone /\ FreshIsFree)'
    BY DEF Serial, Judge
  <2> USE DEF Serial, LockTypeOK, Holding
  <2>1. OneAcquires'
    BY DEF Judge, Goto, Acquiring, OneAcquires
  <2>2. HoldersOwn'
    BY DEF Judge, Goto, HoldersOwn
  <2>3. WritersOwn'
    BY DEF Judge, Goto, WritersOwn
  <2>4. JudgedStays'
    BY DEF Judge, Goto, JudgedStays
  <2>5. UnlinkAlone'
    BY DEF Judge, Goto, Alive, Ended, Foreign, HoldersOwn, JudgedStays, UnlinkAlone
  <2>6. FreshIsFree'
    BY DEF Judge, Goto, FreshIsFree
  <2> QED
    BY <2>1, <2>2, <2>3, <2>4, <2>5, <2>6
<1> QED
  BY <1>1, <1>2, <1>3

\* Unlink: the file unlinked is nobody's that holds or is about to.
LEMMA UnlinkKeeps ==
  ASSUME LockIInv, NEW p \in Procs, Unlink(p)
  PROVE  LockIInv'
<1> USE LockAssumption DEF LockIInv, Procs
<1>1. LockTypeOK'
  BY DEF Unlink, Goto, LockTypeOK, Locations, Acquiring, Ended
<1>2. Foreign'
  BY DEF Unlink, Goto, LockTypeOK, Foreign, Before
<1>3. Serial'
  <2> SUFFICES ASSUME serial PROVE (OneAcquires /\ HoldersOwn /\ WritersOwn
                                 /\ JudgedStays /\ UnlinkAlone /\ FreshIsFree)'
    BY DEF Serial, Unlink, Goto
  <2> USE DEF Serial, LockTypeOK, Holding
  <2>1. OneAcquires'
    BY DEF Unlink, Goto, Acquiring, OneAcquires
  <2>2. HoldersOwn'
    BY DEF Unlink, Goto, HoldersOwn, UnlinkAlone
  <2>3. WritersOwn'
    BY DEF Unlink, Goto, Acquiring, OneAcquires, WritersOwn
  <2>4. JudgedStays'
    BY DEF Unlink, Goto, JudgedStays
  <2>5. UnlinkAlone'
    BY DEF Unlink, Goto, UnlinkAlone
  <2>6. FreshIsFree'
    BY DEF Unlink, Goto, FreshIsFree
  <2> QED
    BY <2>1, <2>2, <2>3, <2>4, <2>5, <2>6
<1> QED
  BY <1>1, <1>2, <1>3

\* Recreate: as for Create.
LEMMA RecreateKeeps ==
  ASSUME LockIInv, NEW p \in Procs, Recreate(p)
  PROVE  LockIInv'
<1> USE LockAssumption DEF LockIInv, Procs
<1>1. LockTypeOK'
  BY DEF Recreate, Open, Goto, LockTypeOK, Locations, Acquiring, Ended
<1>2. Foreign'
  BY DEF Recreate, Open, Goto, LockTypeOK, Foreign, Before
<1>3. Serial'
  <2> SUFFICES ASSUME serial PROVE (OneAcquires /\ HoldersOwn /\ WritersOwn
                                 /\ JudgedStays /\ UnlinkAlone /\ FreshIsFree)'
    BY DEF Serial, Recreate, Open, Goto
  <2> USE DEF Serial, LockTypeOK, Holding
  <2>1. OneAcquires'
    BY DEF Recreate, Open, Goto, Acquiring, OneAcquires
  <2>2. HoldersOwn'
    BY DEF Recreate, Open, Goto, HoldersOwn
  <2>3. WritersOwn'
    BY DEF Recreate, Open, Goto, Acquiring, OneAcquires, WritersOwn
  <2>4. JudgedStays'
    BY DEF Recreate, Open, Goto, Acquiring, OneAcquires, JudgedStays
  <2>5. UnlinkAlone'
    BY DEF Recreate, Open, Goto, UnlinkAlone
  <2>6. FreshIsFree'
    BY DEF Recreate, Open, Goto, Acquiring, OneAcquires, FreshIsFree
  <2> QED
    BY <2>1, <2>2, <2>3, <2>4, <2>5, <2>6
<1> QED
  BY <1>1, <1>2, <1>3

\* Write: the writer's file is at the path, so it holds alone.
LEMMA WriteKeeps ==
  ASSUME LockIInv, NEW p \in Procs, Write(p)
  PROVE  LockIInv'
<1> USE LockAssumption DEF LockIInv, Procs
<1>1. LockTypeOK'
  BY DEF Write, Goto, LockTypeOK, Locations, Acquiring, Ended
<1>2. Foreign'
  BY DEF Write, Goto, LockTypeOK, Foreign, Before
<1>3. Serial'
  <2> SUFFICES ASSUME serial PROVE (OneAcquires /\ HoldersOwn /\ WritersOwn
                                 /\ JudgedStays /\ UnlinkAlone /\ FreshIsFree)'
    BY DEF Serial, Write, Goto
  <2> USE DEF Serial, LockTypeOK, Holding
  <2>1. OneAcquires'
    BY DEF Write, Goto, Acquiring, OneAcquires
  <2>2. HoldersOwn'
    BY DEF Write, Goto, HoldersOwn, WritersOwn
  <2>3. WritersOwn'
    BY DEF Write, Goto, Acquiring, OneAcquires, WritersOwn
  <2>4. JudgedStays'
    BY DEF Write, Goto, JudgedStays
  <2>5. UnlinkAlone'
    BY DEF Write, Goto, UnlinkAlone, Acquiring, OneAcquires
  <2>6. FreshIsFree'
    BY DEF Write, Goto, FreshIsFree
  <2> QED
    BY <2>1, <2>2, <2>3, <2>4, <2>5, <2>6
<1> QED
  BY <1>1, <1>2, <1>3

\* Release: the path of the one holder is unlinked by that holder.
LEMMA ReleaseKeeps ==
  ASSUME LockIInv, NEW p \in Procs, Release(p)
  PROVE  LockIInv'
<1> USE LockAssumption DEF LockIInv, Procs
<1>1. LockTypeOK'
  BY DEF Release, Goto, LockTypeOK, Locations, Acquiring, Ended, Holding
<1>2. Foreign'
  BY DEF Release, Goto, LockTypeOK, Foreign, Before, Holding
<1>3. Serial'
  <2> SUFFICES ASSUME serial PROVE (OneAcquires /\ HoldersOwn /\ WritersOwn
                                 /\ JudgedStays /\ UnlinkAlone /\ FreshIsFree)'
    BY DEF Serial, Release, Goto
  <2> USE DEF Serial, LockTypeOK, Holding
  <2>1. OneAcquires'
    BY DEF Release, Goto, Acquiring, OneAcquires
  <2>2. HoldersOwn'
    BY DEF Release, Goto, HoldersOwn
  <2>3. WritersOwn'
    BY DEF Release, Goto, HoldersOwn, WritersOwn
  <2>4. JudgedStays'
    BY DEF Release, Goto, JudgedStays
  <2>5. UnlinkAlone'
    BY DEF Release, Goto, UnlinkAlone
  <2>6. FreshIsFree'
    BY DEF Release, Goto, FreshIsFree
  <2> QED
    BY <2>1, <2>2, <2>3, <2>4, <2>5, <2>6
<1> QED
  BY <1>1, <1>2, <1>3

\* Die: a death takes a process off every obligation.
LEMMA DieKeeps ==
  ASSUME LockIInv, NEW p \in Procs, Die(p)
  PROVE  LockIInv'
<1> USE LockAssumption DEF LockIInv, Procs
<1>1. LockTypeOK'
  BY DEF Die, Goto, LockTypeOK, Locations, Ended
<1>2. Foreign'
  BY DEF Die, Goto, LockTypeOK, Foreign, Before
<1>3. Serial'
  <2> SUFFICES ASSUME serial PROVE (OneAcquires /\ HoldersOwn /\ WritersOwn
                                 /\ JudgedStays /\ UnlinkAlone /\ FreshIsFree)'
    BY DEF Serial, Die, Goto, Ended
  <2> USE DEF Serial, LockTypeOK, Holding
  <2>1. OneAcquires'
    BY DEF Die, Goto, Acquiring, OneAcquires
  <2>2. HoldersOwn'
    BY DEF Die, Goto, HoldersOwn
  <2>3. WritersOwn'
    BY DEF Die, Goto, WritersOwn
  <2>4. JudgedStays'
    BY DEF Die, Goto, JudgedStays
  <2>5. UnlinkAlone'
    BY DEF Die, Goto, UnlinkAlone
  <2>6. FreshIsFree'
    BY DEF Die, Goto, FreshIsFree
  <2> QED
    BY <2>1, <2>2, <2>3, <2>4, <2>5, <2>6
<1> QED
  BY <1>1, <1>2, <1>3

\* Every step keeps the invariant: the actions one by one, and stuttering.
LEMMA LockStep == LockIInv /\ [LockNext]_lockVars => LockIInv'
<1> SUFFICES ASSUME LockIInv, [LockNext]_lockVars PROVE LockIInv'
  OBVIOUS
<1>1. CASE LockNext
  <2> PICK p \in Procs : Start(p) \/ Proceed(p) \/ Release(p) \/ Die(p)
    BY <1>1 DEF LockNext
  <2> QED
    BY StartKeeps, ExistsKeeps, CreateKeeps, ReadKeeps, JudgeKeeps, UnlinkKeeps,
       RecreateKeeps, WriteKeeps, ReleaseKeeps, DieKeeps DEF Proceed
<1>2. CASE UNCHANGED lockVars
  BY <1>2 DEF lockVars, LockIInv, LockTypeOK, Foreign, Serial, OneAcquires, HoldersOwn, WritersOwn,
              JudgedStays, UnlinkAlone, FreshIsFree, Holding
<1> QED
  BY <1>1, <1>2

LEMMA LockInductive == LockSpec => []LockIInv
<1> QED
  BY LockInitially, LockStep, PTL DEF LockSpec

-----------------------------------------------------------------------------
(* The theorems.                                                           *)

\* The variables keep their types: in particular a PID that lock_is_stale has
\* read is always a server's, never that of a restore.
THEOREM LockTypeCorrect == LockSpec => []LockTypeOK
<1>1. LockIInv => LockTypeOK
  BY DEF LockIInv
<1> QED
  BY <1>1, LockInductive, PTL

\* As long as starts are serialised, at most one server or restore holds the
\* storage, however many there are and whenever they stop or crash.
THEOREM ExclusionCorrect == LockSpec => []ExclusiveWhenSerial
<1>1. LockIInv => ExclusiveWhenSerial
  BY DEF LockIInv, Serial, HoldersOwn, ExclusiveWhenSerial, MutualExclusion
<1> QED
  BY <1>1, LockInductive, PTL

\* Then the holder's own file, its content written, stays at the path until the
\* holder ends.
THEOREM FileCorrect == LockSpec => []HolderHasFile
<1>1. LockIInv => HolderHasFile
  BY DEF LockIInv, Serial, HoldersOwn, HolderHasFile
<1> QED
  BY <1>1, LockInductive, PTL

\* Then nobody is turned away by the lock of a server that has crashed after
\* writing it: Read refuses a file without a PID, Judge a live PID that is not
\* the reader's own, and a second attempt never finds a file.
THEOREM TurnedAwayCorrect == LockSpec => RefusalJustified
<1> DEFINE Justified(p) ==
      serial /\ pc[p] # "refused" /\ pc'[p] = "refused" =>
        \/ \E q \in Procs \ {p} : Alive(q)
        \/ lockFile = NoFile
        \/ lockFile \in Restores
        \/ ~ written[lockFile]
<1>1. ASSUME LockIInv, [LockNext]_lockVars, NEW p \in Procs PROVE Justified(p)
  <2> SUFFICES ASSUME serial, pc[p] # "refused", pc'[p] = "refused"
               PROVE  \/ \E q \in Procs \ {p} : Alive(q)
                      \/ lockFile = NoFile
                      \/ lockFile \in Restores
                      \/ ~ written[lockFile]
    OBVIOUS
  <2>1. LockNext
    BY <1>1 DEF lockVars
  <2>2. PICK r \in Procs : Start(r) \/ Proceed(r) \/ Release(r) \/ Die(r)
    BY <2>1 DEF LockNext
  <2>3. r = p
    BY <1>1, <2>2 DEF LockIInv, LockTypeOK, Start, Proceed, Release, Die, Exists, Create, Read,
                      Judge, Unlink, Recreate, Write, Open, Goto
  <2>4. CASE Read(p)
    BY <1>1, <2>4 DEF LockIInv, LockTypeOK, Read, Goto, Procs
  <2>5. CASE Judge(p)
    <3>1. Alive(seen[p])
      BY <1>1, <2>5 DEF LockIInv, LockTypeOK, Judge, Goto
    <3>2. seen[p] \in Procs \ {p}
      BY <1>1, <2>5 DEF LockIInv, Foreign, Judge, Procs
    <3> QED
      BY <3>1, <3>2
  <2>6. ~ Recreate(p)
    BY <1>1 DEF LockIInv, LockTypeOK, Serial, FreshIsFree, Recreate, Open, Goto
  <2>7. Read(p) \/ Judge(p)
    BY <1>1, <2>2, <2>3, <2>6 DEF LockIInv, LockTypeOK, Start, Proceed, Release, Die, Exists,
                      Create, Unlink, Write, Open, Goto
  <2> QED
    BY <2>4, <2>5, <2>7
<1>2. LockIInv /\ [LockNext]_lockVars => [\A p \in Procs : Justified(p)]_lockVars
  BY <1>1
<1>3. LockSpec => [][\A p \in Procs : Justified(p)]_lockVars
  BY <1>2, LockInductive, PTL DEF LockSpec
<1> QED
  BY <1>3 DEF RefusalJustified

-----------------------------------------------------------------------------
(* The lock's promise.  Only the last system call of an acquisition, a     *)
(* release and a death change who holds.                                   *)

\* The moment a process has written its PID, nobody else holds: the file at the
\* path is the writer's, and a holder's file would be there instead.
LEMMA WriterAcquires ==
  ASSUME LockIInv, serial, NEW p \in Procs, Write(p)
  PROVE  HoldersIfSerial = {} /\ HoldersIfSerial' = {p}
<1>1. pc[p] = "write" /\ pc' = [pc EXCEPT ![p] = "holding"] /\ serial' = serial
  BY DEF Write, Goto
<1>2. lockFile = p /\ \A q \in Procs : Holding(q) => lockFile = q
  BY <1>1 DEF LockIInv, Serial, WritersOwn, HoldersOwn
<1>3. \A q \in Procs : pc[q] # "holding"
  BY <1>1, <1>2 DEF Holding
<1>4. \A q \in Procs : pc'[q] = "holding" <=> q = p
  BY <1>1, <1>3 DEF LockIInv, LockTypeOK
<1> QED
  BY <1>1, <1>3, <1>4 DEF HoldersIfSerial, Holding

\* A step of p that leaves p without the storage gives back what p had.
LEMMA OthersKeep ==
  ASSUME LockIInv, NEW p \in Procs, serial' = serial,
         pc' = [pc EXCEPT ![p] = pc'[p]], pc'[p] # "holding"
  PROVE  HoldersIfSerial' = HoldersIfSerial \ {p}
BY DEF HoldersIfSerial, Holding, LockIInv, LockTypeOK

\* So every step is one of the abstract lock, or leaves its holders alone.
LEMMA StepExcludes ==
  LockIInv /\ [LockNext]_lockVars => [Exclusion!Next]_HoldersIfSerial
<1> SUFFICES ASSUME LockIInv, [LockNext]_lockVars
             PROVE  [Exclusion!Next]_HoldersIfSerial
  OBVIOUS
<1>1. ASSUME NEW p \in Procs, HoldersIfSerial' = HoldersIfSerial \ {p}
      PROVE  [Exclusion!Next]_HoldersIfSerial
  BY <1>1 DEF Exclusion!Next, Exclusion!Release
<1>2. ASSUME NEW p \in Procs, Write(p)
      PROVE  [Exclusion!Next]_HoldersIfSerial
  <2>1. CASE serial
    BY <1>2, <2>1, WriterAcquires DEF Exclusion!Next, Exclusion!Acquire
  <2>2. CASE ~ serial
    BY <1>2, <2>2 DEF Write, HoldersIfSerial
  <2> QED
    BY <2>1, <2>2
<1>3. ASSUME NEW p \in Procs, Start(p) \/ Proceed(p) \/ Release(p) \/ Die(p), ~ Write(p)
      PROVE  [Exclusion!Next]_HoldersIfSerial
  <2>1. serial' = serial /\ pc' = [pc EXCEPT ![p] = pc'[p]] /\ pc'[p] # "holding"
    BY <1>3 DEF LockIInv, LockTypeOK, Start, Proceed, Release, Die, Exists, Create, Read,
                Judge, Unlink, Recreate, Open, Goto
  <2> QED
    BY <1>1, <2>1, OthersKeep
<1>4. CASE UNCHANGED lockVars
  BY <1>4 DEF lockVars, HoldersIfSerial, Holding
<1> QED
  BY <1>2, <1>3, <1>4 DEF LockNext

\* ImplementsStorageLock: the system calls of any number of servers and restores,
\* with the stale files they remove and the deaths in between, amount to a lock
\* that is taken when it is free, as long as starts are serialised.
THEOREM LockRefinement == LockSpec => ImplementsStorageLock
<1>1. LockInit => Exclusion!Init
  BY DEF LockInit, Exclusion!Init, HoldersIfSerial, Holding
<1>2. LockIInv /\ [LockNext]_lockVars => [Exclusion!Next]_HoldersIfSerial
  BY StepExcludes
<1> QED
  BY <1>1, <1>2, LockInductive, PTL DEF LockSpec, ImplementsStorageLock, Exclusion!Spec

-----------------------------------------------------------------------------
(* The threads of a server: what stop() has undone.                        *)

Taken == {"shutdown", "close", "remove", "release"}

Typed ==
  /\ main \in MainAt
  /\ stop \in [Stoppers -> StopAt]

\* What the thread that took the server has undone so far.
Undone ==
  \A t \in Stoppers :
    /\ stop[t] \in Taken \ {"shutdown"} => LoopEnded
    /\ stop[t] \in {"remove", "release"} => ~ listening
    /\ stop[t] = "release" => ~ files

IInv == Typed /\ Undone /\ LockOutlivesListener

LEMMA InitIInv == Init => IInv
BY DEF Init, IInv, Typed, Undone, LockOutlivesListener, MainAt,
       StopAt, Starting, Looping, Taken, LoopEnded, Stoppers

LEMMA StepIInv == IInv /\ [Next]_vars => IInv'
<1> SUFFICES ASSUME IInv, [Next]_vars PROVE IInv'
  OBVIOUS
<1> USE DEF IInv, Typed, Undone, LockOutlivesListener, MainAt,
            StopAt, Starting, Looping, Taken, LoopEnded, loopVars, poolVars, stopVars
<1>1. CASE AcquireLock
  BY <1>1 DEF AcquireLock
<1>2. CASE Bind
  BY <1>2 DEF Bind
<1>3. CASE Publish
  BY <1>3 DEF Publish
<1>4. CASE Accept \/ Acquire \/ Refuse \/ Submit
  BY <1>4 DEF Accept, Acquire, Refuse, Submit
<1>5. CASE LeaveLoop
  BY <1>5 DEF LeaveLoop, StopGoto, Stoppers
<1>6. CASE Exit
  BY <1>6 DEF Exit
<1>7. CASE \E c \in Conns : Connect(c)
  BY <1>7 DEF Connect
<1>8. CASE \E w \in Workers : WorkerStep(w) \/ Finish(w)
  BY <1>8 DEF WorkerStep, Take, GiveBack, Finish
<1>9. CASE \E t \in Signals : Signal(t)
  BY <1>9 DEF Signal, StopGoto, Stoppers
<1>10. ASSUME NEW t \in Stoppers, StopStep(t) PROVE IInv'
  <2>1. CASE Enter(t)
    BY <2>1 DEF Enter, StopGoto
  <2>2. CASE AwaitLoop(t)
    BY <2>2 DEF AwaitLoop, StopGoto
  <2>3. CASE Close(t)
    BY <2>3 DEF Close, StopGoto
  <2>4. CASE RemoveFiles(t)
    BY <2>4 DEF RemoveFiles, StopGoto
  <2>5. CASE ReleaseLock(t)
    BY <2>5 DEF ReleaseLock, StopGoto
  <2> QED
    BY <1>10, <2>1, <2>2, <2>3, <2>4, <2>5 DEF StopStep
<1>11. CASE UNCHANGED vars
  BY <1>11 DEF vars
<1> QED
  BY <1>1, <1>2, <1>3, <1>4, <1>5, <1>6, <1>7, <1>8, <1>9, <1>10, <1>11
     DEF Next, MainStep

\* LockOutlivesListener, for any number of workers, connections and stop
\* signals: wherever stop() is called and however its calls overlap, no server
\* is seen to accept connections without the service lock.
THEOREM OutliveCorrect == Spec => []LockOutlivesListener
<1>1. IInv => LockOutlivesListener
  BY DEF IInv
<1> QED
  BY InitIInv, StepIInv, <1>1, PTL DEF Spec

-----------------------------------------------------------------------------
(* The slots.  Every slot is free, or with the accept loop between acquire *)
(* and submit, or with a connection in the queue, or with a worker that    *)
(* has not given it back.  The queue holds connections first: what close() *)
(* puts in comes when no connection can follow.                            *)

Active == {w \in Workers : worker[w].at \in {"busy", "returned", "raised"}}
Between == IF main = "submit" THEN 1 ELSE 0

\* k connections are in the queue, before anything else.
Split(k) ==
  /\ k <= Len(queue)
  /\ \A i \in 1..Len(queue) : i <= k => queue[i] \in Conns
  /\ \A i \in 1..Len(queue) : i > k => queue[i] = Quit
  /\ slots + k + Between + Cardinality(Active) = MaxConnections

PoolTyped ==
  /\ main \in MainAt /\ slots \in Nat
  /\ current \in Conns \cup {NoConn}
  /\ queue \in Seq(Conns \cup {Quit}) /\ backlog \in Seq(Conns)
  /\ worker \in [Workers -> [at : WorkerAt, conn : Conns \cup {NoConn}]]
  /\ main \in {"acquire", "submit"} <=> current \in Conns

\* No worker is told to leave while connections may still come, and when one has
\* left none waits.
Leaving ==
  /\ main \in Starting \cup Looping =>
       /\ \A i \in 1..Len(queue) : queue[i] # Quit
       /\ \A w \in Workers : worker[w].at # "gone"
  /\ (\E w \in Workers : worker[w].at = "gone") => \A i \in 1..Len(queue) : queue[i] = Quit

\* A connection waits in one place.
Distinct ==
  /\ \A i, j \in 1..Len(backlog) : backlog[i] = backlog[j] => i = j
  /\ \A i, j \in 1..Len(queue) : queue[i] = queue[j] /\ queue[i] # Quit => i = j
  /\ \A i \in 1..Len(backlog) : backlog[i] # current
  /\ \A i \in 1..Len(queue) : queue[i] # current
  /\ \A i \in 1..Len(backlog), j \in 1..Len(queue) : backlog[i] # queue[j]

PoolInv == PoolTyped /\ Leaving /\ Distinct /\ \E k \in Nat : Split(k)

LEMMA ActiveFinite ==
  IsFiniteSet(Active) /\ Cardinality(Active) \in Nat /\ MaxConnections \in Nat
<1>1. IsFiniteSet(Workers)
  BY PoolAssumption
<1>2. IsFiniteSet(Active)
  BY <1>1, FS_Subset DEF Active
<1> QED
  BY <1>1, <1>2, FS_CardinalityType DEF MaxConnections

\* A worker that takes a connection, or gives its slot back.
LEMMA ActiveAdd ==
  ASSUME NEW w \in Workers, w \notin Active, Active' = Active \cup {w}
  PROVE  Cardinality(Active)' = Cardinality(Active) + 1
BY ActiveFinite, FS_AddElement

LEMMA ActiveRemove ==
  ASSUME NEW w \in Workers, w \in Active, Active' = Active \ {w}
  PROVE  Cardinality(Active)' = Cardinality(Active) - 1
BY ActiveFinite, FS_RemoveElement

LEMMA QuitAllIs ==
  /\ QuitAll \in Seq(Conns \cup {Quit}) /\ Len(QuitAll) = MaxConnections
  /\ \A i \in 1..Len(QuitAll) : QuitAll[i] = Quit
BY ActiveFinite DEF QuitAll, MaxConnections

LEMMA InitPool == Init => PoolInv
<1> SUFFICES ASSUME Init PROVE PoolInv
  OBVIOUS
<1> USE DEF Init
<1>1. PoolTyped
  BY ActiveFinite, PoolAssumption DEF PoolTyped, MainAt, Starting, Looping, WorkerAt
<1>2. Leaving /\ Distinct
  BY DEF Leaving, Distinct
<1>3. Split(0)
  <2>1. Active = {}
    BY DEF Active
  <2>2. Cardinality(Active) = 0
    BY <2>1, FS_EmptySet
  <2> QED
    BY <2>2, ActiveFinite DEF Split, Between
<1> QED
  BY <1>1, <1>2, <1>3 DEF PoolInv

\* A step that leaves the pool, the backlog and the connection in hand alone.
LEMMA PoolApart ==
  ASSUME PoolInv, UNCHANGED <<slots, queue, worker, backlog, current>>,
         main' \in MainAt,
         main' = main \/ (main \notin {"acquire", "submit"} /\ main' \notin {"acquire", "submit"}),
         main' \in Starting \cup Looping => main \in Starting \cup Looping
  PROVE  PoolInv'
<1> USE DEF PoolInv
<1>1. PoolTyped'
  BY DEF PoolTyped
<1>2. Leaving' /\ Distinct'
  BY DEF Leaving, Distinct
<1>3. PICK k \in Nat : Split(k)
  OBVIOUS
<1>4. Active' = Active
  BY DEF Active
<1>5. Split(k)'
  BY <1>3, <1>4 DEF Split, Between
<1> QED
  BY <1>1, <1>2, <1>5

\* close() of the pool, when no connection can be submitted any more.
LEMMA PoolCloses ==
  ASSUME PoolInv, queue' = queue \o QuitAll, UNCHANGED <<slots, worker, current>>,
         backlog' = backlog \/ backlog' = <<>>,
         main' \in MainAt \ (Starting \cup Looping), main \notin Looping
  PROVE  PoolInv'
<1> USE DEF PoolInv
<1>1. /\ queue' \in Seq(Conns \cup {Quit}) /\ Len(queue') = Len(queue) + Len(QuitAll)
      /\ \A i \in 1..Len(queue') :
           queue'[i] = IF i <= Len(queue) THEN queue[i] ELSE Quit
  <2>1. queue \in Seq(Conns \cup {Quit}) /\ QuitAll \in Seq(Conns \cup {Quit})
    BY QuitAllIs DEF PoolTyped
  <2>2. /\ queue' \in Seq(Conns \cup {Quit}) /\ Len(queue') = Len(queue) + Len(QuitAll)
        /\ \A i \in 1..Len(queue') :
             queue'[i] = IF i <= Len(queue) THEN queue[i] ELSE QuitAll[i - Len(queue)]
    BY <2>1
  <2>3. \A i \in 1..(Len(queue) + Len(QuitAll)) :
          ~(i <= Len(queue)) => i - Len(queue) \in 1..Len(QuitAll)
    BY <2>1
  <2> QED
    BY <2>2, <2>3, QuitAllIs
<1>2. Len(queue) \in Nat /\ Len(queue') \in Nat
  BY <1>1 DEF PoolTyped
<1>3. PoolTyped'
  <2>1. main' \notin {"acquire", "submit"} /\ main \notin {"acquire", "submit"}
    BY DEF Looping
  <2>2. backlog' \in Seq(Conns)
    <3>1. backlog \in Seq(Conns)
      BY DEF PoolTyped
    <3>2. << >> \in Seq(Conns)
      OBVIOUS
    <3> QED
      BY <3>1, <3>2
  <2>3. main' \in MainAt /\ slots' \in Nat /\ current' \in Conns \cup {NoConn}
        /\ worker' \in [Workers -> [at : WorkerAt, conn : Conns \cup {NoConn}]]
    BY DEF PoolTyped
  <2>4. current' \notin Conns
    BY <2>1 DEF PoolTyped
  <2> QED
    BY <1>1, <2>1, <2>2, <2>3, <2>4 DEF PoolTyped
<1>4. Leaving'
  BY <1>1, <1>2 DEF Leaving
<1>5. Distinct'
  <2>1. \A i \in 1..Len(queue') : queue'[i] # Quit => i \in 1..Len(queue) /\ queue'[i] = queue[i]
    BY <1>1, <1>2
  <2>2. \A i \in 1..Len(backlog') : i \in 1..Len(backlog) /\ backlog'[i] = backlog[i]
    OBVIOUS
  <2>3. current' # Quit /\ \A i \in 1..Len(backlog') : backlog'[i] # Quit
    BY <1>3, PoolAssumption DEF PoolTyped
  <2> QED
    BY <2>1, <2>2, <2>3 DEF Distinct
<1>6. PICK k \in Nat : Split(k)
  OBVIOUS
<1>7. Active' = Active
  BY DEF Active
<1>8. Split(k)'
  <2>1. k <= Len(queue')
    BY <1>1, <1>2, <1>6, QuitAllIs, ActiveFinite DEF Split
  <2>2. /\ \A i \in 1..Len(queue') : i <= k => queue'[i] \in Conns
        /\ \A i \in 1..Len(queue') : i > k => queue'[i] = Quit
    BY <1>1, <1>2, <1>6 DEF Split
  <2>3. Between' = Between
    BY DEF Between, Looping, Starting
  <2> QED
    BY <1>6, <1>7, <2>1, <2>2, <2>3 DEF Split, MaxConnections
<1> QED
  BY <1>3, <1>4, <1>5, <1>8

\* Connections come in, are refused or handed over: by the accept loop alone.
LEMMA LoopPool ==
  ASSUME PoolInv, Accept \/ Acquire \/ Refuse \/ Submit
  PROVE  PoolInv'
<1> USE DEF PoolInv
<1>1. PICK k \in Nat : Split(k)
  OBVIOUS
<1>2. Active' = Active
  BY DEF Accept, Acquire, Refuse, Submit, poolVars, Active
<1>7. NoConn \notin Conns /\ Quit \notin Conns /\ Quit # NoConn
  BY PoolAssumption
<1>3. CASE Accept
  <2>1. /\ main = "loop" /\ main' = "acquire" /\ UNCHANGED poolVars
        /\ current' = Head(backlog) /\ backlog' = Tail(backlog) /\ backlog # << >>
    BY <1>3 DEF Accept
  <2>2. /\ backlog \in Seq(Conns) /\ current' = backlog[1] /\ current' \in Conns
        /\ backlog' \in Seq(Conns) /\ Len(backlog) \in Nat /\ Len(backlog) > 0
        /\ \A i \in 1..Len(backlog') :
             i + 1 \in 1..Len(backlog) /\ backlog'[i] = backlog[i + 1]
    BY <2>1 DEF PoolTyped
  <2>3. PoolTyped'
    BY <2>1, <2>2 DEF PoolTyped, poolVars, MainAt, Looping
  <2>4. Leaving'
    BY <2>1 DEF Leaving, poolVars, Looping
  <2>5. Distinct'
    <3>1. 1 \in 1..Len(backlog)
      BY <2>2
    <3>2. ASSUME NEW i \in 1..Len(backlog'), NEW j \in 1..Len(backlog'), backlog'[i] = backlog'[j]
          PROVE  i = j
      <4>1. i + 1 \in 1..Len(backlog) /\ j + 1 \in 1..Len(backlog) /\ backlog[i + 1] = backlog[j + 1]
        BY <2>2, <3>2
      <4>2. i + 1 = j + 1
        BY <4>1 DEF Distinct
      <4>3. i \in Nat /\ j \in Nat
        BY <2>2
      <4> QED
        BY <4>2, <4>3
    <3>3. \A i \in 1..Len(backlog') : backlog'[i] # current'
      BY <2>2, <3>1 DEF Distinct
    <3> QED
      BY <2>1, <2>2, <3>1, <3>2, <3>3 DEF Distinct, poolVars
  <2>6. Split(k)'
    BY <1>1, <1>2, <2>1 DEF Split, Between, poolVars
  <2> QED
    BY <2>3, <2>4, <2>5, <2>6
<1>4. CASE Acquire
  <2>1. /\ main = "acquire" /\ main' = "submit" /\ slots > 0 /\ slots' = slots - 1
        /\ UNCHANGED <<queue, worker, backlog, current>>
    BY <1>4 DEF Acquire
  <2>2. PoolTyped'
    BY <2>1 DEF PoolTyped, MainAt, Looping
  <2>3. Leaving' /\ Distinct'
    BY <2>1 DEF Leaving, Distinct, Looping
  <2>4. Split(k)'
    BY <1>1, <1>2, <2>1, ActiveFinite DEF Split, Between, PoolTyped, MaxConnections
  <2> QED
    BY <2>2, <2>3, <2>4
<1>5. CASE Refuse
  <2>1. /\ main = "acquire" /\ main' = "loop" /\ current' = NoConn
        /\ UNCHANGED <<slots, queue, worker, backlog>>
    BY <1>5 DEF Refuse, poolVars
  <2>2. PoolTyped'
    BY <2>1, PoolAssumption DEF PoolTyped, MainAt, Looping
  <2>3. Leaving'
    BY <2>1 DEF Leaving, Looping
  <2>4. Distinct'
    <3>1. \A i \in 1..Len(queue) : queue[i] # NoConn
      BY <1>7 DEF PoolTyped
    <3>2. \A i \in 1..Len(backlog) : backlog[i] # NoConn
      BY <1>7 DEF PoolTyped
    <3> QED
      BY <2>1, <3>1, <3>2 DEF Distinct
  <2>5. Split(k)'
    BY <1>1, <1>2, <2>1 DEF Split, Between
  <2> QED
    BY <2>2, <2>3, <2>4, <2>5
<1>6. CASE Submit
  <2>1. /\ main = "submit" /\ main' = "loop" /\ current' = NoConn
        /\ queue' = Append(queue, current) /\ UNCHANGED <<slots, worker, backlog>>
    BY <1>6 DEF Submit
  <2>2. /\ current \in Conns /\ queue \in Seq(Conns \cup {Quit})
        /\ queue' \in Seq(Conns \cup {Quit}) /\ Len(queue) \in Nat /\ Len(queue') = Len(queue) + 1
        /\ \A i \in 1..Len(queue') : queue'[i] = IF i = Len(queue) + 1 THEN current ELSE queue[i]
        /\ \A i \in 1..Len(queue') : i # Len(queue) + 1 => i \in 1..Len(queue)
    BY <2>1 DEF PoolTyped
  <2>3. current # Quit /\ current # NoConn
    BY <2>2, PoolAssumption
  <2>4. \A i \in 1..Len(queue) : queue[i] # Quit
    BY <2>1 DEF Leaving, Looping
  <2>5. PoolTyped'
    BY <2>1, <2>2, PoolAssumption DEF PoolTyped, MainAt, Looping
  <2>6. Leaving'
    <3>1. \A w \in Workers : worker'[w].at # "gone"
      BY <2>1 DEF Leaving, Looping
    <3>2. \A i \in 1..Len(queue') : queue'[i] # Quit
      BY <2>2, <2>3, <2>4
    <3> QED
      BY <3>1, <3>2 DEF Leaving
  <2>7. Distinct'
    <3>1. \A i, j \in 1..Len(queue') : queue'[i] = queue'[j] /\ queue'[i] # Quit => i = j
      BY <2>2 DEF Distinct
    <3>2. \A i \in 1..Len(queue') : queue'[i] # NoConn
      BY <1>7, <2>5 DEF PoolTyped
    <3>3. \A i \in 1..Len(backlog) : backlog[i] # NoConn
      BY <1>7 DEF PoolTyped
    <3>4. \A i \in 1..Len(backlog), j \in 1..Len(queue') : backlog[i] # queue'[j]
      BY <2>2 DEF Distinct
    <3> QED
      BY <2>1, <3>1, <3>2, <3>3, <3>4 DEF Distinct
  <2>8. k = Len(queue)
    <3>1. ASSUME k < Len(queue) PROVE FALSE
      <4>1. k + 1 \in 1..Len(queue) /\ k + 1 > k
        BY <2>2, <3>1
      <4> QED
        BY <1>1, <2>4, <4>1 DEF Split
    <3> QED
      BY <1>1, <2>2, <3>1 DEF Split
  <2>9. Split(k + 1)'
    <3>1. \A i \in 1..Len(queue') : queue'[i] \in Conns
      BY <1>1, <2>2, <2>8 DEF Split
    <3>2. Between = 1 /\ Between' = 0
      BY <2>1 DEF Between
    <3>3. slots' + (k + 1) + Between' + Cardinality(Active') = MaxConnections
      BY <1>1, <1>2, <2>1, <3>2, ActiveFinite DEF Split, PoolTyped
    <3>4. k + 1 <= Len(queue') /\ \A i \in 1..Len(queue') : ~(i > k + 1)
      BY <2>2, <2>8
    <3> QED
      BY <3>1, <3>3, <3>4 DEF Split, MaxConnections
  <2>10. k + 1 \in Nat
    OBVIOUS
  <2> QED
    BY <2>5, <2>6, <2>7, <2>9, <2>10
<1> QED
  BY <1>3, <1>4, <1>5, <1>6

LEMMA ConnectPool ==
  ASSUME PoolInv, NEW c \in Conns, Connect(c)
  PROVE  PoolInv'
<1> USE DEF PoolInv
<1>1. /\ backlog' = Append(backlog, c) /\ UNCHANGED <<main, current, slots, queue, worker>>
      /\ c \notin Waiting
  BY DEF Connect, loopVars, poolVars
<1>2. /\ backlog \in Seq(Conns) /\ backlog' \in Seq(Conns)
      /\ Len(backlog) \in Nat /\ Len(backlog') = Len(backlog) + 1
      /\ \A i \in 1..Len(backlog') : backlog'[i] = IF i = Len(backlog) + 1 THEN c ELSE backlog[i]
      /\ \A i \in 1..Len(backlog') : i # Len(backlog) + 1 => i \in 1..Len(backlog)
  BY <1>1 DEF PoolTyped
<1>3. /\ \A i \in 1..Len(backlog) : backlog[i] # c
      /\ c # current
      /\ \A i \in 1..Len(queue) : queue[i] # c
  <2>1. DOMAIN backlog = 1..Len(backlog) /\ DOMAIN queue = 1..Len(queue)
    BY DEF PoolTyped
  <2> QED
    BY <1>1, <2>1 DEF Waiting, Queued, Range
<1>4. PoolTyped'
  BY <1>1, <1>2 DEF PoolTyped
<1>5. Leaving'
  BY <1>1 DEF Leaving
<1>6. Distinct'
  BY <1>1, <1>2, <1>3 DEF Distinct
<1>7. PICK k \in Nat : Split(k)
  OBVIOUS
<1>8. Split(k)'
  BY <1>1, <1>7 DEF Split, Between, Active
<1> QED
  BY <1>4, <1>5, <1>6, <1>8

\* A worker takes a connection, or learns that it is to leave.
LEMMA TakePool ==
  ASSUME PoolInv, NEW w \in Workers, Take(w)
  PROVE  PoolInv'
<1> USE DEF PoolInv
<1>0. NoConn \notin Conns /\ Quit \notin Conns /\ Quit # NoConn
  BY PoolAssumption
<1>1. /\ worker[w].at = "idle" /\ queue # << >> /\ queue' = Tail(queue)
      /\ worker' = [worker EXCEPT ![w] =
           IF Head(queue) = Quit THEN [at |-> "gone", conn |-> NoConn]
                                 ELSE [at |-> "busy", conn |-> Head(queue)]]
      /\ UNCHANGED <<main, current, slots, backlog>>
  BY DEF Take, loopVars
<1>2. /\ queue \in Seq(Conns \cup {Quit}) /\ queue' \in Seq(Conns \cup {Quit})
      /\ Head(queue) = queue[1] /\ Len(queue) \in Nat /\ Len(queue) > 0
      /\ Len(queue') = Len(queue) - 1 /\ 1 \in 1..Len(queue)
      /\ \A i \in 1..Len(queue') : i + 1 \in 1..Len(queue) /\ queue'[i] = queue[i + 1]
  BY <1>1 DEF PoolTyped
<1>3. PICK k \in Nat : Split(k)
  OBVIOUS
<1>4. Distinct'
  <2>1. ASSUME NEW i \in 1..Len(queue'), NEW j \in 1..Len(queue'), queue'[i] = queue'[j], queue'[i] # Quit
        PROVE  i = j
    <3>1. i + 1 \in 1..Len(queue) /\ j + 1 \in 1..Len(queue) /\ queue[i + 1] = queue[j + 1]
          /\ queue[i + 1] # Quit
      BY <1>2, <2>1
    <3>2. i + 1 = j + 1
      BY <3>1 DEF Distinct
    <3>3. i \in Nat /\ j \in Nat
      BY <1>2
    <3> QED
      BY <3>2, <3>3
  <2>2. \A i \in 1..Len(queue') : queue'[i] # current
    BY <1>2 DEF Distinct
  <2>3. \A i \in 1..Len(backlog), j \in 1..Len(queue') : backlog[i] # queue'[j]
    BY <1>2 DEF Distinct
  <2> QED
    BY <1>1, <2>1, <2>2, <2>3 DEF Distinct
<1>5. CASE queue[1] = Quit
  <2> DEFINE r == [at |-> "gone", conn |-> NoConn]
  <2>1. worker' = [worker EXCEPT ![w] = r] /\ r \in [at : WorkerAt, conn : Conns \cup {NoConn}]
    BY <1>1, <1>2, <1>5 DEF WorkerAt
  <2>2. r.at = "gone"
    OBVIOUS
  <2> HIDE DEF r
  <2>3. PoolTyped'
    BY <1>1, <1>2, <2>1 DEF PoolTyped
  <2>4. k = 0
    <3>1. ASSUME k > 0 PROVE FALSE
      <4>1. 1 <= k
        BY <3>1
      <4> QED
        BY <1>0, <1>2, <1>3, <1>5, <4>1 DEF Split
    <3> QED
      BY <3>1
  <2>5. \A i \in 1..Len(queue) : queue[i] = Quit
    BY <1>3, <2>4 DEF Split
  <2>6. Leaving'
    <3>1. \A i \in 1..Len(queue') : queue'[i] = Quit
      BY <1>2, <2>5
    <3>2. main \notin Starting \cup Looping
      BY <1>2, <1>5 DEF Leaving
    <3> QED
      BY <1>1, <3>1, <3>2 DEF Leaving
  <2>7. Active' = Active
    BY <1>1, <2>1, <2>2 DEF Active, PoolTyped
  <2>8. Split(0)'
    BY <1>1, <1>2, <1>3, <2>4, <2>5, <2>7 DEF Split, Between, MaxConnections
  <2> QED
    BY <1>4, <2>3, <2>6, <2>8
<1>6. CASE queue[1] # Quit
  <2> DEFINE r == [at |-> "busy", conn |-> Head(queue)]
  <2>1. worker' = [worker EXCEPT ![w] = r]
    BY <1>1, <1>2, <1>6
  <2>2. r \in [at : WorkerAt, conn : Conns \cup {NoConn}] /\ r.at = "busy"
    BY <1>2, <1>6 DEF WorkerAt
  <2> HIDE DEF r
  <2>3. PoolTyped'
    BY <1>1, <1>2, <2>1, <2>2 DEF PoolTyped
  <2>4. k > 0 /\ k - 1 \in Nat
    <3>1. ASSUME k = 0 PROVE FALSE
      <4>1. 1 > k
        BY <3>1
      <4> QED
        BY <1>2, <1>3, <1>6, <4>1 DEF Split
    <3> QED
      BY <3>1
  <2>5. \A u \in Workers : worker[u].at # "gone"
    BY <1>2, <1>6 DEF Leaving
  <2>6. Leaving'
    <3>1. \A u \in Workers : worker'[u].at # "gone"
      BY <2>1, <2>2, <2>5 DEF PoolTyped
    <3>2. main' \in Starting \cup Looping => \A i \in 1..Len(queue') : queue'[i] # Quit
      BY <1>1, <1>2 DEF Leaving
    <3> QED
      BY <3>1, <3>2 DEF Leaving
  <2>7. w \notin Active /\ Active' = Active \cup {w}
    BY <1>1, <2>1, <2>2 DEF Active, PoolTyped
  <2>8. Cardinality(Active)' = Cardinality(Active) + 1
    BY <2>7, ActiveAdd
  <2>9. Split(k - 1)'
    <3>1. slots + (k - 1) + Between + (Cardinality(Active) + 1) = MaxConnections
      <4>1. Between \in Nat /\ slots \in Nat /\ Cardinality(Active) \in Nat
        BY ActiveFinite DEF Between, PoolTyped
      <4> QED
        BY <1>3, <4>1 DEF Split
    <3>2. Between' = Between /\ slots' = slots
      BY <1>1 DEF Between
    <3>3. k - 1 <= Len(queue')
      BY <1>2, <1>3, <2>4 DEF Split
    <3>4. \A i \in 1..Len(queue') : i <= k - 1 => queue'[i] \in Conns
      BY <1>2, <1>3 DEF Split
    <3>5. \A i \in 1..Len(queue') : i > k - 1 => queue'[i] = Quit
      BY <1>2, <1>3 DEF Split
    <3> QED
      BY <2>8, <3>1, <3>2, <3>3, <3>4, <3>5 DEF Split, MaxConnections
  <2> QED
    BY <1>4, <2>3, <2>4, <2>6, <2>9
<1> QED
  BY <1>5, <1>6

LEMMA HandledPool ==
  ASSUME PoolInv, NEW w \in Workers, Finish(w) \/ GiveBack(w)
  PROVE  PoolInv'
<1> USE DEF PoolInv
<1>1. UNCHANGED <<main, current, queue, backlog>>
  BY DEF Finish, GiveBack, loopVars
<1>2. PICK k \in Nat : Split(k)
  OBVIOUS
<1>3. Distinct'
  BY <1>1 DEF Distinct
<1>4. CASE Finish(w)
  <2>1. PICK how \in {"returned", "raised"} :
          worker' = [worker EXCEPT ![w] = [at |-> how, conn |-> NoConn]]
    BY <1>4 DEF Finish
  <2> DEFINE r == [at |-> how, conn |-> NoConn]
  <2>2. r \in [at : WorkerAt, conn : Conns \cup {NoConn}] /\ r.at = how
    BY DEF WorkerAt
  <2>3. worker' = [worker EXCEPT ![w] = r]
    BY <2>1
  <2>4. worker[w].at = "busy" /\ slots' = slots
    BY <1>4 DEF Finish
  <2> HIDE DEF r
  <2>5. PoolTyped'
    BY <1>1, <2>2, <2>3, <2>4 DEF PoolTyped
  <2>6. Leaving'
    BY <1>1, <2>2, <2>3, <2>4 DEF Leaving, PoolTyped
  <2>7. Active' = Active
    BY <2>2, <2>3, <2>4 DEF Active, PoolTyped
  <2>8. Split(k)'
    BY <1>1, <1>2, <2>4, <2>7 DEF Split, Between, MaxConnections
  <2> QED
    BY <1>3, <2>5, <2>6, <2>8
<1>5. CASE GiveBack(w)
  <2> DEFINE r == [at |-> "idle", conn |-> worker[w].conn]
  <2>1. worker[w] \in [at : WorkerAt, conn : Conns \cup {NoConn}]
    BY DEF PoolTyped
  <2>2. r \in [at : WorkerAt, conn : Conns \cup {NoConn}] /\ r.at = "idle"
    BY <2>1 DEF WorkerAt
  <2>3. worker' = [worker EXCEPT ![w] = r] /\ slots' = slots + 1
        /\ worker[w].at \in {"returned", "raised"}
    <3>1. [worker[w] EXCEPT !.at = "idle"] = r
      BY <2>1
    <3>2. worker' = [worker EXCEPT ![w] = [worker[w] EXCEPT !.at = "idle"]]
      BY <1>5 DEF GiveBack
    <3> QED
      BY <1>5, <3>1, <3>2 DEF GiveBack
  <2> HIDE DEF r
  <2>4. PoolTyped'
    BY <1>1, <2>2, <2>3 DEF PoolTyped
  <2>5. Leaving'
    BY <1>1, <2>2, <2>3 DEF Leaving, PoolTyped
  <2>6. w \in Active /\ Active' = Active \ {w}
    BY <2>2, <2>3 DEF Active, PoolTyped
  <2>7. Cardinality(Active)' = Cardinality(Active) - 1
    BY <2>6, ActiveRemove
  <2>8. Split(k)'
    <3>1. (slots + 1) + k + Between + (Cardinality(Active) - 1) = MaxConnections
      <4>1. Between \in Nat /\ slots \in Nat /\ Cardinality(Active) \in Nat
        BY ActiveFinite DEF Between, PoolTyped
      <4> QED
        BY <1>2, <4>1 DEF Split
    <3>2. Between' = Between
      BY <1>1 DEF Between
    <3> QED
      BY <1>1, <1>2, <2>3, <2>7, <3>1, <3>2 DEF Split, MaxConnections
  <2> QED
    BY <1>3, <2>4, <2>5, <2>8
<1> QED
  BY <1>4, <1>5

\* The invariant of the stops says that close() comes after the loop.
LEMMA StepPool ==
  ASSUME IInv, PoolInv, [Next]_vars
  PROVE  PoolInv'
<1>0. main \in MainAt
  BY DEF PoolInv, PoolTyped
<1>1. CASE AcquireLock \/ Publish
  BY <1>0, <1>1, PoolApart DEF AcquireLock, Publish, MainAt, Starting, Looping, poolVars
<1>2. CASE Bind
  <2>1. CASE main' = "publish" /\ UNCHANGED queue
    BY <1>2, <2>1, PoolApart DEF Bind, MainAt, Starting, Looping
  <2>2. CASE main' = "failed" /\ queue' = queue \o QuitAll
    BY <1>2, <2>2, PoolCloses DEF Bind, MainAt, Starting, Looping
  <2> QED
    BY <1>2, <2>1, <2>2 DEF Bind
<1>3. CASE Accept \/ Acquire \/ Refuse \/ Submit
  BY <1>3, LoopPool
<1>4. CASE LeaveLoop
  BY <1>0, <1>4, PoolApart DEF LeaveLoop, MainAt, Starting, Looping, poolVars
<1>5. CASE Exit
  BY <1>0, <1>5, PoolApart DEF Exit, MainAt, Starting, Looping, poolVars
<1>6. ASSUME NEW c \in Conns, Connect(c) PROVE PoolInv'
  BY <1>6, ConnectPool
<1>7. ASSUME NEW w \in Workers, WorkerStep(w) \/ Finish(w) PROVE PoolInv'
  BY <1>7, TakePool, HandledPool DEF WorkerStep
<1>8. ASSUME NEW t \in Signals, Signal(t) PROVE PoolInv'
  BY <1>0, <1>8, PoolApart DEF Signal, loopVars, poolVars
<1>9. ASSUME NEW t \in Stoppers, StopStep(t) PROVE PoolInv'
  <2>1. CASE Enter(t) \/ AwaitLoop(t) \/ RemoveFiles(t) \/ ReleaseLock(t)
    BY <1>0, <2>1, PoolApart DEF Enter, AwaitLoop, RemoveFiles, ReleaseLock, loopVars, poolVars
  <2>2. CASE Close(t)
    <3>1. main \notin Starting \cup Looping
      BY <1>9, <2>2 DEF Close, IInv, Undone, Taken, LoopEnded, Starting, Looping
    <3> QED
      BY <1>0, <2>2, <3>1, PoolCloses DEF Close, loopVars
  <2> QED
    BY <1>9, <2>1, <2>2 DEF StopStep
<1>10. CASE UNCHANGED vars
  BY <1>0, <1>10, PoolApart DEF vars, loopVars, poolVars
<1> QED
  BY <1>1, <1>2, <1>3, <1>4, <1>5, <1>6, <1>7, <1>8, <1>9, <1>10 DEF Next, MainStep

-----------------------------------------------------------------------------
(* What the slots give.                                                    *)

\* The first k entries are all the connections there are in the queue.
LEMMA QueuedAre ==
  ASSUME PoolInv, NEW k \in Nat, Split(k)
  PROVE  /\ IsFiniteSet(Queued)
         /\ Cardinality(Queued) = k
<1> DEFINE f == [i \in 1..k |-> queue[i]]
<1>1. queue \in Seq(Conns \cup {Quit}) /\ DOMAIN queue = 1..Len(queue) /\ Len(queue) \in Nat
  BY DEF PoolInv, PoolTyped
<1>2. 1..k \subseteq 1..Len(queue)
  BY <1>1 DEF Split
<1>3. Queued = {queue[i] : i \in 1..k}
  <2>1. \A i \in 1..k : queue[i] \in Queued
    BY <1>1, <1>2 DEF Split, Queued, Range
  <2>2. ASSUME NEW x \in Queued PROVE \E i \in 1..k : x = queue[i]
    <3>1. PICK i \in 1..Len(queue) : x = queue[i]
      BY <1>1 DEF Queued, Range
    <3>2. ~(i > k)
      BY <3>1, PoolAssumption DEF Split, Queued
    <3> QED
      BY <1>1, <3>1, <3>2
  <2> QED
    BY <2>1, <2>2
<1>4. \A i, j \in 1..k : queue[i] = queue[j] => i = j
  <2>1. \A i \in 1..k : queue[i] # Quit
    BY <1>2, PoolAssumption DEF Split
  <2> QED
    BY <1>2, <2>1 DEF PoolInv, Distinct
<1>5. f \in Bijection(1..k, Queued)
  BY <1>3, <1>4, Fun_IsBij
<1>6. IsFiniteSet(1..k) /\ Cardinality(1..k) = k
  BY FS_Interval
<1> QED
  BY <1>5, <1>6, FS_Bijection DEF ExistsBijection

\* Those that are busy with a connection or have given none back, those that are
\* idle, and those that left.
LEMMA WorkersAre ==
  ASSUME PoolInv
  PROVE  \A w \in Workers : w \in Idle \/ w \in Active \/ worker[w].at = "gone"
BY DEF PoolInv, PoolTyped, WorkerAt, Idle, Active

\* "There is never a connection queue beyond the bound", for any number of
\* workers and connections.
THEOREM QueueCorrect == Spec => []NoQueueing
<1>1. PoolInv => NoQueueing
  <2> SUFFICES ASSUME PoolInv PROVE Cardinality(Queued) <= Cardinality(Idle)
    BY DEF NoQueueing
  <2>1. PICK k \in Nat : Split(k)
    BY DEF PoolInv
  <2>2. Cardinality(Queued) = k
    BY <2>1, QueuedAre
  <2>3. IsFiniteSet(Idle) /\ Cardinality(Idle) \in Nat
    <3>1. Idle \subseteq Workers /\ IsFiniteSet(Workers)
      BY PoolAssumption DEF Idle
    <3> QED
      BY <3>1, FS_Subset, FS_CardinalityType
  <2>4. CASE k = 0
    BY <2>2, <2>3, <2>4
  <2>5. CASE k > 0
    <3>1. \A w \in Workers : worker[w].at # "gone"
      <4>1. 1 \in 1..Len(queue) /\ queue[1] # Quit
        BY <2>1, <2>5, PoolAssumption DEF Split, PoolInv, PoolTyped
      <4> QED
        BY <4>1 DEF PoolInv, Leaving
    <3>2. Workers = Idle \cup Active /\ Idle \cap Active = {}
      BY <3>1, WorkersAre DEF Idle, Active
    <3>3. Cardinality(Workers) = Cardinality(Idle) + Cardinality(Active)
      <4>1. Cardinality(Idle \cup Active) =
              Cardinality(Idle) + Cardinality(Active) - Cardinality(Idle \cap Active)
        BY <2>3, ActiveFinite, FS_Union
      <4>2. Cardinality(Idle \cap Active) = 0
        BY <3>2, FS_EmptySet
      <4> QED
        BY <2>3, <3>2, <4>1, <4>2, ActiveFinite
    <3>4. Between \in Nat /\ slots \in Nat
      BY DEF Between, PoolInv, PoolTyped
    <3> QED
      BY <2>1, <2>2, <2>3, <3>3, <3>4, ActiveFinite DEF Split, MaxConnections
  <2> QED
    BY <2>4, <2>5
<1>2. IInv /\ PoolInv /\ [Next]_vars => (IInv /\ PoolInv)'
  BY StepIInv, StepPool
<1> QED
  BY InitIInv, InitPool, <1>1, <1>2, PTL DEF Spec

\* A connection is refused only while the bound is reached, whatever handlers
\* and stops did before.
THEOREM RefusalCorrect == Spec => RefusedOnlyWhenFull
<1>1. PoolInv /\ [Next]_vars =>
        [Refuse => Cardinality(Queued) + Cardinality(Workers \ Idle) = MaxConnections]_vars
  <2> SUFFICES ASSUME PoolInv, Refuse
               PROVE  Cardinality(Queued) + Cardinality(Workers \ Idle) = MaxConnections
    OBVIOUS
  <2>1. PICK k \in Nat : Split(k)
    BY DEF PoolInv
  <2>2. Cardinality(Queued) = k
    BY <2>1, QueuedAre
  <2>3. slots = 0 /\ Between = 0 /\ main \in Looping
    BY DEF Refuse, Between, Looping
  <2>4. Workers \ Idle = Active
    <3>1. \A w \in Workers : worker[w].at # "gone"
      BY <2>3 DEF PoolInv, Leaving
    <3>2. \A w \in Workers : ~(w \in Idle /\ w \in Active)
      BY DEF Idle, Active
    <3>3. Active \subseteq Workers
      BY DEF Active
    <3> QED
      BY <3>1, <3>2, <3>3, WorkersAre
  <2>5. Cardinality(Workers \ Idle) = Cardinality(Active)
    BY <2>4
  <2>6. k + Cardinality(Active) = MaxConnections
    <3>1. slots + k + Between + Cardinality(Active) = MaxConnections
      BY <2>1 DEF Split
    <3> QED
      BY <2>3, <3>1, ActiveFinite
  <2> QED
    BY <2>2, <2>5, <2>6
<1>2. IInv /\ PoolInv /\ [Next]_vars => (IInv /\ PoolInv)'
  BY StepIInv, StepPool
<1> QED
  BY InitIInv, InitPool, <1>1, <1>2, PTL DEF Spec, RefusedOnlyWhenFull

-----------------------------------------------------------------------------
(* The two together: self is the process whose threads ConnectionPool has. *)

\* What the server knows of the lock is true as long as it has not died: it sets
\* lockHeld when it has written its PID and clears it when it unlinks the path.
KnowsItsLock(self) == lockHeld /\ pc[self] # "dead" => Holding(self)

\* No other process has the storage while this server accepts connections.
AloneWhileListening(self) ==
  serial /\ listening /\ pc[self] # "dead" => \A q \in Procs : Holding(q) => q = self

\* The socket is not open before the service lock is taken.
ListensLater == main = "lock" => ~ listening

LEMMA LaterInitially == Init => ListensLater
BY DEF Init, ListensLater

LEMMA LaterStep == ListensLater /\ [Next]_vars => ListensLater'
BY DEF ListensLater, Next, vars, loopVars, poolVars, stopVars, MainStep, AcquireLock, Bind,
       Publish, Accept, Acquire, Refuse, Submit, LeaveLoop, Exit, Connect, WorkerStep, Take,
       GiveBack, Finish, Signal, StopStep, Enter, AwaitLoop, Close, RemoveFiles, ReleaseLock

\* When starts are serialised, a server that accepts connections is the only
\* process, server or restore, that has the storage, whatever stops overlap in
\* it and whenever the others start, stop or crash: the lock excludes, and the
\* threads of a server never listen without it.
THEOREM ListenerExclusive ==
  ASSUME NEW self \in Servers
  PROVE  LockSpec /\ Spec /\ []KnowsItsLock(self) => []AloneWhileListening(self)
<1>1. ExclusiveWhenSerial /\ LockOutlivesListener /\ ListensLater /\ KnowsItsLock(self)
        => AloneWhileListening(self)
  BY DEF ExclusiveWhenSerial, MutualExclusion, LockOutlivesListener, ListensLater,
         KnowsItsLock, AloneWhileListening, Procs
<1>2. Spec => []ListensLater
  BY LaterInitially, LaterStep, PTL DEF Spec
<1> QED
  BY <1>1, <1>2, ExclusionCorrect, OutliveCorrect, PTL
=============================================================================
