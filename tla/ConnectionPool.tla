--------------------------- MODULE ConnectionPool ---------------------------
(***************************************************************************)
(* The threads of the server process: the main thread starts the server    *)
(* and runs the accept loop, workers handle one connection each, a stop    *)
(* signal starts a thread that calls stop(), and the loop's own finally    *)
(* calls stop() too.                                                       *)
(*                                                                         *)
(* The requests on a connection are left out: a handler ends when it ends, *)
(* and a client that keeps sending may hold its worker for ever.           *)
(***************************************************************************)
EXTENDS Naturals, Sequences, FiniteSets, Functions

CONSTANTS
  Conns,      \* client connections; one that was closed may be opened again
  Workers,    \* the threads of the pool
  Signals,    \* the threads that stop signals start
  Main,       \* the thread that runs start()
  Quit,       \* what close() puts in the queue, once for each worker
  NoConn

Stoppers == Signals \cup {Main}

ASSUME PoolAssumption ==
  /\ IsFiniteSet(Workers) /\ Workers # {}
  /\ Main \notin Signals
  /\ {Quit, NoConn} \cap Conns = {} /\ Quit # NoConn

VARIABLES
  main,      \* where the main thread is
  current,   \* the connection it has accepted and not yet handed over
  published, \* whether _server is set
  stopReq,   \* the flag serve_forever looks at
  listening, \* whether the socket is open
  backlog,   \* connections the kernel holds for accept
  slots,     \* the value of _connection_slots
  queue,     \* the pool's queue
  worker,    \* each worker: where it is, and its connection
  stop,      \* where each thread is in stop()
  stopLock,  \* whether some thread is in stop()'s critical section
  lockHeld,  \* whether the service lock is held
  files      \* whether the socket or a token file may exist

loopVars == <<main, current, published, stopReq>>
poolVars == <<slots, queue, worker>>
stopVars == <<stop, stopLock, lockHeld, files>>
vars == <<loopVars, poolVars, stopVars, listening, backlog>>

-----------------------------------------------------------------------------
Starting == {"lock", "bind", "publish"}
Looping  == {"loop", "acquire", "submit"}
\* "left" is after serve_forever, "failed" after a bind that raised.
MainAt   == Starting \cup Looping \cup {"left", "failed", "exited"}
WorkerAt == {"idle", "busy", "returned", "raised", "gone"}
StopAt   == {"out", "entry", "shutdown", "close", "remove", "release", "done"}

Running   == main # "exited"
LoopEnded == main \in {"left", "exited"}

Queued  == Range(queue) \cap Conns
Handled == {worker[w].conn : w \in Workers} \cap Conns
Waiting == Range(backlog) \cup ({current} \cap Conns) \cup Queued
Idle    == {w \in Workers : worker[w].at = "idle"}

StopGoto(t, l) == stop' = [stop EXCEPT ![t] = l]

\* Mutant: a semaphore larger than the pool.
MaxConnectionsPlus == Cardinality(Workers) + 1

MaxConnections == Cardinality(Workers)

\* close() wakes each worker once.
QuitAll == [i \in 1..Cardinality(Workers) |-> Quit]

-----------------------------------------------------------------------------
(* start(): the main thread. *)

AcquireLock ==
  /\ main = "lock"
  /\ main' = "bind" /\ lockHeld' = TRUE /\ files' = TRUE
  /\ UNCHANGED <<current, published, stopReq, poolVars, stop, stopLock,
                 listening, backlog>>

\* The pool starts, then the socket is bound; if that fails, because another
\* service uses it or otherwise, the pool is closed and start() raises.
Bind ==
  /\ main = "bind"
  /\ \/ main' = "publish" /\ listening' = TRUE /\ UNCHANGED queue
     \/ main' = "failed" /\ queue' = queue \o QuitAll /\ UNCHANGED listening
  /\ UNCHANGED <<current, published, stopReq, slots, worker, stopVars, backlog>>

Publish ==
  /\ main = "publish"
  /\ main' = "loop" /\ published' = TRUE
  /\ UNCHANGED <<current, stopReq, poolVars, stopVars, listening, backlog>>

Accept ==
  /\ main = "loop" /\ ~ stopReq /\ backlog # <<>>
  /\ main' = "acquire" /\ current' = Head(backlog) /\ backlog' = Tail(backlog)
  /\ UNCHANGED <<published, stopReq, poolVars, stopVars, listening>>

Acquire ==
  /\ main = "acquire" /\ slots > 0
  /\ main' = "submit" /\ slots' = slots - 1
  /\ UNCHANGED <<current, published, stopReq, queue, worker, stopVars,
                 listening, backlog>>

\* Mutant: acquire is given no timeout, so the loop waits for a slot.
RefuseNever == FALSE

\* No slot came free in time: the connection is closed.
Refuse ==
  /\ main = "acquire" /\ slots = 0
  /\ main' = "loop" /\ current' = NoConn
  /\ UNCHANGED <<published, stopReq, poolVars, stopVars, listening, backlog>>

Submit ==
  /\ main = "submit"
  /\ main' = "loop" /\ queue' = Append(queue, current) /\ current' = NoConn
  /\ UNCHANGED <<published, stopReq, slots, worker, stopVars, listening, backlog>>

\* serve_forever returns, and start()'s finally calls stop().
LeaveLoop ==
  /\ main = "loop" /\ stopReq
  /\ main' = "left" /\ stopReq' = FALSE /\ StopGoto(Main, "entry")
  /\ UNCHANGED <<current, published, poolVars, stopLock, lockHeld, files,
                 listening, backlog>>

MainStep ==
  AcquireLock \/ Bind \/ Publish \/ Accept \/ Acquire \/ Refuse \/ Submit \/ LeaveLoop

\* The process may end once start() is over; every other thread is a daemon.
Exit ==
  /\ main = "failed" \/ (main = "left" /\ stop[Main] = "done")
  /\ main' = "exited"
  /\ UNCHANGED <<current, published, stopReq, poolVars, stopVars, listening, backlog>>

-----------------------------------------------------------------------------
(* Workers and clients. *)

Connect(c) ==
  /\ listening /\ c \notin Waiting \cup Handled
  /\ backlog' = Append(backlog, c)
  /\ UNCHANGED <<loopVars, poolVars, stopVars, listening>>

\* Mutant: the slot is given back as soon as a worker has the connection.
TakeReleases(w) ==
  /\ worker[w].at = "idle" /\ queue # <<>>
  /\ queue' = Tail(queue) /\ slots' = slots + 1
  /\ worker' = [worker EXCEPT ![w] =
       IF Head(queue) = Quit THEN [at |-> "gone", conn |-> NoConn]
                             ELSE [at |-> "busy", conn |-> Head(queue)]]
  /\ UNCHANGED <<loopVars, stopVars, listening, backlog>>

Take(w) ==
  /\ worker[w].at = "idle" /\ queue # <<>>
  /\ queue' = Tail(queue)
  /\ worker' = [worker EXCEPT ![w] =
       IF Head(queue) = Quit THEN [at |-> "gone", conn |-> NoConn]
                             ELSE [at |-> "busy", conn |-> Head(queue)]]
  /\ UNCHANGED <<loopVars, slots, stopVars, listening, backlog>>

\* The handler returns (end of file, inactivity, a request too large) or
\* raises; the connection is closed either way.
Finish(w) ==
  /\ worker[w].at = "busy"
  /\ \E how \in {"returned", "raised"} :
       worker' = [worker EXCEPT ![w] = [at |-> how, conn |-> NoConn]]
  /\ UNCHANGED <<loopVars, slots, queue, stopVars, listening, backlog>>

\* Mutant: the slot is given back after the handler, not in a finally.
GiveBackReturned(w) ==
  /\ worker[w].at \in {"returned", "raised"}
  /\ worker' = [worker EXCEPT ![w].at = "idle"]
  /\ slots' = IF worker[w].at = "returned" THEN slots + 1 ELSE slots
  /\ UNCHANGED <<loopVars, queue, stopVars, listening, backlog>>

GiveBack(w) ==
  /\ worker[w].at \in {"returned", "raised"}
  /\ worker' = [worker EXCEPT ![w].at = "idle"]
  /\ slots' = slots + 1
  /\ UNCHANGED <<loopVars, queue, stopVars, listening, backlog>>

WorkerStep(w) == Take(w) \/ GiveBack(w)

-----------------------------------------------------------------------------
(* stop(): threads started by signals, and the main thread. *)

Signal(t) ==
  /\ stop[t] = "out"
  /\ StopGoto(t, "entry")
  /\ UNCHANGED <<loopVars, poolVars, stopLock, lockHeld, files, listening, backlog>>

\* Mutant: what was begun is undone although no server is published.
EnterAnyway(t) ==
  /\ stop[t] = "entry" /\ ~ stopLock
  /\ IF published
     THEN /\ StopGoto(t, "shutdown")
          /\ stopLock' = TRUE /\ published' = FALSE /\ stopReq' = TRUE
     ELSE /\ StopGoto(t, "remove")
          /\ UNCHANGED <<stopLock, published, stopReq>>
  /\ UNCHANGED <<main, current, poolVars, lockHeld, files, listening, backlog>>

\* Takes the lock and the published server and asks the loop to end, or returns
\* if no server is published.
Enter(t) ==
  /\ stop[t] = "entry" /\ ~ stopLock
  /\ IF published
     THEN /\ StopGoto(t, "shutdown")
          /\ stopLock' = TRUE /\ published' = FALSE /\ stopReq' = TRUE
     ELSE /\ StopGoto(t, "done")
          /\ UNCHANGED <<stopLock, published, stopReq>>
  /\ UNCHANGED <<main, current, poolVars, lockHeld, files, listening, backlog>>

\* Mutant: shutdown() does not wait for the loop.
AwaitNothing(t) ==
  /\ stop[t] = "shutdown"
  /\ StopGoto(t, "close")
  /\ UNCHANGED <<loopVars, poolVars, stopLock, lockHeld, files, listening, backlog>>

AwaitLoop(t) ==
  /\ stop[t] = "shutdown" /\ LoopEnded
  /\ StopGoto(t, "close")
  /\ UNCHANGED <<loopVars, poolVars, stopLock, lockHeld, files, listening, backlog>>

\* server_close closes the socket, which resets what the kernel still holds,
\* and the pool; the critical section ends.
Close(t) ==
  /\ stop[t] = "close"
  /\ StopGoto(t, "remove") /\ stopLock' = FALSE
  /\ listening' = FALSE /\ backlog' = <<>>
  /\ queue' = queue \o QuitAll
  /\ UNCHANGED <<loopVars, slots, worker, lockHeld, files>>

RemoveFiles(t) ==
  /\ stop[t] = "remove"
  /\ StopGoto(t, "release") /\ files' = FALSE
  /\ UNCHANGED <<loopVars, poolVars, stopLock, lockHeld, listening, backlog>>

ReleaseLock(t) ==
  /\ stop[t] = "release"
  /\ StopGoto(t, "done") /\ lockHeld' = FALSE
  /\ UNCHANGED <<loopVars, poolVars, stopLock, files, listening, backlog>>

StopStep(t) == Enter(t) \/ AwaitLoop(t) \/ Close(t) \/ RemoveFiles(t) \/ ReleaseLock(t)

-----------------------------------------------------------------------------
Init ==
  /\ main = "lock" /\ current = NoConn /\ published = FALSE /\ stopReq = FALSE
  /\ slots = MaxConnections /\ queue = <<>>
  /\ worker = [w \in Workers |-> [at |-> "idle", conn |-> NoConn]]
  /\ stop = [t \in Stoppers |-> "out"] /\ stopLock = FALSE
  /\ lockHeld = FALSE /\ files = FALSE
  /\ listening = FALSE /\ backlog = <<>>

Next ==
  /\ Running
  /\ \/ MainStep \/ Exit
     \/ \E c \in Conns : Connect(c)
     \/ \E w \in Workers : WorkerStep(w) \/ Finish(w)
     \/ \E t \in Signals : Signal(t)
     \/ \E t \in Stoppers : StopStep(t)

\* Every thread that can go on is scheduled: the loop polls, acquire has a
\* timeout, the queue wakes its readers.  Nothing makes a client close its
\* connection, a signal arrive or the process end.
Fairness ==
  /\ WF_vars(Running /\ MainStep)
  /\ \A w \in Workers : WF_vars(Running /\ WorkerStep(w))
  /\ \A t \in Stoppers : WF_vars(Running /\ StopStep(t))

Spec == Init /\ [][Next]_vars
FairSpec == Spec /\ Fairness

-----------------------------------------------------------------------------
\* The semaphore stays within its bounds, which a BoundedSemaphore enforces by
\* raising, and every thread is at a place of its code.
TypeOK ==
  /\ main \in MainAt
  /\ current \in Conns \cup {NoConn}
  /\ {published, stopReq, stopLock, lockHeld, files, listening} \subseteq BOOLEAN
  /\ backlog \in Seq(Conns) /\ queue \in Seq(Conns \cup {Quit})
  /\ slots \in 0..MaxConnections
  /\ worker \in [Workers -> [at : WorkerAt, conn : Conns \cup {NoConn}]]
  /\ stop \in [Stoppers -> StopAt]

\* "There is never a connection queue beyond the bound": every connection in
\* the queue has an idle worker to take it.
NoQueueing == Cardinality(Queued) <= Cardinality(Idle)

\* A connection is refused only while as many as the bound allows are queued,
\* handled or just being closed: no slot leaks, however handlers end.
RefusedOnlyWhenFull ==
  [][Refuse => Cardinality(Queued) + Cardinality(Workers \ Idle) = MaxConnections]_vars

\* A connection that waits, in the kernel, in the accept loop or in the queue,
\* reaches a worker or is closed: neither clients that never leave nor a stop
\* at any moment keep it waiting for ever.
NobodyWaitsForEver ==
  \A c \in Conns : c \in Waiting ~> (c \notin Waiting \/ ~ Running)

\* A call of stop() comes to its end whatever the clients do and whichever
\* other calls overlap it, unless the process ends first.
StopEnds == \A t \in Stoppers : stop[t] = "entry" ~> (stop[t] = "done" \/ ~ Running)

\* A server that has begun keeps the service lock until it no longer accepts
\* connections and has removed its files, even when the stop comes while it
\* is starting.
LockOutlivesListener ==
  main # "lock" /\ ~ lockHeld => ~ listening /\ ~ files /\ main \notin Starting \cup Looping
=============================================================================
