----------------------------- MODULE CausalLog -----------------------------
(***************************************************************************)
(* Causal time: the clock of the service process, the write transactions   *)
(* it stamps, the journal they leave (one entry for each committed         *)
(* transaction: the rows of events, task_events and audit_log share its    *)
(* stamp) and the A2A bridge, which absorbs the stamps of remote messages  *)
(* and stamps its replies.                                                 *)
(*                                                                         *)
(* A bridge given the service's clock shares it (A2ABridge's parameter     *)
(* clock); one started by the command line has a process and a clock of    *)
(* its own.  The write lock admits one stamped transaction at a time; the  *)
(* bridge touches the shared clock in the middle of one.  The physical     *)
(* clock is read anew each time and may have jumped either way.            *)
(***************************************************************************)
EXTENDS HLC, Sequences

CONSTANTS
  Deployments,  \* the values of shared: whether the bridge has the service's clock
  Times,        \* what the physical clock may show
  Remotes,      \* the stamps remote messages carry, canonical ones only
  MaxOver,      \* bound: how far past MaxC the counter is followed
  MaxJournal,   \* bound: entries in the journal
  None

ASSUME LogAssumption ==
  /\ Deployments \subseteq BOOLEAN
  /\ Times \subseteq Nat
  /\ Remotes \subseteq [l : 0 .. MaxL, c : 0 .. MaxC]
  /\ MaxOver \in Nat
  /\ MaxJournal \in Nat
  /\ None \notin Clock

VARIABLES
  shared,       \* whether the bridge runs on the service's clock
  clock,        \* Service._clock, None until the first stamp of the process
  bridgeClock,  \* A2ABridge._clock of a standalone bridge, None if it is down
  txn,          \* the open stamped transaction, [hlc, cause], or None
  journal,      \* the committed transactions in seq order
  request       \* the message the bridge is handling

vars == <<shared, clock, bridgeClock, txn, journal, request>>

-----------------------------------------------------------------------------
Idle == [phase |-> "idle", remote |-> None, event |-> None, reply |-> None]

\* The hlc columns of the committed rows.
Persisted == {journal[i].hlc : i \in DOMAIN journal}

\* Mutant: a new process starts its clock at zero.
RehydratedZero == [l |-> 0, c |-> 0]

\* _build_clock: MAX(hlc) over the journal, or zero when it is empty.
Rehydrated ==
  IF journal = <<>> THEN [l |-> 0, c |-> 0]
  ELSE CHOOSE h \in Persisted : \A g \in Persisted : NotAfter(g, h)

\* The clock the next stamp starts from: built on the first one.
Current == IF clock = None THEN Rehydrated ELSE clock

\* The clock the bridge uses, None while there is none.
BridgeClock == IF shared THEN clock ELSE bridgeClock

SetBridgeClock(k) ==
  IF shared THEN clock' = k /\ UNCHANGED bridgeClock
            ELSE bridgeClock' = k /\ UNCHANGED clock

Followed(k) == k.c < MaxC + MaxOver

-----------------------------------------------------------------------------
(* The service.                                                            *)

\* A handler begins its transaction and stamps it.  The clock has moved even
\* if the stamp does not encode; then the handler raises and rolls back, and
\* the caller, the bridge if the write is its, gets an error.
Stamp(pt, cause) ==
  LET k == LocalRule(Current, pt)
  IN  /\ txn = None
      /\ Len(journal) < MaxJournal
      /\ Followed(Current)
      /\ cause # None => request.phase = "absorbed" /\ request.remote = cause
      /\ clock' = k
      /\ txn' = IF Encodable(k) THEN [hlc |-> k, cause |-> cause] ELSE None
      /\ request' = IF cause = None THEN request
                    ELSE IF Encodable(k) THEN [request EXCEPT !.phase = "sent"]
                    ELSE Idle
      /\ UNCHANGED <<shared, bridgeClock, journal>>

\* COMMIT.  The bridge, if it still waits, learns of the event it asked for.
Commit ==
  /\ txn # None
  /\ journal' = Append(journal, txn)
  /\ txn' = None
  /\ request' = IF txn.cause # None /\ request.phase = "sent"
                THEN [request EXCEPT !.phase = "served", !.event = txn.hlc]
                ELSE request
  /\ UNCHANGED <<shared, clock, bridgeClock>>

\* The handler raises after its stamp: the write is undone, the clock is not.
Rollback ==
  /\ txn # None
  /\ txn' = None
  /\ request' = IF txn.cause # None /\ request.phase = "sent" THEN Idle ELSE request
  /\ UNCHANGED <<shared, clock, bridgeClock, journal>>

\* The service process dies; a bridge sharing it dies with it, and another
\* one sees its call fail.
Crash ==
  /\ clock' = None
  /\ txn' = None
  /\ request' = IF shared \/ request.phase = "sent" THEN Idle ELSE request
  /\ UNCHANGED <<shared, bridgeClock, journal>>

-----------------------------------------------------------------------------
(* The bridge.                                                             *)

\* A standalone bridge starts with a clock read from the same journal.
BridgeStart ==
  /\ ~ shared /\ bridgeClock = None
  /\ bridgeClock' = Rehydrated
  /\ UNCHANGED <<shared, clock, txn, journal, request>>

BridgeCrash ==
  /\ ~ shared /\ bridgeClock # None
  /\ bridgeClock' = None
  /\ request' = Idle
  /\ UNCHANGED <<shared, clock, txn, journal>>

\* _tasks_message: a message carrying stamp r arrives and is absorbed before
\* the bridge asks the service to create its task.
Absorb(r) ==
  /\ request.phase \in {"idle", "answered"}
  /\ BridgeClock # None
  /\ Followed(BridgeClock)
  /\ SetBridgeClock(MergeRule(BridgeClock, r))
  /\ request' = [Idle EXCEPT !.phase = "absorbed", !.remote = r]
  /\ UNCHANGED <<shared, txn, journal>>

\* Mutant: the reply carries the clock as it stands (peek).
ReplyPeek(pt) ==
  /\ request.phase = "served"
  /\ BridgeClock # None
  /\ SetBridgeClock(BridgeClock)
  /\ request' = [request EXCEPT !.phase = "answered", !.reply = BridgeClock]
  /\ UNCHANGED <<shared, txn, journal>>

\* _envelope_hlc: the reply goes out with the bridge's own stamp.
Reply(pt) ==
  LET k == LocalRule(BridgeClock, pt)
  IN  /\ request.phase = "served"
      /\ BridgeClock # None
      /\ Followed(BridgeClock)
      /\ SetBridgeClock(k)
      /\ request' = IF Encodable(k)
                    THEN [request EXCEPT !.phase = "answered", !.reply = k]
                    ELSE Idle
      /\ UNCHANGED <<shared, txn, journal>>

\* The call to the service fails before it reaches a transaction, times out
\* during one, or its answer is lost.
BridgeGivesUp ==
  /\ request.phase \in {"absorbed", "sent", "served"}
  /\ request' = Idle
  /\ UNCHANGED <<shared, clock, bridgeClock, txn, journal>>

-----------------------------------------------------------------------------
Init ==
  /\ shared \in Deployments
  /\ clock = None
  /\ bridgeClock = None
  /\ txn = None
  /\ journal = <<>>
  /\ request = Idle

Next ==
  \/ \E pt \in Times, cause \in Remotes \cup {None} : Stamp(pt, cause)
  \/ Commit
  \/ Rollback
  \/ Crash
  \/ BridgeStart
  \/ BridgeCrash
  \/ \E r \in Remotes : Absorb(r)
  \/ \E pt \in Times : Reply(pt)
  \/ BridgeGivesUp

Spec == Init /\ [][Next]_vars

-----------------------------------------------------------------------------
(* Properties.                                                             *)

Stored  == [l : 0 .. MaxL, c : 0 .. MaxC]
Entry   == [hlc : Stored, cause : Remotes \cup {None}]
Request == [phase : {"idle", "absorbed", "sent", "served", "answered"},
            remote : Remotes \cup {None},
            event : Stored \cup {None}, reply : Stored \cup {None}]

\* Clocks are pairs of naturals; what is written or sent fits the encoding.
TypeOK ==
  /\ shared \in BOOLEAN
  /\ clock \in Clock \cup {None}
  /\ bridgeClock \in Clock \cup {None}
  /\ txn \in Entry \cup {None}
  /\ journal \in Seq(Entry)
  /\ request \in Request

\* Invariant I4 of hlc.py: in one database the order of the stamps is the
\* order of commits, across rollbacks, crashes, backward jumps of the
\* physical clock, absorbed remote stamps and counters that overflow.
HlcOrderIsSeqOrder ==
  \A i, j \in DOMAIN journal : i < j => Before(journal[i].hlc, journal[j].hlc)

\* Invariant I3 across restarts: the service's clock is never behind what is
\* committed, and the open transaction's stamp is past all of it.
AheadOfJournal ==
  /\ clock # None => \A h \in Persisted : NotAfter(h, clock)
  /\ txn # None => /\ clock # None
                   /\ NotAfter(txn.hlc, clock)
                   /\ \A h \in Persisted : Before(h, txn.hlc)

\* Invariant I1 across instances, for a bridge on the service's clock: the
\* event created for a remote message is stamped after the message.
CausalWhenShared ==
  shared => \A i \in DOMAIN journal :
              journal[i].cause # None => Before(journal[i].cause, journal[i].hlc)

\* For such a bridge the reply is stamped after the event it reports.
ReplyAfterEvent ==
  shared /\ request.phase = "answered" => Before(request.event, request.reply)

\* The comment in _tasks_message says so of every bridge.
CausallyAfter ==
  \A i \in DOMAIN journal :
    journal[i].cause # None => Before(journal[i].cause, journal[i].hlc)
=============================================================================
