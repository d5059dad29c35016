-------------------------- MODULE CausalLogProofs --------------------------
(***************************************************************************)
(* Proofs about CausalLog for every width of the encoding, every reading   *)
(* of the physical clock and every remote stamp.                           *)
(*                                                                         *)
(* The order of the journal is not inductive alone: it needs to know that  *)
(* the open transaction's stamp is past the journal and the clock is not   *)
(* behind either, and that a new process rebuilds its clock from the       *)
(* largest committed stamp (AheadOfJournal).                               *)
(***************************************************************************)
EXTENDS CausalLog, TLAPS

USE WidthAssumption, LogAssumption

\* The local rule moves a clock strictly forward, whatever the time shown.
LEMMA LocalRuleAdvances ==
  ASSUME NEW k \in Clock, NEW pt \in Nat
  PROVE  LocalRule(k, pt) \in Clock /\ Before(k, LocalRule(k, pt))
  BY DEF LocalRule, Larger, Before, Clock

\* The merge rule moves a clock past itself and past the absorbed stamp.
LEMMA MergeRuleAdvances ==
  ASSUME NEW k \in Clock, NEW r \in Clock
  PROVE  /\ MergeRule(k, r) \in Clock
         /\ Before(k, MergeRule(k, r))
         /\ Before(r, MergeRule(k, r))
  BY DEF MergeRule, Larger, Before, Clock

LEMMA BeforeTransitive ==
  ASSUME NEW x \in Clock, NEW y \in Clock, NEW z \in Clock
  PROVE  /\ Before(x, y) /\ Before(y, z) => Before(x, z)
         /\ NotAfter(x, y) /\ Before(y, z) => Before(x, z)
         /\ NotAfter(x, y) /\ NotAfter(y, z) => NotAfter(x, z)
  BY DEF NotAfter, Before, Clock

LEMMA StoredAreClocks == Stored \subseteq Clock /\ Remotes \subseteq Clock
  BY DEF Stored, Clock

\* A clock that encodes can be stored.
LEMMA EncodableStored ==
  ASSUME NEW k \in Clock, Encodable(k)
  PROVE  k \in Stored
  BY DEF Encodable, Clock, Stored

LEMMA PersistedAreClocks == TypeOK => Persisted \subseteq Clock
  <1> SUFFICES ASSUME TypeOK PROVE Persisted \subseteq Clock
    OBVIOUS
  <1>1. \A i \in DOMAIN journal : journal[i] \in Entry
    <2>1. DOMAIN journal = 1 .. Len(journal)
      BY DEF TypeOK
    <2> QED
      BY <2>1 DEF TypeOK
  <1> QED
    BY <1>1, StoredAreClocks DEF Persisted, Entry

\* The clock of a new process is level with the largest committed stamp.
LEMMA RehydratedCovers ==
  ASSUME TypeOK, HlcOrderIsSeqOrder
  PROVE  /\ Rehydrated \in Clock
         /\ \A h \in Persisted : NotAfter(h, Rehydrated)
  <1>1. CASE journal = <<>>
    <2>1. Persisted = {}
      BY <1>1 DEF Persisted
    <2> QED
      BY <1>1, <2>1 DEF Rehydrated, Clock
  <1>2. CASE journal # <<>>
    <2> DEFINE n == Len(journal)
    <2>1. n \in DOMAIN journal /\ DOMAIN journal = 1 .. n /\ n \in Nat
      BY <1>2 DEF TypeOK
    <2>2. \A i \in DOMAIN journal : NotAfter(journal[i].hlc, journal[n].hlc)
      <3> SUFFICES ASSUME NEW i \in DOMAIN journal
                   PROVE  NotAfter(journal[i].hlc, journal[n].hlc)
        OBVIOUS
      <3>1. i = n \/ i < n
        BY <2>1
      <3> QED
        BY <3>1, <2>1 DEF HlcOrderIsSeqOrder, NotAfter
    <2>3. journal[n].hlc \in Persisted
            /\ \A g \in Persisted : NotAfter(g, journal[n].hlc)
      BY <2>1, <2>2 DEF Persisted
    <2>4. Rehydrated \in Persisted /\ \A g \in Persisted : NotAfter(g, Rehydrated)
      <3>1. \E h \in Persisted : \A g \in Persisted : NotAfter(g, h)
        BY <2>3
      <3>2. Rehydrated = CHOOSE h \in Persisted : \A g \in Persisted : NotAfter(g, h)
        BY <1>2 DEF Rehydrated
      <3> QED
        BY <3>1, <3>2, Zenon
    <2>5. Persisted \subseteq Clock
      BY PersistedAreClocks
    <2> QED
      BY <2>4, <2>5
  <1> QED
    BY <1>1, <1>2

LEMMA CurrentCovers ==
  ASSUME TypeOK, HlcOrderIsSeqOrder, AheadOfJournal
  PROVE  Current \in Clock /\ \A h \in Persisted : NotAfter(h, Current)
  BY RehydratedCovers DEF Current, AheadOfJournal, TypeOK

-----------------------------------------------------------------------------
OrderInv == TypeOK /\ HlcOrderIsSeqOrder /\ AheadOfJournal

LEMMA OrderInit == Init => OrderInv
  <1> SUFFICES ASSUME Init PROVE OrderInv
    OBVIOUS
  <1>1. journal = <<>> /\ DOMAIN journal = {}
    BY DEF Init
  <1>2. TypeOK
    BY DEF Init, TypeOK, Idle, Request
  <1>3. HlcOrderIsSeqOrder
    BY <1>1 DEF HlcOrderIsSeqOrder
  <1>4. AheadOfJournal
    BY DEF Init, AheadOfJournal
  <1> QED
    BY <1>2, <1>3, <1>4 DEF OrderInv

\* The type invariant is kept by every step that starts from the order.
LEMMA TypeStep == OrderInv /\ [Next]_vars => TypeOK'
  <1> SUFFICES ASSUME OrderInv, [Next]_vars PROVE TypeOK'
    OBVIOUS
  <1> USE DEF OrderInv
  <1>0. Current \in Clock /\ Rehydrated \in Clock
    BY CurrentCovers, RehydratedCovers
  <1>1. ASSUME NEW pt \in Times, NEW cause \in Remotes \cup {None}, Stamp(pt, cause)
        PROVE  TypeOK'
    <2> DEFINE k == LocalRule(Current, pt)
    <2>1. k \in Clock /\ (Encodable(k) => k \in Stored)
      BY <1>0, LocalRuleAdvances, EncodableStored
    <2> HIDE DEF k
    <2>2. clock' = k /\ txn' = IF Encodable(k) THEN [hlc |-> k, cause |-> cause] ELSE None
      BY <1>1 DEF Stamp, k
    <2>3. request' \in {request, Idle, [request EXCEPT !.phase = "sent"]}
      BY <1>1 DEF Stamp
    <2>4. txn' \in Entry \cup {None}
      BY <2>1, <2>2 DEF Entry
    <2>5. request' \in Request
      BY <2>3 DEF TypeOK, Idle, Request
    <2>6. UNCHANGED <<shared, bridgeClock, journal>>
      BY <1>1 DEF Stamp
    <2> QED
      BY <2>1, <2>2, <2>4, <2>5, <2>6 DEF TypeOK
  <1>2. CASE Commit
    <2>1. journal \in Seq(Entry) /\ txn \in Entry
      BY <1>2 DEF Commit, TypeOK
    <2>2. journal' \in Seq(Entry) /\ txn' = None
      BY <1>2, <2>1 DEF Commit
    <2>3. \/ request' = request
          \/ request' = [request EXCEPT !.phase = "served", !.event = txn.hlc]
      BY <1>2 DEF Commit
    <2>4. request' \in Request
      BY <2>1, <2>3 DEF TypeOK, Entry, Request
    <2> QED
      BY <1>2, <2>2, <2>4 DEF Commit, TypeOK
  <1>3. CASE Rollback
    BY <1>3 DEF Rollback, TypeOK, Idle, Request
  <1>4. CASE Crash
    BY <1>4 DEF Crash, TypeOK, Idle, Request
  <1>5. CASE BridgeStart \/ BridgeCrash \/ BridgeGivesUp
    BY <1>5, <1>0 DEF BridgeStart, BridgeCrash, BridgeGivesUp, TypeOK, Idle, Request
  <1>6. ASSUME NEW r \in Remotes, Absorb(r)
        PROVE  TypeOK'
    <2> DEFINE k == MergeRule(BridgeClock, r)
    <2>1. k \in Clock
      BY <1>6, MergeRuleAdvances, StoredAreClocks DEF Absorb, BridgeClock, TypeOK
    <2> HIDE DEF k
    <2>2. clock' \in {clock, k} /\ bridgeClock' \in {bridgeClock, k}
      BY <1>6 DEF Absorb, SetBridgeClock, k
    <2> QED
      BY <1>6, <2>1, <2>2 DEF Absorb, TypeOK, Idle, Request
  <1>7. ASSUME NEW pt \in Times, Reply(pt)
        PROVE  TypeOK'
    <2> DEFINE k == LocalRule(BridgeClock, pt)
    <2>1. k \in Clock /\ (Encodable(k) => k \in Stored)
      BY <1>7, LocalRuleAdvances, EncodableStored DEF Reply, BridgeClock, TypeOK
    <2> HIDE DEF k
    <2>2. clock' \in {clock, k} /\ bridgeClock' \in {bridgeClock, k}
      BY <1>7 DEF Reply, SetBridgeClock, k
    <2>3. \/ request' = Idle
          \/ Encodable(k) /\ request' = [request EXCEPT !.phase = "answered", !.reply = k]
      BY <1>7 DEF Reply, k
    <2> QED
      BY <1>7, <2>1, <2>2, <2>3 DEF Reply, TypeOK, Idle, Request
  <1>8. CASE UNCHANGED vars
    BY <1>8 DEF vars, TypeOK
  <1> QED
    BY <1>1, <1>2, <1>3, <1>4, <1>5, <1>6, <1>7, <1>8 DEF Next

\* The service's clock after a step: dropped, kept, or advanced by a rule from
\* a clock that was there.
LEMMA ClockStep ==
  ASSUME OrderInv, [Next]_vars, ~ \E pt \in Times, cause \in Remotes \cup {None} :
                                     Stamp(pt, cause)
  PROVE  \/ clock' = clock
         \/ clock' = None /\ txn' = None
         \/ clock # None /\ clock' \in Clock /\ Before(clock, clock')
  <1>1. ASSUME NEW r \in Remotes, Absorb(r)
        PROVE  clock' = clock \/ (clock # None /\ clock' \in Clock /\ Before(clock, clock'))
    <2>1. CASE shared
      <3>1. clock # None /\ clock' = MergeRule(clock, r)
        BY <1>1, <2>1 DEF Absorb, BridgeClock, SetBridgeClock
      <3>2. clock \in Clock /\ r \in Clock
        BY <3>1, StoredAreClocks DEF OrderInv, TypeOK
      <3> QED
        BY <3>1, <3>2, MergeRuleAdvances
    <2>2. CASE ~ shared
      BY <1>1, <2>2 DEF Absorb, SetBridgeClock
    <2> QED
      BY <2>1, <2>2
  <1>2. ASSUME NEW pt \in Times, Reply(pt)
        PROVE  clock' = clock \/ (clock # None /\ clock' \in Clock /\ Before(clock, clock'))
    <2>1. CASE shared
      <3>1. clock # None /\ clock' = LocalRule(clock, pt)
        BY <1>2, <2>1 DEF Reply, BridgeClock, SetBridgeClock
      <3>2. clock \in Clock /\ pt \in Nat
        BY <3>1 DEF OrderInv, TypeOK
      <3> QED
        BY <3>1, <3>2, LocalRuleAdvances
    <2>2. CASE ~ shared
      BY <1>2, <2>2 DEF Reply, SetBridgeClock
    <2> QED
      BY <2>1, <2>2
  <1> QED
    BY <1>1, <1>2
    DEF Next, Commit, Rollback, Crash, BridgeStart, BridgeCrash, BridgeGivesUp, vars

\* The journal and the open transaction after a step.
LEMMA LogStep ==
  ASSUME OrderInv, [Next]_vars, ~ \E pt \in Times, cause \in Remotes \cup {None} :
                                     Stamp(pt, cause)
  PROVE  \/ UNCHANGED <<txn, journal>>
         \/ txn' = None /\ UNCHANGED journal
         \/ txn # None /\ txn' = None /\ clock' = clock /\ journal' = Append(journal, txn)
  BY DEF Next, Commit, Rollback, Crash, BridgeStart, BridgeCrash, Absorb, Reply,
         BridgeGivesUp, vars

\* The stamp of a new transaction is past everything committed.
LEMMA StampStep ==
  ASSUME OrderInv, NEW pt \in Times, NEW cause \in Remotes \cup {None}, Stamp(pt, cause)
  PROVE  /\ journal' = journal
         /\ clock' \in Clock /\ clock' # None
         /\ Before(Current, clock')
         /\ txn' = None \/ txn' = [hlc |-> clock', cause |-> cause]
         /\ \A h \in Persisted : Before(h, clock')
  <1>1. clock' = LocalRule(Current, pt)
    BY DEF Stamp
  <1>2. clock' \in Clock /\ Before(Current, clock') /\ clock' # None
    BY <1>1, CurrentCovers, LocalRuleAdvances DEF OrderInv
  <1>3. txn' = None \/ txn' = [hlc |-> clock', cause |-> cause]
    BY <1>1 DEF Stamp
  <1>4. \A h \in Persisted : Before(h, clock')
    <2>1. Persisted \subseteq Clock
      BY PersistedAreClocks DEF OrderInv
    <2> QED
      BY <1>2, <2>1, CurrentCovers, BeforeTransitive DEF OrderInv
  <1> QED
    BY <1>2, <1>3, <1>4 DEF Stamp

LEMMA OrderStep == OrderInv /\ [Next]_vars => OrderInv'
  <1> SUFFICES ASSUME OrderInv, [Next]_vars PROVE OrderInv'
    OBVIOUS
  <1>1. TypeOK'
    BY TypeStep
  <1>2. Persisted \subseteq Clock
    BY PersistedAreClocks DEF OrderInv
  <1>3. CASE \E pt \in Times, cause \in Remotes \cup {None} : Stamp(pt, cause)
    <2>1. PICK pt \in Times, cause \in Remotes \cup {None} : Stamp(pt, cause)
      BY <1>3
    <2>2. journal' = journal /\ Persisted' = Persisted
      BY <2>1, StampStep DEF Persisted
    <2>3. HlcOrderIsSeqOrder'
      BY <2>2 DEF OrderInv, HlcOrderIsSeqOrder
    <2>4. AheadOfJournal'
      BY <2>1, <2>2, StampStep DEF AheadOfJournal, NotAfter
    <2> QED
      BY <1>1, <2>3, <2>4 DEF OrderInv
  <1>4. CASE ~ \E pt \in Times, cause \in Remotes \cup {None} : Stamp(pt, cause)
    <2>1. CASE journal' = journal /\ txn' \in {txn, None}
      <3>1. Persisted' = Persisted
        BY <2>1 DEF Persisted
      <3>2. HlcOrderIsSeqOrder'
        BY <2>1 DEF OrderInv, HlcOrderIsSeqOrder
      <3>3. clock' # None => /\ clock # None
                             /\ clock \in Clock /\ clock' \in Clock
                             /\ NotAfter(clock, clock')
        BY <1>1, <1>4, ClockStep DEF OrderInv, TypeOK, NotAfter
      <3>4. clock' # None => \A h \in Persisted' : NotAfter(h, clock')
        BY <1>2, <3>1, <3>3, BeforeTransitive DEF OrderInv, AheadOfJournal
      <3>5. txn' # None => /\ clock' # None
                           /\ NotAfter(txn'.hlc, clock')
                           /\ \A h \in Persisted' : Before(h, txn'.hlc)
        <4> SUFFICES ASSUME txn' # None
                     PROVE  /\ clock' # None
                            /\ NotAfter(txn'.hlc, clock')
                            /\ \A h \in Persisted' : Before(h, txn'.hlc)
          OBVIOUS
        <4>1. txn' = txn /\ txn.hlc \in Clock
          BY <2>1, StoredAreClocks DEF OrderInv, TypeOK, Entry
        <4>2. clock' # None
          BY <1>4, <4>1, ClockStep DEF OrderInv, AheadOfJournal
        <4>3. NotAfter(txn.hlc, clock')
          BY <3>3, <4>1, <4>2, BeforeTransitive DEF OrderInv, AheadOfJournal
        <4> QED
          BY <3>1, <4>1, <4>2, <4>3 DEF OrderInv, AheadOfJournal
      <3> QED
        BY <1>1, <3>2, <3>4, <3>5 DEF OrderInv, AheadOfJournal
    <2>2. CASE /\ txn # None /\ txn' = None /\ clock' = clock
               /\ journal' = Append(journal, txn)
      <3> DEFINE n == Len(journal)
      <3>1. /\ journal \in Seq(Entry) /\ n \in Nat
            /\ txn \in Entry
            /\ DOMAIN journal = 1 .. n /\ DOMAIN journal' = 1 .. n + 1
            /\ \A i \in 1 .. n : journal'[i] = journal[i]
            /\ journal'[n + 1] = txn
        BY <2>2 DEF OrderInv, TypeOK
      <3>2. \A h \in Persisted : Before(h, txn.hlc)
        BY <2>2 DEF OrderInv, AheadOfJournal
      <3>3. \A i \in 1 .. n : journal[i].hlc \in Persisted
        BY <3>1 DEF Persisted
      <3>4. HlcOrderIsSeqOrder'
        <4> SUFFICES ASSUME NEW i \in 1 .. n + 1, NEW j \in 1 .. n + 1, i < j
                     PROVE  Before(journal'[i].hlc, journal'[j].hlc)
          BY <3>1 DEF HlcOrderIsSeqOrder
        <4>1. CASE j = n + 1
          BY <4>1, <3>1, <3>2, <3>3
        <4>2. CASE j # n + 1
          BY <4>2, <3>1 DEF OrderInv, HlcOrderIsSeqOrder
        <4> QED
          BY <4>1, <4>2
      <3>5. \A h \in Persisted' : h \in Persisted \/ h = txn.hlc
        BY <3>1, <3>3 DEF Persisted
      <3>6. AheadOfJournal'
        BY <2>2, <3>5 DEF OrderInv, AheadOfJournal
      <3> QED
        BY <1>1, <3>4, <3>6 DEF OrderInv
    <2> QED
      BY <1>4, <2>1, <2>2, LogStep
  <1> QED
    BY <1>3, <1>4

\* The order of stamps is the order of commits, whatever crashes, rollbacks,
\* jumps of the physical clock, remote stamps and overflows come between.
THEOREM OrderCorrect == Spec => []HlcOrderIsSeqOrder
  <1>1. OrderInv => HlcOrderIsSeqOrder
    BY DEF OrderInv
  <1> QED
    BY <1>1, OrderInit, OrderStep, PTL DEF Spec

\* Clocks and stored stamps are well typed: nothing too wide is ever stored.
THEOREM LogTypeCorrect == Spec => []TypeOK
  <1>1. OrderInv => TypeOK
    BY DEF OrderInv
  <1> QED
    BY <1>1, OrderInit, OrderStep, PTL DEF Spec

\* The service's clock is never behind what is committed.
THEOREM AheadCorrect == Spec => []AheadOfJournal
  <1>1. OrderInv => AheadOfJournal
    BY DEF OrderInv
  <1> QED
    BY <1>1, OrderInit, OrderStep, PTL DEF Spec

-----------------------------------------------------------------------------
(* Causality across instances, for a bridge on the service's clock.        *)

\* While a message waits for its event the shared clock is past its stamp, and
\* while the event waits for its reply the clock is not behind the event's.
CausalInv ==
  /\ shared =>
       /\ request.phase = "absorbed" => /\ request.remote \in Remotes
                                        /\ clock # None
                                        /\ Before(request.remote, clock)
       /\ txn # None /\ txn.cause # None => Before(txn.cause, txn.hlc)
       /\ request.phase = "served" => /\ request.event \in Stored
                                      /\ clock # None
                                      /\ NotAfter(request.event, clock)
  /\ CausalWhenShared
  /\ ReplyAfterEvent

LEMMA CausalInit == Init => CausalInv
  BY DEF Init, CausalInv, CausalWhenShared, ReplyAfterEvent, Idle

\* A stamp for the absorbed message is past it, and a stamp for anybody else
\* leaves the clock past what the bridge waits for.
LEMMA CausalStamp ==
  ASSUME OrderInv, CausalInv,
         NEW pt \in Times, NEW cause \in Remotes \cup {None}, Stamp(pt, cause)
  PROVE  CausalInv'
  <1>1. /\ journal' = journal /\ shared' = shared
        /\ clock' \in Clock /\ clock' # None
        /\ Before(Current, clock')
        /\ txn' = None \/ txn' = [hlc |-> clock', cause |-> cause]
    BY StampStep DEF Stamp
  <1>2. clock # None => Current = clock /\ clock \in Clock /\ Before(clock, clock')
    BY <1>1 DEF Current, OrderInv, TypeOK
  <1>3. request \in Request
    BY DEF OrderInv, TypeOK
  <1>4. /\ cause # None => /\ request.phase = "absorbed" /\ request.remote = cause
                           /\ request'.phase \in {"idle", "sent"}
        /\ cause = None => request' = request
    BY <1>3 DEF Stamp, Idle, Request
  <1>5. shared /\ cause # None => Before(cause, clock')
    BY <1>1, <1>2, <1>4, BeforeTransitive, StoredAreClocks DEF CausalInv
  <1>6. shared /\ request.phase = "absorbed" => Before(request.remote, clock')
    BY <1>1, <1>2, BeforeTransitive, StoredAreClocks DEF CausalInv
  <1>7. shared /\ request.phase = "served" => NotAfter(request.event, clock')
    BY <1>1, <1>2, BeforeTransitive, StoredAreClocks DEF CausalInv, NotAfter
  <1>8. ReplyAfterEvent'
    BY <1>1, <1>4 DEF CausalInv, ReplyAfterEvent
  <1>9. CausalWhenShared'
    BY <1>1 DEF CausalInv, CausalWhenShared
  <1> QED
    BY <1>1, <1>4, <1>5, <1>6, <1>7, <1>8, <1>9 DEF CausalInv

LEMMA CausalCommit ==
  ASSUME OrderInv, CausalInv, Commit
  PROVE  CausalInv'
  <1> DEFINE n == Len(journal)
  <1>1. /\ journal \in Seq(Entry) /\ n \in Nat /\ txn \in Entry
        /\ DOMAIN journal = 1 .. n /\ DOMAIN journal' = 1 .. n + 1
        /\ \A i \in 1 .. n : journal'[i] = journal[i]
        /\ journal'[n + 1] = txn
    BY DEF Commit, OrderInv, TypeOK
  <1>2. CausalWhenShared'
    BY <1>1 DEF Commit, CausalInv, CausalWhenShared
  <1>3. clock # None /\ NotAfter(txn.hlc, clock) /\ txn.hlc \in Stored
    BY <1>1 DEF Commit, OrderInv, AheadOfJournal, Entry
  <1>4. request \in Request
    BY DEF OrderInv, TypeOK
  <1>5. \/ request' = request
        \/ request'.phase = "served" /\ request'.event = txn.hlc
    BY <1>4 DEF Commit, Request
  <1>6. shared' = shared /\ clock' = clock /\ txn' = None
    BY DEF Commit
  <1>7. ReplyAfterEvent'
    BY <1>5, <1>6 DEF CausalInv, ReplyAfterEvent
  <1> QED
    BY <1>2, <1>3, <1>5, <1>6, <1>7 DEF CausalInv

LEMMA CausalAbsorb ==
  ASSUME OrderInv, CausalInv, NEW r \in Remotes, Absorb(r)
  PROVE  CausalInv'
  <1>1. UNCHANGED <<shared, txn, journal>>
    BY DEF Absorb
  <1>2. request'.phase = "absorbed" /\ request'.remote = r
    BY DEF Absorb, Idle
  <1>3. shared => clock' # None /\ Before(r, clock')
    <2> SUFFICES ASSUME shared PROVE clock' # None /\ Before(r, clock')
      OBVIOUS
    <2>1. clock # None /\ clock' = MergeRule(clock, r)
      BY DEF Absorb, BridgeClock, SetBridgeClock
    <2>2. clock \in Clock /\ r \in Clock
      BY <2>1, StoredAreClocks DEF OrderInv, TypeOK
    <2> QED
      BY <2>1, <2>2, MergeRuleAdvances
  <1>4. CausalWhenShared'
    BY <1>1 DEF CausalInv, CausalWhenShared
  <1>5. ReplyAfterEvent'
    BY <1>2 DEF ReplyAfterEvent
  <1> QED
    BY <1>1, <1>2, <1>3, <1>4, <1>5 DEF CausalInv

LEMMA CausalReply ==
  ASSUME OrderInv, CausalInv, NEW pt \in Times, Reply(pt)
  PROVE  CausalInv'
  <1> DEFINE k == LocalRule(BridgeClock, pt)
  <1>1. UNCHANGED <<shared, txn, journal>>
    BY DEF Reply
  <1>2. request \in Request /\ request.phase = "served"
    BY DEF Reply, OrderInv, TypeOK
  <1>3. \/ request'.phase = "idle"
        \/ /\ request'.phase = "answered"
           /\ request'.event = request.event
           /\ request'.reply = k
    <2> HIDE DEF k
    <2>1. \/ request' = Idle
          \/ request' = [request EXCEPT !.phase = "answered", !.reply = k]
      BY DEF Reply, k
    <2>2. CASE request' = Idle
      BY <2>2 DEF Idle
    <2>3. CASE request' = [request EXCEPT !.phase = "answered", !.reply = k]
      BY <1>2, <2>3 DEF Request
    <2> QED
      BY <2>1, <2>2, <2>3
  <1>4. shared => Before(request.event, k)
    <2> SUFFICES ASSUME shared PROVE Before(request.event, k)
      OBVIOUS
    <2>1. clock \in Clock /\ pt \in Nat /\ BridgeClock = clock
      BY DEF Reply, BridgeClock, OrderInv, TypeOK
    <2>2. k \in Clock /\ Before(clock, k)
      BY <2>1, LocalRuleAdvances
    <2>3. request.event \in Clock /\ NotAfter(request.event, clock)
      BY <1>2, StoredAreClocks DEF CausalInv
    <2> QED
      BY <2>1, <2>2, <2>3, BeforeTransitive
  <1>5. CausalWhenShared'
    BY <1>1 DEF CausalInv, CausalWhenShared
  <1>6. ReplyAfterEvent'
    BY <1>1, <1>3, <1>4 DEF ReplyAfterEvent
  <1> QED
    BY <1>1, <1>3, <1>5, <1>6 DEF CausalInv

LEMMA CausalStep == OrderInv /\ CausalInv /\ [Next]_vars => CausalInv'
  <1> SUFFICES ASSUME OrderInv, CausalInv, [Next]_vars PROVE CausalInv'
    OBVIOUS
  <1>1. request \in Request
    BY DEF OrderInv, TypeOK
  <1>2. CASE Rollback
    BY <1>1, <1>2 DEF Rollback, CausalInv, CausalWhenShared, ReplyAfterEvent, Idle
  <1>3. CASE Crash
    BY <1>1, <1>3 DEF Crash, CausalInv, CausalWhenShared, ReplyAfterEvent, Idle
  <1>4. CASE BridgeStart
    BY <1>4 DEF BridgeStart, CausalInv, CausalWhenShared, ReplyAfterEvent
  <1>5. CASE BridgeCrash \/ BridgeGivesUp
    BY <1>5 DEF BridgeCrash, BridgeGivesUp, CausalInv, CausalWhenShared,
                ReplyAfterEvent, Idle
  <1>6. CASE UNCHANGED vars
    BY <1>6 DEF vars, CausalInv, CausalWhenShared, ReplyAfterEvent
  <1> QED
    BY <1>2, <1>3, <1>4, <1>5, <1>6, CausalStamp, CausalCommit, CausalAbsorb,
       CausalReply DEF Next

\* For a bridge on the service's clock, whatever message it absorbs in the
\* middle of whatever transaction, the event is stamped after the message.
THEOREM CausalCorrect == Spec => []CausalWhenShared
  <1>1. CausalInv => CausalWhenShared
    BY DEF CausalInv
  <1> QED
    BY <1>1, OrderInit, OrderStep, CausalInit, CausalStep, PTL DEF Spec

\* Its reply is stamped after the event it reports.
THEOREM ReplyCorrect == Spec => []ReplyAfterEvent
  <1>1. CausalInv => ReplyAfterEvent
    BY DEF CausalInv
  <1> QED
    BY <1>1, OrderInit, OrderStep, CausalInit, CausalStep, PTL DEF Spec
=============================================================================
