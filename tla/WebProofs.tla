------------------------------ MODULE WebProofs ------------------------------
(***************************************************************************)
(* Proofs about the web interface, for any number of organizations, of     *)
(* requests at a time and of restarts: sessions that were logged out stay  *)
(* away, the sessions of an organization stay within the maximum, and no   *)
(* answer in the cache outlives its time.                                  *)
(***************************************************************************)
EXTENDS Web, FiniteSetTheorems, WellFoundedInduction, TLAPS

-----------------------------------------------------------------------------
(* Eviction.                                                               *)

\* A nonempty finite set of naturals has a least element: of the sets of what is
\* not above an element, one has none of the others inside it.
LEMMA Least ==
  ASSUME NEW S \in SUBSET Nat, IsFiniteSet(S), S # {}
  PROVE  \E m \in S : \A k \in S : m <= k
<1> DEFINE Below(i) == {j \in S : j <= i}
           F == {Below(i) : i \in S}
<1>1. \A i \in S : Below(i) \subseteq S
  OBVIOUS
<1>2. F \subseteq SUBSET S
  BY <1>1
<1>3. F # {}
  OBVIOUS
<1>4. PICK B \in F : \A C \in F : ~(<<C, B>> \in StrictSubsetOrdering(S))
  <2> HIDE DEF F
  <2>1. F \subseteq FiniteSubsetsOf(S)
    BY <1>2, FS_FiniteSubsetsOfFinite
  <2> QED
    BY <1>3, <2>1, FS_StrictSubsetOrderingWellFounded, WFMin
<1>5. PICK m \in S : B = Below(m)
  BY <1>4
<1>6. ASSUME NEW k \in S, k < m PROVE FALSE
  <2>1. Below(k) \subseteq Below(m)
    <3>1. \A j, l, n \in Nat : j <= l /\ l < n => j <= n
      OBVIOUS
    <3> QED
      BY <1>6, <3>1
  <2>2. m \in Below(m) /\ m \notin Below(k)
    BY <1>6
  <2>3. Below(k) \in F
    OBVIOUS
  <2> HIDE DEF Below, F
  <2> QED
    BY <1>1, <1>4, <1>5, <2>1, <2>2, <2>3 DEF StrictSubsetOrdering
<1>7. \A k \in S : k \in Nat /\ m \in Nat
  OBVIOUS
<1> QED
  BY <1>6, <1>7

\* At most n elements of a finite set have fewer than n above them.
LEMMA Newest ==
  ASSUME NEW S \in SUBSET Nat, IsFiniteSet(S), NEW n \in Nat,
         NEW K, K = {k \in S : Cardinality({j \in S : j > k}) < n}
  PROVE  IsFiniteSet(K) /\ Cardinality(K) <= n
<1>1. IsFiniteSet(K)
  BY FS_Subset
<1>2. CASE K = {}
  <2>1. Cardinality(K) = 0
    BY <1>2, FS_EmptySet
  <2> QED
    BY <1>1, <2>1
<1>3. CASE K # {}
  <2>1. PICK m \in K : \A k \in K : m <= k
    <3>1. K \in SUBSET Nat
      OBVIOUS
    <3> QED
      BY <1>1, <1>3, <3>1, Least
  <2> DEFINE A == {j \in S : j > m}
  <2>2. IsFiniteSet(A) /\ Cardinality(A) \in Nat /\ Cardinality(A) < n
    BY <2>1, FS_Subset, FS_CardinalityType
  <2>3. K \subseteq A \cup {m}
    <3> SUFFICES ASSUME NEW k \in K PROVE k \in S /\ (k > m \/ k = m)
      OBVIOUS
    <3>1. k \in S /\ k \in Nat /\ m \in Nat
      OBVIOUS
    <3> QED
      BY <2>1, <3>1
  <2> HIDE DEF A
  <2>4. IsFiniteSet(A \cup {m}) /\ Cardinality(A \cup {m}) <= Cardinality(A) + 1
    <3>1. Cardinality(A \cup {m}) = IF m \in A THEN Cardinality(A) ELSE Cardinality(A) + 1
      BY <2>2, FS_AddElement
    <3>2. IsFiniteSet(A \cup {m})
      BY <2>2, FS_AddElement
    <3> QED
      BY <2>2, <3>1, <3>2
  <2>5. Cardinality(K) <= Cardinality(A \cup {m})
    BY <2>3, <2>4, FS_Subset
  <2>6. Cardinality(K) \in Nat /\ Cardinality(A \cup {m}) \in Nat
    BY <1>1, <2>4, FS_CardinalityType
  <2>7. Cardinality(K) <= n
    <3> DEFINE c == Cardinality(A) u == Cardinality(A \cup {m}) v == Cardinality(K)
    <3>1. c \in Nat /\ u \in Nat /\ v \in Nat /\ c < n /\ u <= c + 1 /\ v <= u
      BY <2>2, <2>4, <2>5, <2>6
    <3> HIDE DEF c, u, v
    <3> QED
      BY <3>1 DEF v
  <2> QED
    BY <1>1, <2>7
<1> QED
  BY <1>2, <1>3

-----------------------------------------------------------------------------
(* Types, and the sessions' tokens.                                        *)

UnderSession ==
  {"list", "open", "post", "disable", "logout",
   "fetch", "store", "served", "invalidate", "refused"}

SessionSet == [org : Orgs, secret : Nat, used : Nat, version : Nat]
EntrySet   == [value : Nat, read : Nat, until : Nat]
LoginSet   == [op : {"login", "welcome", "failed"}, org : Orgs, secret : Nat, at : Nat]
RequestSet == [op : UnderSession, token : Nat, session : SessionSet,
               at : Nat, value : Nat, read : Nat]

Typed ==
  /\ clock \in Nat /\ issued \in Nat /\ run \in Nat /\ token \in Nat
  /\ content \in [Orgs -> Nat]
  /\ cache \in [Orgs -> {NoEntry} \cup EntrySet]
  /\ threads \in [Threads -> {Idle} \cup LoginSet \cup RequestSet]
  /\ sessions \in [DOMAIN sessions -> SessionSet]

\* Every token there is was issued, and one that was logged out is gone.
TokensIssued ==
  /\ DOMAIN sessions \subseteq 1..issued
  /\ ended \subseteq 1..issued
  /\ \A t \in Threads : threads[t].op \in UnderSession => threads[t].token \in 1..issued
  /\ LoggedOutForEver

\* A lookup that went to the service read it after it looked.
ReadLater ==
  /\ \A t \in Threads : threads[t].op \in {"fetch", "store"} => threads[t].at <= clock
  /\ \A t \in Threads : threads[t].op = "store" => threads[t].at <= threads[t].read
  /\ CachedAnswersAreRecent

IInv == Typed /\ TokensIssued /\ ReadLater

LEMMA InitIInv == Init => IInv
<1> SUFFICES ASSUME Init PROVE IInv
  OBVIOUS
<1> USE DEF Init
<1>1. sessions = NoSessions /\ DOMAIN sessions = {}
  BY DEF NoSessions
<1>2. Typed
  BY <1>1 DEF Typed, NoSessions
<1>3. TokensIssued
  BY <1>1 DEF TokensIssued, LoggedOutForEver, Idle, UnderSession
<1>4. ReadLater
  BY DEF ReadLater, CachedAnswersAreRecent, Idle
<1> QED
  BY <1>2, <1>3, <1>4 DEF IInv

-----------------------------------------------------------------------------
(* The steps.                                                              *)

\* A session that is used stays, of the same organization.
LEMMA TouchedKeeps ==
  ASSUME NEW ss, ss \in [DOMAIN ss -> SessionSet], NEW tok \in DOMAIN ss
  PROVE  /\ DOMAIN Touched(ss, tok) = DOMAIN ss
         /\ clock \in Nat => Touched(ss, tok) \in [DOMAIN ss -> SessionSet]
         /\ \A k \in DOMAIN ss : Touched(ss, tok)[k].org = ss[k].org
<1>1. DOMAIN Touched(ss, tok) = DOMAIN ss
  BY DEF Touched
<1>2. ASSUME NEW k \in DOMAIN ss
      PROVE  /\ clock \in Nat => Touched(ss, tok)[k] \in SessionSet
             /\ Touched(ss, tok)[k].org = ss[k].org
  <2>1. ss[tok] \in SessionSet /\ ss[k] \in SessionSet
    OBVIOUS
  <2>2. CASE k = tok
    <3>1. Touched(ss, tok)[k] = Used(ss[tok])
      BY <2>2 DEF Touched
    <3> QED
      BY <2>1, <2>2, <3>1 DEF Used, SessionSet
  <2>3. CASE k # tok
    <3>1. Touched(ss, tok)[k] = ss[k]
      BY <2>3 DEF Touched
    <3> QED
      BY <2>1, <3>1
  <2> QED
    BY <2>2, <2>3
<1>3. Touched(ss, tok) = [k \in DOMAIN ss |-> Touched(ss, tok)[k]]
  BY DEF Touched
<1> QED
  BY <1>1, <1>2, <1>3

\* Steps of a request that leave the sessions alone.
LEMMA QuietStep ==
  ASSUME IInv, NEW t \in Threads,
         \/ Login(t) \/ AskService(t) \/ LoginFailed(t) \/ LookUp(t) \/ Fetch(t) \/ Store(t)
         \/ Answer(t) \/ Open(t) \/ Post(t) \/ Invalidate(t) \/ DisableOrg(t)
  PROVE  IInv'
<1> USE DEF IInv, Typed, TokensIssued, ReadLater, LoggedOutForEver, CachedAnswersAreRecent,
            LoginSet, RequestSet, EntrySet, SessionSet, UnderSession, Idle, NoEntry
<1>0. CacheTTL \in Nat
  BY WebAssumption
<1>1. CASE Login(t)
  BY <1>0, <1>1 DEF Login, At, Goes, service, web
<1>2. CASE AskService(t)
  BY <1>0, <1>2 DEF AskService, At, Goes, Accepts, service, web, counters
<1>3. CASE LoginFailed(t)
  BY <1>0, <1>3 DEF LoginFailed, At, Goes, Counted, service, counters
<1>4. CASE LookUp(t)
  <2>1. threads[t] \in RequestSet /\ threads[t].op = "list"
    BY <1>4 DEF LookUp, At, Goes, Fresh, service, web, counters
  <2>2. \E r \in RequestSet : threads' = [threads EXCEPT ![t] = r]
    BY <1>4, <2>1 DEF LookUp, At, Goes, Fresh, service, web, counters
  <2>3. threads' \in [Threads -> {Idle} \cup LoginSet \cup RequestSet]
    BY <2>2
  <2>4. Typed'
    BY <1>4, <2>3 DEF LookUp, At, Goes, Fresh, service, web, counters
  <2>5. TokensIssued'
    BY <1>4, <2>1 DEF LookUp, At, Goes, Fresh, service, web, counters
  <2>6. ReadLater'
    BY <1>0, <1>4, <2>1 DEF LookUp, At, Goes, Fresh, service, web, counters
  <2> QED
    BY <2>4, <2>5, <2>6
<1>5. CASE Fetch(t)
  <2>1. threads[t] \in RequestSet /\ threads[t].op = "fetch"
    BY <1>5 DEF Fetch, Call, At, Goes, Accepts, service, web, counters
  <2>2. \E r \in {Idle} \cup RequestSet : threads' = [threads EXCEPT ![t] = r]
    BY <1>5, <2>1 DEF Fetch, Call, At, Goes, Accepts, service, web, counters
  <2>3. threads' \in [Threads -> {Idle} \cup LoginSet \cup RequestSet]
    BY <2>2
  <2>4. Typed'
    BY <1>5, <2>3 DEF Fetch, Call, At, Goes, Accepts, service, web, counters
  <2>5. TokensIssued'
    BY <1>5, <2>1 DEF Fetch, Call, At, Goes, Accepts, service, web, counters
  <2>6. ReadLater'
    BY <1>0, <1>5, <2>1 DEF Fetch, Call, At, Goes, Accepts, service, web, counters
  <2> QED
    BY <2>4, <2>5, <2>6
<1>6. CASE Store(t)
  <2>1. threads[t] \in RequestSet /\ threads[t].op = "store"
    BY <1>6 DEF Store, At, Goes, Until, service, counters
  <2>2. \E r \in RequestSet : threads' = [threads EXCEPT ![t] = r]
    BY <1>6, <2>1 DEF Store, At, Goes, Until, service, counters
  <2>3. threads' \in [Threads -> {Idle} \cup LoginSet \cup RequestSet]
    BY <2>2
  <2> DEFINE e == [value |-> threads[t].value, read |-> threads[t].read,
                   until |-> threads[t].at + CacheTTL]
             o == threads[t].session.org
  <2>4. e \in EntrySet /\ o \in Orgs /\ e.until <= e.read + CacheTTL
    BY <1>0, <2>1
  <2>5. cache' = [cache EXCEPT ![o] = e]
    BY <1>6 DEF Store, Until
  <2>6. cache' \in [Orgs -> {NoEntry} \cup EntrySet]
    <3> HIDE DEF e, o
    <3> QED
      BY <2>4, <2>5
  <2>7. Typed'
    BY <1>6, <2>3, <2>6 DEF Store, At, Goes, service, counters
  <2>8. TokensIssued'
    BY <1>6, <2>1 DEF Store, At, Goes, service, counters
  <2>9. ReadLater'
    <3>1. CachedAnswersAreRecent'
      <4> HIDE DEF e, o
      <4> QED
        BY <2>4, <2>5
    <3> QED
      BY <1>6, <2>1, <3>1 DEF Store, At, Goes, service, counters
  <2> QED
    BY <2>7, <2>8, <2>9
<1>7. CASE Answer(t)
  BY <1>0, <1>7 DEF Answer, At, Goes, service, web, counters
<1>8. CASE Open(t)
  <2>1. threads[t] \in RequestSet /\ threads[t].op = "open"
    BY <1>8 DEF Open, Call, At, Goes, Accepts, web, counters
  <2>2. \E r \in {Idle} \cup RequestSet : threads' = [threads EXCEPT ![t] = r]
    BY <1>8, <2>1 DEF Open, Call, At, Goes, Accepts, web, counters
  <2>3. threads' \in [Threads -> {Idle} \cup LoginSet \cup RequestSet]
    BY <2>2
  <2>4. Typed'
    BY <1>8, <2>3 DEF Open, Call, At, Goes, Accepts, web, counters
  <2>5. TokensIssued'
    BY <1>8, <2>1 DEF Open, Call, At, Goes, Accepts, web, counters
  <2>6. ReadLater'
    BY <1>0, <1>8, <2>1 DEF Open, Call, At, Goes, Accepts, web, counters
  <2> QED
    BY <2>4, <2>5, <2>6
<1>9. CASE Post(t)
  <2>1. threads[t] \in RequestSet /\ threads[t].op = "post"
    BY <1>9 DEF Post, Call, At, Goes, Accepts, web, counters
  <2>2. \E r \in {Idle} \cup RequestSet : threads' = [threads EXCEPT ![t] = r]
    BY <1>9, <2>1 DEF Post, Call, At, Goes, Accepts, web, counters
  <2>3. threads' \in [Threads -> {Idle} \cup LoginSet \cup RequestSet]
    BY <2>2
  <2>4. Typed'
    BY <1>9, <2>3 DEF Post, Call, At, Goes, Accepts, web, counters
  <2>5. TokensIssued'
    BY <1>9, <2>1 DEF Post, Call, At, Goes, Accepts, web, counters
  <2>6. ReadLater'
    BY <1>0, <1>9, <2>1 DEF Post, Call, At, Goes, Accepts, web, counters
  <2> QED
    BY <2>4, <2>5, <2>6
<1>10. CASE Invalidate(t)
  BY <1>0, <1>10 DEF Invalidate, At, Goes, service, counters
<1>11. CASE DisableOrg(t)
  <2>1. threads[t] \in RequestSet /\ threads[t].op = "disable"
    BY <1>11 DEF DisableOrg, Call, At, Goes, Accepts, web, counters
  <2>2. \E r \in {Idle} \cup RequestSet : threads' = [threads EXCEPT ![t] = r]
    BY <1>11, <2>1 DEF DisableOrg, Call, At, Goes, Accepts, web, counters
  <2>3. threads' \in [Threads -> {Idle} \cup LoginSet \cup RequestSet]
    BY <2>2
  <2>4. Typed'
    BY <1>11, <2>3 DEF DisableOrg, Call, At, Goes, Accepts, web, counters
  <2>5. TokensIssued'
    BY <1>11, <2>1 DEF DisableOrg, Call, At, Goes, Accepts, web, counters
  <2>6. ReadLater'
    BY <1>0, <1>11, <2>1 DEF DisableOrg, Call, At, Goes, Accepts, web, counters
  <2> QED
    BY <2>4, <2>5, <2>6
<1> QED
  BY <1>1, <1>2, <1>3, <1>4, <1>5, <1>6, <1>7, <1>8, <1>9, <1>10, <1>11

\* Steps that change the sessions.
LEMMA SessionStep ==
  ASSUME IInv, NEW t \in Threads,
         \/ LoginSucceeded(t) \/ Expel(t) \/ Logout(t)
         \/ \E op \in {"list", "open", "post", "disable", "logout"} : Request(t, op)
  PROVE  IInv'
<1> USE DEF IInv, Typed, TokensIssued, ReadLater, LoggedOutForEver, CachedAnswersAreRecent,
            LoginSet, RequestSet, EntrySet, SessionSet, UnderSession, Idle, NoEntry
<1>1. CASE LoginSucceeded(t)
  <2>1. threads[t] \in LoginSet
    BY <1>1 DEF LoginSucceeded, At
  <2> DEFINE o  == threads[t].org
             ss == Evicted(Pruned(sessions, threads[t].at), o)
             n  == NewSession(o, threads[t].secret, threads[t].at)
  <2>2. /\ sessions' = With(ss, issued + 1, n) /\ issued' = issued + 1
        /\ threads' = [threads EXCEPT ![t] = Idle]
    BY <1>1 DEF LoginSucceeded, Goes
  <2>3. DOMAIN ss \subseteq DOMAIN sessions /\ ss \in [DOMAIN ss -> SessionSet]
    BY DEF Evicted, Pruned, Only
  <2>4. n \in SessionSet
    BY <2>1 DEF NewSession
  <2> HIDE DEF ss, n
  <2>5. /\ DOMAIN sessions' = DOMAIN ss \cup {issued + 1}
        /\ sessions' \in [DOMAIN sessions' -> SessionSet]
    BY <2>2, <2>3, <2>4 DEF With
  <2>6. Typed'
    BY <1>1, <2>2, <2>5 DEF LoginSucceeded, service, counters
  <2>7. TokensIssued'
    BY <1>1, <2>2, <2>3, <2>5 DEF LoginSucceeded, service, counters
  <2>8. ReadLater'
    BY <1>1, <2>2 DEF LoginSucceeded, service, counters
  <2> QED
    BY <2>6, <2>7, <2>8
<1>2. CASE Expel(t)
  <2>1. /\ DOMAIN sessions' \subseteq DOMAIN sessions
        /\ sessions' \in [DOMAIN sessions' -> SessionSet]
    BY <1>2 DEF Expel, DestroyFor, Without, Only
  <2> QED
    BY <1>2, <2>1 DEF Expel, At, Goes, service, counters
<1>3. CASE Logout(t)
  <2>1. threads[t].token \in 1..issued
    BY <1>3 DEF Logout, At
  <2>2. /\ DOMAIN sessions' = DOMAIN sessions \ {threads[t].token}
        /\ sessions' \in [DOMAIN sessions' -> SessionSet]
    BY <1>3 DEF Logout, Without, Only
  <2> QED
    BY <1>3, <2>1, <2>2 DEF Logout, At, Goes, service, counters
<1>4. ASSUME NEW op \in {"list", "open", "post", "disable", "logout"}, Request(t, op)
      PROVE  IInv'
  <2>1. PICK tok \in DOMAIN sessions :
          IF Expired(sessions[tok])
          THEN sessions' = Without(sessions, tok) /\ UNCHANGED threads
          ELSE /\ sessions' = Touched(sessions, tok)
               /\ Goes(t, [op |-> op, token |-> tok, session |-> sessions[tok],
                           at |-> clock, value |-> 0, read |-> 0])
    BY <1>4 DEF Request
  <2>2. CASE Expired(sessions[tok])
    <3>1. /\ DOMAIN sessions' \subseteq DOMAIN sessions
          /\ sessions' \in [DOMAIN sessions' -> SessionSet]
      BY <2>1, <2>2 DEF Without, Only
    <3> QED
      BY <1>4, <2>1, <2>2, <3>1 DEF Request, service, counters
  <2>3. CASE ~Expired(sessions[tok])
    <3>1. /\ DOMAIN sessions' = DOMAIN sessions
          /\ sessions' \in [DOMAIN sessions' -> SessionSet]
      <4>1. sessions' = Touched(sessions, tok) /\ clock \in Nat
        BY <2>1, <2>3
      <4> QED
        BY <4>1, TouchedKeeps
    <3> DEFINE r == [op |-> op, token |-> tok, session |-> sessions[tok],
                     at |-> clock, value |-> 0, read |-> 0]
    <3>2. r \in RequestSet
      OBVIOUS
    <3>3. threads' = [threads EXCEPT ![t] = r]
      BY <2>1, <2>3 DEF Goes
    <3>4. r.op \notin {"fetch", "store"} /\ r.token \in 1..issued
      BY <2>1
    <3> HIDE DEF r
    <3>5. threads' \in [Threads -> {Idle} \cup LoginSet \cup RequestSet]
      BY <3>2, <3>3
    <3>6. Typed'
      BY <1>4, <3>1, <3>5 DEF Request, service
    <3>7. TokensIssued'
      <4>1. \A u \in Threads : threads'[u].op \in UnderSession => threads'[u].token \in 1..issued
        BY <3>3, <3>4
      <4>2. issued' = issued /\ ended' = ended
        BY <1>4 DEF Request
      <4> QED
        BY <3>1, <4>1, <4>2
    <3>8. ReadLater'
      <4>1. clock' = clock /\ cache' = cache
        BY <1>4 DEF Request
      <4> QED
        BY <3>3, <3>4, <4>1
    <3> QED
      BY <3>6, <3>7, <3>8
  <2> QED
    BY <2>2, <2>3
<1> QED
  BY <1>1, <1>2, <1>3, <1>4

\* The service, the interface and time.
LEMMA WorldStep ==
  ASSUME IInv,
         \/ ServiceStops \/ ServiceStarts \/ WebRestarts \/ Enable \/ Change \/ Tick
         \/ UNCHANGED vars
  PROVE  IInv'
<1> USE DEF IInv, Typed, TokensIssued, ReadLater, LoggedOutForEver, CachedAnswersAreRecent,
            LoginSet, RequestSet, EntrySet, SessionSet, UnderSession, Idle, NoEntry
<1>1. CASE ServiceStops \/ Enable
  BY <1>1 DEF ServiceStops, Enable, web
<1>6. CASE ServiceStarts
  BY <1>6 DEF ServiceStarts, web
<1>2. CASE WebRestarts
  <2>1. threads' = [t \in Threads |-> Idle] /\ cache' = [o \in Orgs |-> NoEntry]
        /\ sessions' = NoSessions /\ token' \in {0, run}
    BY <1>2 DEF WebRestarts
  <2>2. DOMAIN sessions' = {} /\ sessions' \in [DOMAIN sessions' -> SessionSet]
    BY <2>1 DEF NoSessions
  <2>3. UNCHANGED <<clock, run, content, issued, ended>>
    BY <1>2 DEF WebRestarts, service
  <2>4. Typed'
    BY <2>1, <2>2, <2>3
  <2>5. TokensIssued'
    BY <2>1, <2>2, <2>3
  <2>6. ReadLater'
    BY <2>1, <2>3
  <2> QED
    BY <2>4, <2>5, <2>6
<1>5. CASE Change
  BY <1>5 DEF Change, web
<1>3. CASE Tick
  BY <1>3 DEF Tick, service, web, counters
<1>4. CASE UNCHANGED vars
  BY <1>4 DEF vars, service, web, counters
<1> QED
  BY <1>1, <1>2, <1>3, <1>4, <1>5, <1>6

LEMMA StepIInv == IInv /\ [Next]_vars => IInv'
BY QuietStep, SessionStep, WorldStep DEF Next, ThreadNext

-----------------------------------------------------------------------------
(* The number of sessions.                                                 *)

\* Fewer sessions, of the same organizations, stay within the maximum.
LEMMA Fewer ==
  ASSUME IInv, SessionsBounded, DOMAIN sessions' \subseteq DOMAIN sessions,
         \A k \in DOMAIN sessions' : sessions'[k].org = sessions[k].org
  PROVE  SessionsBounded'
<1> SUFFICES ASSUME NEW o \in Orgs
             PROVE  Cardinality(OfOrg(sessions', o)) <= MaxSessions
  BY DEF SessionsBounded
<1> DEFINE A == OfOrg(sessions, o)  B == OfOrg(sessions', o)
<1>1. B \subseteq A
  BY DEF OfOrg
<1>2. IsFiniteSet(A)
  <2>1. A \subseteq 1..issued /\ issued \in Nat
    BY DEF OfOrg, IInv, Typed, TokensIssued
  <2>2. IsFiniteSet(1..issued)
    BY <2>1, FS_Interval
  <2> QED
    BY <2>1, <2>2, FS_Subset
<1>3. Cardinality(A) <= MaxSessions
  BY DEF SessionsBounded
<1> HIDE DEF A, B
<1>4. /\ Cardinality(B) <= Cardinality(A)
      /\ Cardinality(B) \in Nat /\ Cardinality(A) \in Nat
  <2>1. IsFiniteSet(B) /\ Cardinality(B) <= Cardinality(A)
    BY <1>1, <1>2, FS_Subset
  <2> QED
    BY <1>2, <2>1, FS_CardinalityType
<1>5. MaxSessions \in Nat
  BY WebAssumption
<1>6. Cardinality(B) <= MaxSessions
  BY <1>3, <1>4, <1>5
<1> QED
  BY <1>6 DEF B

\* A login makes room for itself: of its organization, those with fewer than one
\* less than the maximum above them stay, and there are no more of these than that.
LEMMA LoginBounded ==
  ASSUME IInv, SessionsBounded, NEW t \in Threads, LoginSucceeded(t)
  PROVE  SessionsBounded'
<1> DEFINE o  == threads[t].org
           P  == Pruned(sessions, threads[t].at)
           ss == Evicted(P, o)
           n  == NewSession(o, threads[t].secret, threads[t].at)
           S  == OfOrg(P, o)
           K  == {k \in S : Cardinality({j \in S : j > k}) < MaxSessions - 1}
<1>1. DOMAIN sessions \subseteq 1..issued /\ issued \in Nat
  BY DEF IInv, Typed, TokensIssued
<1>2. sessions' = With(ss, issued + 1, n)
  BY DEF LoginSucceeded
<1>3. DOMAIN P \subseteq DOMAIN sessions /\ \A k \in DOMAIN P : P[k] = sessions[k]
  BY DEF Pruned, Only
<1>4. /\ DOMAIN ss \subseteq DOMAIN P /\ \A k \in DOMAIN ss : ss[k] = P[k]
      /\ \A k \in DOMAIN ss : P[k].org = o => k \in K
  BY DEF Evicted, Only, Newer, OfOrg
<1>5. n.org = o
  BY DEF NewSession
<1> HIDE DEF n, P, ss
<1>6. IsFiniteSet(S) /\ S \in SUBSET Nat
  <2>1. S \subseteq 1..issued
    BY <1>1, <1>3 DEF OfOrg
  <2>2. IsFiniteSet(1..issued) /\ 1..issued \subseteq Nat
    BY <1>1, FS_Interval
  <2> QED
    BY <2>1, <2>2, FS_Subset
<1>7. MaxSessions - 1 \in Nat /\ MaxSessions \in Nat
  BY WebAssumption
<1>8. IsFiniteSet(K) /\ Cardinality(K) <= MaxSessions - 1
  <2> HIDE DEF S
  <2> QED
    BY <1>6, <1>7, Newest
<1> HIDE DEF K, S
<1>9. /\ IsFiniteSet(K \cup {issued + 1})
      /\ Cardinality(K \cup {issued + 1}) <= MaxSessions
      /\ Cardinality(K \cup {issued + 1}) \in Nat
  <2>1. /\ IsFiniteSet(K \cup {issued + 1})
        /\ \/ Cardinality(K \cup {issued + 1}) = Cardinality(K)
           \/ Cardinality(K \cup {issued + 1}) = Cardinality(K) + 1
    BY <1>8, FS_AddElement
  <2>2. Cardinality(K) \in Nat /\ Cardinality(K \cup {issued + 1}) \in Nat
    BY <1>8, <2>1, FS_CardinalityType
  <2> DEFINE c == Cardinality(K)  d == Cardinality(K \cup {issued + 1})
  <2>3. c \in Nat /\ d \in Nat /\ (d = c \/ d = c + 1) /\ c <= MaxSessions - 1
    BY <1>8, <2>1, <2>2
  <2> HIDE DEF c, d
  <2>4. d <= MaxSessions
    BY <1>7, <2>3
  <2> QED
    BY <2>1, <2>2, <2>4 DEF d
<1> SUFFICES ASSUME NEW g \in Orgs
             PROVE  Cardinality(OfOrg(sessions', g)) <= MaxSessions
  BY DEF SessionsBounded
<1>10. CASE g = o
  <2>1. OfOrg(sessions', g) \subseteq K \cup {issued + 1}
    BY <1>2, <1>3, <1>4, <1>10 DEF OfOrg, With
  <2> DEFINE B == OfOrg(sessions', g)  D == K \cup {issued + 1}
  <2> HIDE DEF B, D
  <2>2. B \subseteq D /\ IsFiniteSet(D) /\ Cardinality(D) <= MaxSessions /\ Cardinality(D) \in Nat
    BY <1>9, <2>1 DEF B, D
  <2>3. Cardinality(B) <= Cardinality(D) /\ Cardinality(B) \in Nat
    <3>1. IsFiniteSet(B) /\ Cardinality(B) <= Cardinality(D)
      BY <2>2, FS_Subset
    <3> QED
      BY <3>1, FS_CardinalityType
  <2>4. Cardinality(B) <= MaxSessions
    BY <1>7, <2>2, <2>3
  <2> QED
    BY <2>4 DEF B
<1>11. CASE g # o
  <2> DEFINE A == OfOrg(sessions, g)  B == OfOrg(sessions', g)
  <2>1. B \subseteq A
    BY <1>2, <1>3, <1>4, <1>5, <1>11 DEF OfOrg, With
  <2>2. IsFiniteSet(A)
    <3>1. A \subseteq 1..issued
      BY <1>1 DEF OfOrg
    <3>2. IsFiniteSet(1..issued)
      BY <1>1, FS_Interval
    <3> QED
      BY <3>1, <3>2, FS_Subset
  <2>3. Cardinality(A) <= MaxSessions
    BY DEF SessionsBounded
  <2> HIDE DEF A, B
  <2>4. Cardinality(B) <= Cardinality(A) /\ Cardinality(B) \in Nat /\ Cardinality(A) \in Nat
    <3>1. IsFiniteSet(B) /\ Cardinality(B) <= Cardinality(A)
      BY <2>1, <2>2, FS_Subset
    <3> QED
      BY <2>2, <3>1, FS_CardinalityType
  <2>5. Cardinality(B) <= MaxSessions
    BY <1>7, <2>3, <2>4
  <2> QED
    BY <2>5 DEF B
<1> QED
  BY <1>10, <1>11

LEMMA StepBounded ==
  ASSUME IInv, SessionsBounded, [Next]_vars
  PROVE  SessionsBounded'
<1>1. ASSUME UNCHANGED sessions PROVE SessionsBounded'
  BY <1>1 DEF SessionsBounded, OfOrg
<1>2. ASSUME NEW t \in Threads, ThreadNext(t) PROVE SessionsBounded'
  <2>1. CASE LoginSucceeded(t)
    BY <2>1, LoginBounded
  <2>2. CASE \/ Login(t) \/ AskService(t) \/ LoginFailed(t) \/ LookUp(t) \/ Fetch(t) \/ Store(t)
             \/ Answer(t) \/ Open(t) \/ Post(t) \/ Invalidate(t) \/ DisableOrg(t)
    BY <1>1, <2>2 DEF Login, AskService, LoginFailed, LookUp, Fetch, Store, Answer, Open, Post,
                      Invalidate, DisableOrg, web
  <2>3. CASE Expel(t)
    <3>1. /\ DOMAIN sessions' \subseteq DOMAIN sessions
          /\ \A k \in DOMAIN sessions' : sessions'[k] = sessions[k]
      BY <2>3 DEF Expel, DestroyFor, Without, Only
    <3> QED
      BY <3>1, Fewer
  <2>4. CASE Logout(t)
    <3>1. /\ DOMAIN sessions' \subseteq DOMAIN sessions
          /\ \A k \in DOMAIN sessions' : sessions'[k] = sessions[k]
      BY <2>4 DEF Logout, Without, Only
    <3> QED
      BY <3>1, Fewer
  <2>5. CASE \E op \in {"list", "open", "post", "disable", "logout"} : Request(t, op)
    <3>1. PICK tok \in DOMAIN sessions :
            sessions' = Without(sessions, tok) \/ sessions' = Touched(sessions, tok)
      BY <2>5 DEF Request
    <3>2. /\ DOMAIN sessions' \subseteq DOMAIN sessions
          /\ \A k \in DOMAIN sessions' : sessions'[k].org = sessions[k].org
      <4>1. CASE sessions' = Without(sessions, tok)
        BY <4>1 DEF Without, Only
      <4>2. CASE sessions' = Touched(sessions, tok)
        <5>1. sessions \in [DOMAIN sessions -> SessionSet]
          BY DEF IInv, Typed
        <5> QED
          BY <4>2, <5>1, TouchedKeeps
      <4> QED
        BY <3>1, <4>1, <4>2
    <3> QED
      BY <3>2, Fewer
  <2> QED
    BY <1>2, <2>1, <2>2, <2>3, <2>4, <2>5 DEF ThreadNext
<1>3. CASE WebRestarts
  <2>1. DOMAIN sessions' = {}
    BY <1>3 DEF WebRestarts, NoSessions
  <2> QED
    BY <2>1, Fewer
<1>4. CASE ServiceStops \/ ServiceStarts \/ Enable \/ Change \/ Tick \/ UNCHANGED vars
  BY <1>1, <1>4 DEF ServiceStops, ServiceStarts, Enable, Change, Tick, vars, web
<1> QED
  BY <1>2, <1>3, <1>4 DEF Next

-----------------------------------------------------------------------------
(* What follows.                                                           *)

\* No organization has more sessions than the maximum, for any number of logins
\* that are between their call to the service and the table.
THEOREM BoundCorrect == Spec => []SessionsBounded
<1>1. Init => SessionsBounded
  <2> SUFFICES ASSUME Init, NEW o \in Orgs PROVE Cardinality(OfOrg(sessions, o)) <= MaxSessions
    BY DEF SessionsBounded
  <2>1. OfOrg(sessions, o) = {}
    BY DEF Init, NoSessions, OfOrg
  <2>2. Cardinality(OfOrg(sessions, o)) = 0
    BY <2>1, FS_EmptySet
  <2> QED
    BY <2>2, WebAssumption
<1>2. (IInv /\ SessionsBounded) /\ [Next]_vars => (IInv /\ SessionsBounded)'
  BY StepIInv, StepBounded
<1> QED
  BY InitIInv, <1>1, <1>2, PTL DEF Spec

\* A session that was logged out does not come back, for any number of requests
\* that were under way with it, logins and restarts.
THEOREM LogoutCorrect == Spec => []LoggedOutForEver
<1>1. IInv => LoggedOutForEver
  BY DEF IInv, TokensIssued
<1> QED
  BY InitIInv, StepIInv, <1>1, PTL DEF Spec

\* No entry of the cache outlives its time, counted from when the service was
\* read, however long calls take.
THEOREM CacheCorrect == Spec => []CachedAnswersAreRecent
<1>1. IInv => CachedAnswersAreRecent
  BY DEF IInv, ReadLater
<1> QED
  BY InitIInv, StepIInv, <1>1, PTL DEF Spec
=============================================================================
