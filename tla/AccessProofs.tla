---------------------------- MODULE AccessProofs ----------------------------
(***************************************************************************)
(* Proofs about authentication and the accounts, for any number of         *)
(* organizations, accounts, passwords and requests at a time.              *)
(*                                                                         *)
(* A request that passes had shown everything it has to at some moment     *)
(* since it arrived.  What it holds is a row that was read, an             *)
(* organization that was read later and an entry of a cache: the invariant *)
(* says of each what was true when it was read, and that what a row says   *)
(* of an account's organization and type stays true.                       *)
(*                                                                         *)
(* The audit and the limit of failures are counts: of what is written and  *)
(* of the threads that are about to write.                                 *)
(***************************************************************************)
EXTENDS Access, FiniteSetTheorems, TLAPS

Both   == {"account", "organization"}
Passed == {"clear", "run", "hashed", "audit"}

IsAccount(x) ==
  x = [org |-> x.org, type |-> x.type, status |-> x.status, hash |-> x.hash,
       observer |-> x.observer]

IsRequest(x) ==
  /\ x = [phase |-> x.phase, req |-> x.req, row |-> x.row, org |-> x.org, at |-> x.at,
          hash |-> x.hash]
  /\ x.req \in Requests

DataTyped ==
  /\ DOMAIN orgs = Orgs /\ DOMAIN accts = Names
  /\ \A u \in Names : accts[u] = NoRow \/ IsAccount(accts[u])

\* An entry of the cache holds the password of its hash.
CacheOk ==
  /\ DOMAIN cache = Keys
  /\ \A k \in Keys : cache[k] # NoRow => cache[k].digest = cache[k].hash.of

\* A request that has read its row: the account is still of that organization and
\* type, and was active with that password when it was read.
RowShown(t) ==
  LET r == Req(t) row == threads[t].row IN
  /\ r[1] \in Orgs => "account" \in since[t]
  /\ r[1] \in Names =>
       /\ accts[r[1]] # NoRow
       /\ row.org = accts[r[1]].org /\ row.type = accts[r[1]].type
       /\ row.type = "human" \/ row.hash.of = r[2] => "account" \in since[t]

\* One that has read the organization as well.
OrgShown(t) ==
  ~ByOrg(t) \/ threads[t].org.hash.of = Req(t)[2] \/ Req(t)[2] = Token
    => "organization" \in since[t]

ThreadOk(t) ==
  LET phase == threads[t].phase r == Req(t) IN
  /\ threads[t] = Idle \/ IsRequest(threads[t])
  /\ since[t] \subseteq Both
  /\ phase = "token" => r[1] = WebLocal
  /\ phase \in {"count", "read", "lookup", "verify"} => r[1] \in Orgs \cup Names
  /\ phase = "org" => r[1] \in Names
  /\ phase \in {"org", "lookup", "verify"} => RowShown(t)
  /\ phase \in {"lookup", "verify"} => OrgShown(t)
  /\ phase \in Passed => since[t] = Both

ThreadsOk ==
  /\ DOMAIN threads = Threads
  /\ \A t \in Threads : ThreadOk(t)

IInv == DataTyped /\ CacheOk /\ ThreadsOk

-----------------------------------------------------------------------------
(* What a step may do to the accounts.                                     *)

\* An account stays, in its organization and of its type.
Stays == \A u \in Names :
  accts[u] # NoRow =>
    accts'[u] # NoRow /\ accts'[u].org = accts[u].org /\ accts'[u].type = accts[u].type

\* A field set in a row that is not there sets nothing.
LEMMA NoRowStays ==
  /\ \A x : [NoRow EXCEPT !.hash = x] = NoRow
  /\ \A x : [NoRow EXCEPT !.enabled = x] = NoRow
  /\ \A x : [NoRow EXCEPT !.status = x] = NoRow
BY DEF NoRow

\* What the handlers and the command line do to the tables: one account's status or
\* hash, a free name taken, an organization's row, or a new organization.
Touches ==
  \/ UNCHANGED data
  \/ \E u, v : SetStatus(u, v)
  \/ \E u, v : accts' = [accts EXCEPT ![u].hash = v] /\ UNCHANGED orgs
  \/ \E o, v : orgs' = [orgs EXCEPT ![o].hash = v] /\ UNCHANGED accts
  \/ \E o, v : orgs' = [orgs EXCEPT ![o].enabled = v] /\ UNCHANGED accts
  \/ \E u, o, h, observer :
       accts[u] = NoRow /\ SetAccount(u, NewAccount(o, h, "agent", observer))
  \/ \E o, h : Free(o) /\ Founded(o, h)

LEMMA TablesKept ==
  ASSUME DataTyped, HumanOfOrg, Touches
  PROVE  DataTyped' /\ Stays /\ HumanOfOrg'
<1> USE DEF DataTyped
<1>0. \A o \in Orgs : HumanOf[o] \in Names
  BY AccessAssumption
<1>1. CASE UNCHANGED data
  BY <1>1 DEF data, Stays, HumanOfOrg
<1>2. CASE \E u, v : SetStatus(u, v) \/ (accts' = [accts EXCEPT ![u].hash = v] /\ UNCHANGED orgs)
  <2>1. PICK u, v : \/ accts' = [accts EXCEPT ![u] = [accts[u] EXCEPT !.status = v]]
                    \/ accts' = [accts EXCEPT ![u] = [accts[u] EXCEPT !.hash = v]]
    BY <1>2 DEF SetStatus
  <2>2. orgs' = orgs /\ DOMAIN accts' = Names
    BY <1>2 DEF SetStatus
  <2>3. ASSUME NEW x \in Names
        PROVE  /\ accts[x] = NoRow => accts'[x] = NoRow
               /\ accts[x] # NoRow =>
                    /\ IsAccount(accts'[x]) /\ accts'[x] # NoRow
                    /\ accts'[x].org = accts[x].org /\ accts'[x].type = accts[x].type
    <3>1. \/ accts'[x] = accts[x] \/ accts'[x] = [accts[x] EXCEPT !.status = v]
          \/ accts'[x] = [accts[x] EXCEPT !.hash = v]
      BY <2>1
    <3>2. CASE accts[x] = NoRow
      BY <3>1, <3>2, NoRowStays
    <3>3. CASE accts[x] # NoRow
      <4>1. IsAccount(accts[x])
        BY <3>3
      <4>2. CASE accts'[x] = [accts[x] EXCEPT !.status = v]
        BY <3>3, <4>1, <4>2 DEF IsAccount, NoRow
      <4>3. CASE accts'[x] = [accts[x] EXCEPT !.hash = v]
        BY <3>3, <4>1, <4>3 DEF IsAccount, NoRow
      <4> QED
        BY <3>1, <3>3, <4>1, <4>2, <4>3
    <3> QED
      BY <3>2, <3>3
  <2> QED
    BY <1>0, <2>2, <2>3 DEF Stays, HumanOfOrg
<1>3. CASE \E o, v : /\ UNCHANGED accts
                     /\ \/ orgs' = [orgs EXCEPT ![o].hash = v]
                        \/ orgs' = [orgs EXCEPT ![o].enabled = v]
  <2>1. PICK o, v : \/ orgs' = [orgs EXCEPT ![o] = [orgs[o] EXCEPT !.hash = v]]
                    \/ orgs' = [orgs EXCEPT ![o] = [orgs[o] EXCEPT !.enabled = v]]
    BY <1>3
  <2>2. accts' = accts /\ DOMAIN orgs' = Orgs
    BY <1>3
  <2>3. \A q \in Orgs : orgs[q] = NoRow => orgs'[q] = NoRow
    BY <2>1, NoRowStays
  <2> QED
    BY <2>2, <2>3 DEF Stays, HumanOfOrg
<1>4. CASE \E u, o, h, observer :
             accts[u] = NoRow /\ SetAccount(u, NewAccount(o, h, "agent", observer))
  <2>1. PICK u, row : accts[u] = NoRow /\ accts' = [accts EXCEPT ![u] = row] /\ orgs' = orgs
                      /\ IsAccount(row)
    <3>1. PICK u, o, h, observer :
            accts[u] = NoRow /\ SetAccount(u, NewAccount(o, h, "agent", observer))
      BY <1>4
    <3>2. IsAccount(NewAccount(o, h, "agent", observer))
      BY DEF NewAccount, IsAccount
    <3> QED
      BY <3>1, <3>2 DEF SetAccount
  <2>2. \A x \in Names : accts'[x] = accts[x] \/ (accts[x] = NoRow /\ IsAccount(accts'[x]))
    BY <2>1
  <2>3. DOMAIN accts' = Names
    BY <2>1
  <2>4. \A x \in Names : accts[x] # NoRow => accts'[x] = accts[x]
    BY <2>2
  <2> QED
    BY <1>0, <2>1, <2>2, <2>3, <2>4 DEF Stays, HumanOfOrg
<1>5. CASE \E o, h : Free(o) /\ Founded(o, h)
  <2>1. PICK o, h : Free(o) /\ Founded(o, h)
    BY <1>5
  <2> DEFINE row == NewAccount(o, [of |-> "secret", salt |-> 0], "human", FALSE)
  <2>2. /\ accts[HumanOf[o]] = NoRow
        /\ accts' = [accts EXCEPT ![HumanOf[o]] = row]
        /\ orgs' = [orgs EXCEPT ![o] = [hash |-> h, enabled |-> TRUE]]
    BY <2>1 DEF Free, NameFree, Founded
  <2>3. IsAccount(row) /\ row.org = o /\ row.type = "human" /\ row # NoRow
    BY DEF NewAccount, IsAccount, NoRow
  <2> HIDE DEF row
  <2>4. DOMAIN accts' = Names /\ DOMAIN orgs' = Orgs
    BY <2>2
  <2>5. \A x \in Names : accts[x] # NoRow => accts'[x] = accts[x]
    BY <2>2
  <2>6. \A x \in Names : accts'[x] = NoRow \/ IsAccount(accts'[x])
    BY <2>2, <2>3
  <2>7. HumanOfOrg'
    <3> SUFFICES ASSUME NEW q \in Orgs, orgs'[q] # NoRow
                 PROVE  /\ accts'[HumanOf[q]] # NoRow
                        /\ accts'[HumanOf[q]].type = "human" /\ accts'[HumanOf[q]].org = q
      BY DEF HumanOfOrg
    <3>1. CASE q = o
      BY <1>0, <2>2, <2>3, <3>1
    <3>2. CASE q # o
      BY <1>0, <2>2, <2>5, <3>2 DEF HumanOfOrg
    <3> QED
      BY <3>1, <3>2
  <2> QED
    BY <2>4, <2>5, <2>6, <2>7 DEF Stays
<1> QED
  BY <1>1, <1>2, <1>3, <1>4, <1>5 DEF Touches

-----------------------------------------------------------------------------
(* The handlers: what they do to the tables, to the audit and to their      *)
(* thread.                                                                 *)

HandlerStep(t) ==
  /\ Touches /\ UNCHANGED <<cache, log>> /\ threads[t].phase \in {"run", "hashed"}
  /\ \/ Ends(t) /\ UNCHANGED done
     \/ Committed(t)
     \/ /\ UNCHANGED done
        /\ \E h : Goes(t, [threads[t] EXCEPT !.phase = "hashed", !.hash = h])

LEMMA HandlersStep ==
  ASSUME NEW t \in Threads, Handler(t)
  PROVE  HandlerStep(t)
<1> USE DEF HandlerFrame, WriteFrame, Runs, Writes, At, data
<1>0. ASSUME NEW ok, Hashes(t, ok)
      PROVE  /\ UNCHANGED <<data, cache, log, done>>
             /\ Ends(t) \/ \E h : Goes(t, [threads[t] EXCEPT !.phase = "hashed", !.hash = h])
  BY <1>0 DEF Hashes, Refused
<1>1. CASE DeactivateAgent(t) \/ ReactivateAgent(t) \/ RevokeObserver(t)
  <2>1. UNCHANGED data \/ \E u, v : SetStatus(u, v)
    BY <1>1 DEF DeactivateAgent, ReactivateAgent, RevokeObserver, Refused
  <2> QED
    BY <1>1, <2>1 DEF DeactivateAgent, ReactivateAgent, RevokeObserver, Refused,
       CommittedAlone, HandlerStep, Touches
<1>2. CASE CreateObserver(t)
  <2>1. UNCHANGED data \/ \E u, o, h, observer :
          accts[u] = NoRow /\ SetAccount(u, NewAccount(o, h, "agent", observer))
    BY <1>2 DEF CreateObserver, Refused, NameFree
  <2> QED
    BY <1>2, <2>1 DEF CreateObserver, Refused, CommittedAlone, HandlerStep, Touches
<1>3. CASE BeginCreateAgent(t) \/ BeginChangePassword(t) \/ BeginChangeOrgPassword(t)
           \/ BeginCreateOrg(t)
  <2>1. threads[t].phase = "run" /\ \E ok : Hashes(t, ok)
    BY <1>3 DEF BeginCreateAgent, BeginChangePassword, BeginChangeOrgPassword, BeginCreateOrg
  <2> QED
    BY <1>0, <2>1 DEF HandlerStep, Touches
<1>4. CASE CreateAgent(t)
  <2>1. UNCHANGED data \/ \E u, o, h, observer :
          accts[u] = NoRow /\ SetAccount(u, NewAccount(o, h, "agent", observer))
    BY <1>4 DEF CreateAgent, Refused, NameFree
  <2> QED
    BY <1>4, <2>1 DEF CreateAgent, Refused, HandlerStep, Touches
<1>5. CASE ChangePassword(t)
  BY <1>5 DEF ChangePassword, HandlerStep, Touches
<1>6. CASE ChangeOrgPassword(t)
  BY <1>6 DEF ChangeOrgPassword, HandlerStep, Touches
<1>7. CASE CreateOrg(t)
  <2>1. UNCHANGED data \/ \E o, h : Free(o) /\ Founded(o, h)
    BY <1>7 DEF CreateOrg, Refused
  <2> QED
    BY <1>7, <2>1 DEF CreateOrg, Refused, CommittedAlone, HandlerStep, Touches
<1>8. CASE DisableOrg(t)
  <2>1. UNCHANGED data
        \/ \E o, v : orgs' = [orgs EXCEPT ![o].enabled = v] /\ UNCHANGED accts
    BY <1>8 DEF DisableOrg, Refused
  <2> QED
    BY <1>8, <2>1 DEF DisableOrg, Refused, HandlerStep, Touches
<1>9. CASE Work(t) \/ Read(t)
  BY <1>9 DEF Work, Read, CommittedAlone, HandlerStep, Touches
<1> QED
  BY <1>1, <1>2, <1>3, <1>4, <1>5, <1>6, <1>7, <1>8, <1>9 DEF Handler

-----------------------------------------------------------------------------
(* Every organization has its human account.                               *)

LEMMA StepTouches ==
  ASSUME Step
  PROVE  Touches
<1>1. ASSUME NEW t \in Threads, Arrive(t) \/ Authenticates(t) \/ AuditAction(t)
      PROVE  UNCHANGED data
  BY <1>1 DEF Arrive, Authenticates, AuditAction, CheckToken, CountFailures, ReadRow, ReadOrg,
     Lookup, Verify, RecordFailure, ClearFailures
<1>2. ASSUME NEW o \in Orgs, NEW p \in Passwords, InitOrg(o, p) \/ EnableOrganization(o, p)
      PROVE  Touches
  <2>1. CASE InitOrg(o, p)
    BY <2>1 DEF InitOrg, Touches
  <2>2. CASE EnableOrganization(o, p)
    BY <2>2 DEF EnableOrganization, Touches
  <2> QED
    BY <1>2, <2>1, <2>2
<1>3. CASE Crash \/ Tick
  BY <1>3 DEF Crash, Tick, Touches
<1> QED
  BY <1>1, <1>2, <1>3, HandlersStep DEF Step, Touches, HandlerStep

\* Init gives the founding organization its human.
LEMMA InitTables == Init => DataTyped /\ HumanOfOrg
<1> SUFFICES ASSUME Init
             PROVE  DataTyped /\ HumanOfOrg
  OBVIOUS
<1>1. HumanOf[Founder] \in Names /\ HumanOf[Founder] # Agent
  BY AccessAssumption
<1>2. DOMAIN orgs = Orgs /\ DOMAIN accts = Names
  BY DEF Init
<1>3. \A o \in Orgs : orgs[o] # NoRow => o = Founder
  BY DEF Init
<1>4. accts[HumanOf[Founder]] = NewAccount(Founder, [of |-> "secret", salt |-> 0], "human", FALSE)
  BY <1>1 DEF Init
<1>5. \A u \in Names : \/ accts[u] = NoRow \/ u = HumanOf[Founder]
                       \/ accts[u] = NewAccount(Founder, First, "agent", FALSE)
  BY DEF Init
<1>6. \A u \in Names : accts[u] = NoRow \/ IsAccount(accts[u])
  BY <1>4, <1>5 DEF NewAccount, IsAccount
<1> QED
  BY <1>2, <1>3, <1>4, <1>6 DEF DataTyped, HumanOfOrg, NewAccount, NoRow

\* Whoever creates organizations, agents and observers, and whatever is closed,
\* revoked or frozen meanwhile, every organization has its human account.
THEOREM HumanCorrect == Spec => []HumanOfOrg
<1>1. Init => DataTyped /\ HumanOfOrg
  BY InitTables
<1>2. DataTyped /\ HumanOfOrg /\ [Next]_vars => (DataTyped /\ HumanOfOrg)'
  <2> SUFFICES ASSUME DataTyped, HumanOfOrg, [Next]_vars
               PROVE  (DataTyped /\ HumanOfOrg)'
    OBVIOUS
  <2>1. Touches
    BY StepTouches DEF Next, vars, Touches
  <2> QED
    BY <2>1, TablesKept
<1> QED
  BY <1>1, <1>2, PTL DEF Spec

-----------------------------------------------------------------------------
(* What a request that passes has shown.                                   *)

\* A thread that does not move keeps what it has shown.
LEMMA Others ==
  ASSUME NEW t \in Threads, ThreadOk(t), threads'[t] = threads[t], Stays, Remembers
  PROVE  ThreadOk(t)'
<1>1. since'[t] = IF threads[t] = Idle THEN {} ELSE since[t] \cup ShownBy(t)'
  BY DEF Remembers
<1>2. ShownBy(t)' \subseteq Both
  BY DEF ShownBy, Shown, Both
<1>3. CASE threads[t] = Idle
  BY <1>1, <1>3 DEF ThreadOk, Idle, Both, Passed
<1>4. CASE threads[t] # Idle
  <2>1. since[t] \subseteq since'[t] /\ since'[t] \subseteq Both
    BY <1>1, <1>2, <1>4 DEF ThreadOk
  <2>2. RowShown(t) /\ (threads[t].phase \in {"org", "lookup", "verify"}) => RowShown(t)'
    BY <2>1 DEF RowShown, Stays, Req
  <2>3. OrgShown(t) => OrgShown(t)'
    BY <2>1 DEF OrgShown, ByOrg, IsOrg, Req
  <2> QED
    BY <2>1, <2>2, <2>3 DEF ThreadOk, Req, IsRequest, Both, Passed
<1> QED
  BY <1>3, <1>4

\* A thread that goes to rec: what it has to show then.
LEMMA Moves ==
  ASSUME NEW t \in Threads, DOMAIN threads = Threads, since[t] \subseteq Both, Remembers,
         NEW rec, NEW q, rec # Idle => rec.req = q, Goes(t, rec)
  PROVE  /\ threads'[t] = rec
         /\ \A u \in Threads : u # t => threads'[u] = threads[u]
         /\ DOMAIN threads' = Threads
         /\ since'[t] \subseteq Both
         /\ rec # Idle => since[t] \subseteq since'[t] /\ Shown(q)' \subseteq since'[t]
<1>1. threads'[t] = rec /\ DOMAIN threads' = Threads
  BY DEF Goes
<1>2. since'[t] = IF rec = Idle THEN {} ELSE since[t] \cup ShownBy(t)'
  BY <1>1 DEF Remembers
<1>3. rec # Idle => ShownBy(t)' = Shown(q)'
  BY <1>1 DEF ShownBy, Shown, AccountOk, OrgOk, IsOrg
<1>4. Shown(q)' \subseteq Both
  BY DEF Shown, Both
<1> QED
  BY <1>1, <1>2, <1>3, <1>4 DEF Goes

\* The principal of a request is an organization, an account or the interface.
LEMMA Who ==
  ASSUME NEW r \in Requests
  PROVE  /\ r[1] \in Orgs \cup Names \/ r[1] = WebLocal
         /\ r[1] \in Names => r[1] \notin Orgs
         /\ r[1] \in Orgs \cup Names => r[1] # WebLocal /\ r[1] \in Keys
BY AccessAssumption DEF Principals, Keys

\* The password of the hash that is expected, or the token where it is taken,
\* shows what was left to show.
LEMMA RightShows ==
  ASSUME NEW t \in Threads, Req(t)[1] \in Orgs \cup Names, since[t] \subseteq Both,
         RowShown(t), OrgShown(t),
         Expected(t).of = Req(t)[2] \/ (ByOrg(t) /\ WebTokenMatches(Req(t)[2]))
  PROVE  since[t] = Both
<1>1. "account" \in since[t]
  BY DEF RowShown, Expected, ByOrg, IsOrg
<1>2. "organization" \in since[t]
  BY DEF OrgShown, Expected, WebTokenMatches
<1> QED
  BY <1>1, <1>2 DEF Both

\* The entry that is found is for the password of the hash that is expected.
LEMMA HitIsRight ==
  ASSUME NEW t \in Threads, CacheOk, Req(t)[1] \in Keys,
         Hit(Req(t)[1], Expected(t), Req(t)[2])
  PROVE  Expected(t).of = Req(t)[2]
BY DEF Hit, CacheOk

\* Only right passwords enter the cache.
LEMMA CacheKept ==
  ASSUME CacheOk, NEW k \in Keys, NEW hash, NEW from,
         cache' = Remember(k, hash, hash.of, from)
  PROVE  CacheOk'
<1>1. PICK kept : /\ DOMAIN kept = Keys
                  /\ \A x \in Keys : kept[x] # NoRow => kept[x] = cache[x]
                  /\ cache' = [kept EXCEPT ![k] = [hash |-> hash, digest |-> hash.of,
                                                   until |-> from + TTL]]
  BY DEF Remember, CacheOk
<1>2. DOMAIN cache' = Keys
  BY <1>1
<1>3. cache'[k].digest = cache'[k].hash.of
  BY <1>1
<1>4. \A x \in Keys : x # k /\ cache'[x] # NoRow => cache'[x] = cache[x] /\ cache[x] # NoRow
  BY <1>1
<1> QED
  BY <1>2, <1>3, <1>4 DEF CacheOk

\* The steps that come before the answer of authentication.
LEMMA AuthenticatesKeeps ==
  ASSUME NEW t \in Threads, IInv, UNCHANGED data, Remembers,
         Arrive(t) \/ Authenticates(t)
  PROVE  CacheOk' /\ ThreadOk(t)' /\ DOMAIN threads' = Threads
         /\ \A u \in Threads : u # t => threads'[u] = threads[u]
<1> DEFINE Result == CacheOk' /\ ThreadOk(t)' /\ DOMAIN threads' = Threads
                     /\ \A u \in Threads : u # t => threads'[u] = threads[u]
<1>0. /\ DOMAIN threads = Threads /\ since[t] \subseteq Both /\ CacheOk
      /\ threads[t] # Idle => IsRequest(threads[t]) /\ Req(t) \in Requests
  BY DEF IInv, ThreadsOk, ThreadOk, IsRequest, Req
\* A request that ends, or that goes on with the same row to show.
<1>q. PICK r : r = Req(t)
  OBVIOUS
<1>e. ASSUME CacheOk', Ends(t)
      PROVE  Result
  <2>1. threads'[t] = Idle
    BY <1>0, <1>e, Moves DEF Ends
  <2>2. ThreadOk(t)'
    <3>1. since'[t] \subseteq Both
      BY <1>0, <1>e, Moves DEF Ends
    <3> QED
      BY <2>1, <3>1 DEF ThreadOk, Idle, Passed
  <2> QED
    BY <1>0, <1>e, <2>2, Moves DEF Ends
\* One that goes on: what is shown by now.
<1>g. ASSUME NEW rec, NEW q, rec.req = q, IsRequest(rec), rec.phase # "idle", Goes(t, rec)
      PROVE  /\ threads'[t] = rec /\ DOMAIN threads' = Threads /\ rec # Idle
             /\ \A u \in Threads : u # t => threads'[u] = threads[u]
             /\ since[t] \subseteq since'[t] /\ since'[t] \subseteq Both
             /\ Shown(q)' \subseteq since'[t]
  <2>1. rec # Idle
    BY <1>g DEF Idle
  <2> QED
    BY <1>0, <1>g, <2>1, Moves
\* One whose new phase asks nothing more than the one it had.
<1>f. ASSUME NEW phase \in {"read", "fail", "clear", "run"}, CacheOk',
             Becomes(t, phase), threads[t] # Idle,
             phase = "read" => r[1] \in Orgs \cup Names,
             phase \in {"clear", "run"} => since'[t] = Both
      PROVE  Result
  <2>p. PICK rec : rec = [threads[t] EXCEPT !.phase = phase]
    OBVIOUS
  <2>1. IsRequest(rec) /\ rec.phase = phase /\ rec.req = r
    BY <1>0, <1>f, <1>q, <2>p DEF IsRequest, Req
  <2>2. Goes(t, rec)
    BY <1>f, <2>p DEF Becomes
  <2>3. threads'[t] = rec /\ since'[t] \subseteq Both
    BY <1>f, <1>g, <2>1, <2>2
  <2>4. ThreadOk(t)'
    BY <1>f, <2>1, <2>3 DEF ThreadOk, Req, Passed
  <2> QED
    BY <1>f, <1>g, <2>1, <2>2, <2>4
<1>1. CASE Arrive(t)
  <2>1. PICK q \in Requests :
          Goes(t, [phase |-> IF q[1] = WebLocal THEN "token" ELSE "count",
                   req |-> q, row |-> NoRow, org |-> NoRow, at |-> 0, hash |-> NoRow])
    BY <1>1 DEF Arrive
  <2> DEFINE rec == [phase |-> IF q[1] = WebLocal THEN "token" ELSE "count",
                     req |-> q, row |-> NoRow, org |-> NoRow, at |-> 0, hash |-> NoRow]
  <2>2. /\ IsRequest(rec) /\ rec.req = q
        /\ \/ (rec.phase = "token" /\ q[1] = WebLocal)
           \/ (rec.phase = "count" /\ q[1] # WebLocal)
    BY DEF IsRequest
  <2>3. Goes(t, rec)
    BY <2>1
  <2> HIDE DEF rec
  <2>4. threads'[t] = rec /\ since'[t] \subseteq Both
    BY <1>g, <2>2, <2>3
  <2>5. ThreadOk(t)'
    BY <2>2, <2>4, Who DEF ThreadOk, Req, Passed
  <2>6. CacheOk'
    BY <1>0, <1>1 DEF Arrive, CacheOk
  <2> QED
    BY <1>g, <2>2, <2>3, <2>5, <2>6
<1>a. CASE Authenticates(t)
  <2>0. /\ threads[t] # Idle
        /\ threads[t].phase \in {"token", "count", "read", "org", "lookup", "verify", "fail",
                                 "clear"}
    BY <1>a DEF Authenticates, CheckToken, CountFailures, ReadRow, ReadOrg, Lookup, Verify,
       RecordFailure, ClearFailures, At, Idle
  <2>s. ThreadOk(t) /\ IsRequest(threads[t]) /\ r \in Requests /\ r = Req(t)
    BY <1>0, <1>q, <2>0 DEF IInv, ThreadsOk
  <2>c. cache' = cache => CacheOk'
    BY <1>0 DEF CacheOk
  <2>1. CASE CheckToken(t)
    <3>1. r[1] = WebLocal /\ CacheOk'
      BY <2>1, <2>s, <2>c DEF CheckToken, At, ThreadOk
    <3>2. CASE WebTokenMatches(r[2])
      <4>1. Becomes(t, "clear")
        BY <2>1, <2>s, <3>2 DEF CheckToken
      <4>2. Shown(r)' = Both
        BY <3>1, <3>2, Who, <2>s DEF Shown, AccountOk, OrgOk, Both, WebTokenMatches
      <4>3. since'[t] = Both
        <5>p. PICK rec : rec = [threads[t] EXCEPT !.phase = "clear"]
          OBVIOUS
        <5>1. IsRequest(rec) /\ rec.phase = "clear" /\ rec.req = r
          BY <2>s, <5>p DEF IsRequest, Req
        <5>2. Goes(t, rec)
          BY <4>1, <5>p DEF Becomes
        <5> QED
          BY <1>g, <4>2, <5>1, <5>2
      <4> QED
        BY <1>f, <2>0, <3>1, <4>1, <4>3
    <3>3. CASE ~WebTokenMatches(r[2])
      <4>1. Becomes(t, "fail")
        BY <2>1, <2>s, <3>3 DEF CheckToken
      <4> QED
        BY <1>f, <2>0, <3>1, <4>1
    <3> QED
      BY <3>2, <3>3
  <2>2. CASE CountFailures(t)
    <3>1. CacheOk' /\ r[1] \in Orgs \cup Names
      BY <2>2, <2>s, <2>c DEF CountFailures, At, ThreadOk
    <3>2. Ends(t) \/ Becomes(t, "read")
      BY <2>2 DEF CountFailures
    <3> QED
      BY <1>e, <1>f, <2>0, <3>1, <3>2
  <2>3. CASE ReadRow(t)
    <3>1. CacheOk' /\ r[1] \in Orgs \cup Names
      BY <2>3, <2>s, <2>c DEF ReadRow, At, ThreadOk
    <3>2. PICK row : row = RowOf(r)
      OBVIOUS
    <3>3. CASE IsOrg(r) /\ row # NoRow /\ row.enabled
      <4>p. PICK rec : rec = [threads[t] EXCEPT !.phase = "lookup", !.org = row]
        OBVIOUS
      <4>1. IsRequest(rec) /\ rec.phase = "lookup" /\ rec.req = r /\ rec.org = row
        BY <2>s, <4>p DEF IsRequest, Req
      <4>2. Goes(t, rec)
        BY <2>3, <2>s, <3>2, <3>3, <4>p DEF ReadRow
      <4>3. /\ threads'[t] = rec /\ since'[t] \subseteq Both /\ Shown(r)' \subseteq since'[t]
        BY <1>g, <4>1, <4>2
      <4>4. r[1] \in Orgs /\ r[1] \notin Names /\ orgs[r[1]] = row
        BY <2>s, <3>2, <3>3, Who DEF IsOrg, RowOf
      <4>5. "account" \in since'[t]
        BY <4>3, <4>4 DEF Shown, AccountOk
      <4>6. row.hash.of = r[2] \/ r[2] = Token => "organization" \in since'[t]
        BY <2>s, <3>3, <4>3, <4>4, Who DEF Shown, OrgOk, IsOrg, WebTokenMatches, data
      <4>7. ThreadOk(t)'
        <5>1. RowShown(t)'
          BY <4>1, <4>3, <4>4, <4>5 DEF RowShown, Req
        <5>2. OrgShown(t)'
          BY <4>1, <4>3, <4>4, <4>6 DEF OrgShown, ByOrg, IsOrg, Req
        <5> QED
          BY <3>1, <4>1, <4>3, <5>1, <5>2 DEF ThreadOk, Req, Passed
      <4> QED
        BY <1>g, <3>1, <4>1, <4>2, <4>7
    <3>4. CASE ~IsOrg(r) /\ row # NoRow /\ row.status = "active"
      <4>p. PICK rec : rec = [threads[t] EXCEPT !.phase = "org", !.row = row]
        OBVIOUS
      <4>1. IsRequest(rec) /\ rec.phase = "org" /\ rec.req = r /\ rec.row = row
        BY <2>s, <4>p DEF IsRequest, Req
      <4>2. Goes(t, rec)
        BY <2>3, <2>s, <3>2, <3>4, <4>p DEF ReadRow
      <4>3. /\ threads'[t] = rec /\ since'[t] \subseteq Both /\ Shown(r)' \subseteq since'[t]
        BY <1>g, <4>1, <4>2
      <4>4. r[1] \in Names /\ r[1] \notin Orgs /\ accts[r[1]] = row /\ accts' = accts
        BY <2>s, <3>1, <3>2, <3>4, Who DEF IsOrg, RowOf, data
      <4>5. row.type = "human" \/ row.hash.of = r[2] => "account" \in since'[t]
        BY <3>4, <4>3, <4>4 DEF Shown, AccountOk
      <4>6. ThreadOk(t)'
        BY <3>4, <4>1, <4>3, <4>4, <4>5 DEF ThreadOk, Req, Passed, RowShown
      <4> QED
        BY <1>g, <3>1, <4>1, <4>2, <4>6
    <3>5. CASE Becomes(t, "fail")
      BY <1>f, <2>0, <3>1, <3>5
    <3> QED
      BY <2>3, <2>s, <3>2, <3>3, <3>4, <3>5 DEF ReadRow
  <2>4. CASE ReadOrg(t)
    <3>1. CacheOk' /\ r[1] \in Names /\ RowShown(t)
      BY <2>4, <2>s, <2>c DEF ReadOrg, At, ThreadOk
    <3>2. PICK org : org = orgs[threads[t].row.org]
      OBVIOUS
    <3>3. CASE org # NoRow /\ org.enabled
      <4>p. PICK rec : rec = [threads[t] EXCEPT !.phase = "lookup", !.org = org]
        OBVIOUS
      <4>1. /\ IsRequest(rec) /\ rec.phase = "lookup" /\ rec.req = r /\ rec.org = org
            /\ rec.row = threads[t].row
        BY <2>s, <4>p DEF IsRequest, Req
      <4>2. Goes(t, rec)
        BY <2>4, <3>2, <3>3, <4>p DEF ReadOrg
      <4>3. /\ threads'[t] = rec /\ since'[t] \subseteq Both /\ Shown(r)' \subseteq since'[t]
            /\ since[t] \subseteq since'[t]
        BY <1>g, <4>1, <4>2
      <4>4. /\ r[1] \in Names /\ r[1] \notin Orgs /\ accts' = accts /\ orgs' = orgs
            /\ accts[r[1]] # NoRow /\ orgs[accts[r[1]].org] = org
            /\ rec.row.type = accts[r[1]].type /\ rec.row.org = accts[r[1]].org
            /\ rec.row.type = "human" \/ rec.row.hash.of = r[2] => "account" \in since[t]
        BY <2>s, <3>1, <3>2, <4>1, Who DEF RowShown, data
      <4>5. rec.row.type # "human" \/ org.hash.of = r[2] \/ r[2] = Token
              => "organization" \in since'[t]
        <5>1. r[1] # WebLocal
          BY <2>s, <4>4, Who
        <5> QED
          BY <3>3, <4>3, <4>4, <5>1 DEF Shown, OrgOk, IsOrg, WebTokenMatches
      <4>6. ThreadOk(t)'
        <5>1. RowShown(t)'
          BY <4>1, <4>3, <4>4 DEF RowShown, Req
        <5>2. OrgShown(t)'
          BY <4>1, <4>3, <4>4, <4>5 DEF OrgShown, ByOrg, IsOrg, Req
        <5> QED
          BY <4>1, <4>3, <4>4, <5>1, <5>2 DEF ThreadOk, Req, Passed
      <4> QED
        BY <1>g, <3>1, <4>1, <4>2, <4>6
    <3>4. CASE Becomes(t, "fail")
      BY <1>f, <2>0, <3>1, <3>4
    <3> QED
      BY <2>4, <3>2, <3>3, <3>4 DEF ReadOrg
  <2>5. CASE Lookup(t)
    <3>1. /\ CacheOk' /\ r[1] \in Orgs \cup Names /\ since[t] \subseteq Both
          /\ RowShown(t) /\ OrgShown(t)
      BY <2>5, <2>s, <2>c DEF Lookup, At, ThreadOk
    <3>2. CASE Hit(Req(t)[1], Expected(t), Req(t)[2])
      <4>1. since[t] = Both
        BY <1>0, <2>s, <3>1, <3>2, Who, HitIsRight, RightShows
      <4>2. Becomes(t, "clear")
        BY <2>5, <3>2 DEF Lookup
      <4>3. since'[t] = Both
        <5>p. PICK rec : rec = [threads[t] EXCEPT !.phase = "clear"]
          OBVIOUS
        <5>1. IsRequest(rec) /\ rec.phase = "clear"
          BY <2>s, <5>p DEF IsRequest, Req
        <5> QED
          BY <1>g, <4>1, <4>2, <5>p, <5>1 DEF Becomes
      <4> QED
        BY <1>f, <2>0, <3>1, <4>2, <4>3
    <3>3. CASE Goes(t, [threads[t] EXCEPT !.phase = "verify", !.at = clock])
      <4>p. PICK rec : rec = [threads[t] EXCEPT !.phase = "verify", !.at = clock]
        OBVIOUS
      <4>1. /\ IsRequest(rec) /\ rec.phase = "verify" /\ rec.req = r /\ rec.row = threads[t].row
            /\ rec.org = threads[t].org /\ Goes(t, rec)
        BY <2>s, <3>3, <4>p DEF IsRequest, Req
      <4>2. /\ threads'[t] = rec /\ since'[t] \subseteq Both /\ since[t] \subseteq since'[t]
        BY <1>g, <4>1
      <4>3. RowShown(t)'
        BY <2>s, <3>1, <4>1, <4>2 DEF RowShown, Req, data
      <4>4. OrgShown(t)'
        BY <2>s, <3>1, <4>1, <4>2 DEF OrgShown, ByOrg, IsOrg, Req
      <4>5. ThreadOk(t)'
        BY <3>1, <4>1, <4>2, <4>3, <4>4 DEF ThreadOk, Req, Passed
      <4> QED
        BY <1>g, <3>1, <4>1, <4>5
    <3> QED
      BY <2>5, <3>2, <3>3 DEF Lookup
  <2>6. CASE Verify(t)
    <3>1. /\ r[1] \in Orgs \cup Names /\ since[t] \subseteq Both
          /\ RowShown(t) /\ OrgShown(t)
      BY <2>6, <2>s DEF Verify, At, ThreadOk
    <3>2. CacheOk'
      <4>1. CASE Expected(t).of = Req(t)[2]
        <5>1. PICK hash, from : /\ hash.of = r[2]
                                /\ cache' = Remember(r[1], hash, r[2], from)
          BY <2>6, <2>s, <4>1 DEF Verify
        <5> QED
          BY <1>0, <2>s, <3>1, <5>1, CacheKept, Who
      <4>2. CASE Expected(t).of # Req(t)[2]
        BY <2>6, <2>c, <4>2 DEF Verify
      <4> QED
        BY <4>1, <4>2
    <3>3. CASE Expected(t).of = Req(t)[2] \/ (ByOrg(t) /\ WebTokenMatches(Req(t)[2]))
      <4>1. since[t] = Both
        BY <2>s, <3>1, <3>3, RightShows
      <4>2. Becomes(t, "clear")
        BY <2>6, <3>3 DEF Verify
      <4>3. since'[t] = Both
        <5>p. PICK rec : rec = [threads[t] EXCEPT !.phase = "clear"]
          OBVIOUS
        <5>1. IsRequest(rec) /\ rec.phase = "clear"
          BY <2>s, <5>p DEF IsRequest, Req
        <5> QED
          BY <1>g, <4>1, <4>2, <5>p, <5>1 DEF Becomes
      <4> QED
        BY <1>f, <2>0, <3>2, <4>2, <4>3
    <3>4. CASE Becomes(t, "fail")
      BY <1>f, <2>0, <3>2, <3>4
    <3> QED
      BY <2>6, <3>3, <3>4 DEF Verify
  <2>7. CASE RecordFailure(t)
    BY <1>e, <2>7, <2>c DEF RecordFailure
  <2>8. CASE ClearFailures(t)
    <3>1. since[t] = Both /\ CacheOk'
      BY <2>8, <2>s, <2>c DEF ClearFailures, At, ThreadOk, Passed
    <3>2. CASE Becomes(t, "run")
      <4>1. since'[t] = Both
        <5>p. PICK rec : rec = [threads[t] EXCEPT !.phase = "run"]
          OBVIOUS
        <5>1. IsRequest(rec) /\ rec.phase = "run"
          BY <2>s, <5>p DEF IsRequest, Req
        <5> QED
          BY <1>g, <3>1, <3>2, <5>p, <5>1 DEF Becomes
      <4> QED
        BY <1>f, <2>0, <3>1, <3>2, <4>1
    <3>3. CASE Ends(t)
      BY <1>e, <3>1, <3>3
    <3> QED
      BY <2>8, <3>2, <3>3 DEF ClearFailures
  <2> QED
    BY <1>a, <2>1, <2>2, <2>3, <2>4, <2>5, <2>6, <2>7, <2>8 DEF Authenticates
<1> QED
  BY <1>1, <1>a

LEMMA InitAccess == Init => IInv
<1> SUFFICES ASSUME Init
             PROVE  IInv
  OBVIOUS
<1>1. DataTyped
  BY InitTables
<1>2. CacheOk
  BY DEF Init, CacheOk
<1>3. ThreadsOk
  BY DEF Init, ThreadsOk, ThreadOk, Idle, Passed
<1> QED
  BY <1>1, <1>2, <1>3 DEF IInv

LEMMA AccessKept ==
  ASSUME IInv, HumanOfOrg, [Next]_vars
  PROVE  IInv'
<1>0. DataTyped /\ CacheOk /\ ThreadsOk
  BY DEF IInv
<1>1. CASE UNCHANGED vars
  BY <1>0, <1>1 DEF vars, data, IInv, DataTyped, CacheOk, ThreadsOk, ThreadOk, RowShown, OrgShown,
     ByOrg, IsOrg, Req
<1>2. ASSUME Step, Remembers
      PROVE  IInv'
  <2>1. DataTyped' /\ Stays
    BY <1>0, <1>2, StepTouches, TablesKept
  \* Enough: the cache is right, and so is each thread that moved.
  <2>2. ASSUME CacheOk', DOMAIN threads' = Threads,
               \A t \in Threads : threads'[t] = threads[t] \/ ThreadOk(t)'
        PROVE  IInv'
    BY <1>0, <1>2, <2>1, <2>2, Others DEF IInv, ThreadsOk
  <2>c. cache' = cache => CacheOk'
    BY <1>0 DEF CacheOk
  <2>3. ASSUME NEW t \in Threads, Arrive(t) \/ Authenticates(t)
        PROVE  IInv'
    <3>1. UNCHANGED data
      BY <2>3 DEF Arrive, Authenticates, CheckToken, CountFailures, ReadRow, ReadOrg,
         Lookup, Verify, RecordFailure, ClearFailures
    <3> QED
      BY <1>2, <2>2, <2>3, <3>1, AuthenticatesKeeps
  <2>4. ASSUME NEW t \in Threads, Handler(t) \/ AuditAction(t)
        PROVE  IInv'
    <3>1. /\ cache' = cache /\ threads[t].phase \in Passed
          /\ \/ Ends(t) \/ Becomes(t, "audit")
             \/ \E h : Goes(t, [threads[t] EXCEPT !.phase = "hashed", !.hash = h])
      BY <2>4, HandlersStep DEF HandlerStep, AuditAction, Committed, At, Passed
    <3>2. /\ IsRequest(threads[t]) /\ since[t] = Both /\ ThreadOk(t)
          /\ DOMAIN threads = Threads
      <4>1. ThreadOk(t) /\ DOMAIN threads = Threads
        BY <1>0 DEF ThreadsOk
      <4>2. threads[t].phase \in Passed
        BY <3>1
      <4>3. threads[t] # Idle
        BY <4>2 DEF Passed, Idle
      <4> QED
        BY <4>1, <4>2, <4>3 DEF ThreadOk
    <3>3. PICK rec : /\ Goes(t, rec)
                     /\ rec = Idle \/ (IsRequest(rec) /\ rec.phase \in {"audit", "hashed"})
      <4>1. CASE Ends(t)
        BY <4>1 DEF Ends
      <4>2. CASE Becomes(t, "audit")
        <5>1. IsRequest([threads[t] EXCEPT !.phase = "audit"])
              /\ [threads[t] EXCEPT !.phase = "audit"].phase = "audit"
          BY <3>2 DEF IsRequest
        <5> QED
          BY <4>2, <5>1 DEF Becomes
      <4>3. ASSUME NEW h, Goes(t, [threads[t] EXCEPT !.phase = "hashed", !.hash = h])
            PROVE  \E rec : /\ Goes(t, rec)
                            /\ \/ rec = Idle
                               \/ (IsRequest(rec) /\ rec.phase \in {"audit", "hashed"})
        <5>p. PICK rec : rec = [threads[t] EXCEPT !.phase = "hashed", !.hash = h]
          OBVIOUS
        <5>1. IsRequest(rec) /\ rec.phase = "hashed"
          BY <3>2, <5>p DEF IsRequest
        <5> QED
          BY <4>3, <5>p, <5>1
      <4> QED
        BY <3>1, <4>1, <4>2, <4>3
    <3>4. PICK q : q = rec.req
      OBVIOUS
    <3>5. /\ threads'[t] = rec /\ DOMAIN threads' = Threads
          /\ \A u \in Threads : u # t => threads'[u] = threads[u]
          /\ since'[t] \subseteq Both /\ (rec # Idle => since[t] \subseteq since'[t])
      BY <1>2, <3>2, <3>3, <3>4, Moves
    <3>6. ThreadOk(t)'
      BY <3>2, <3>3, <3>5 DEF ThreadOk, Req, Passed, Idle, Both
    <3> QED
      BY <2>2, <2>c, <3>1, <3>5, <3>6
  <2>5. ASSUME NEW o \in Orgs, NEW p \in Passwords, InitOrg(o, p) \/ EnableOrganization(o, p)
        PROVE  IInv'
    BY <1>0, <2>2, <2>5, <2>c DEF InitOrg, EnableOrganization, CommandLine, ThreadsOk
  <2>6. CASE Crash
    <3>1. CacheOk' /\ DOMAIN threads' = Threads
      BY <2>6 DEF Crash, CacheOk
    <3>2. ASSUME NEW t \in Threads
          PROVE  ThreadOk(t)'
      <4>1. threads'[t] = Idle
        BY <2>6 DEF Crash
      <4>2. since'[t] = {}
        BY <1>2, <4>1 DEF Remembers
      <4> QED
        BY <4>1, <4>2 DEF ThreadOk, Idle, Passed
    <3> QED
      BY <2>2, <3>1, <3>2
  <2>7. CASE Tick
    BY <1>0, <2>2, <2>7, <2>c DEF Tick, ThreadsOk
  <2> QED
    BY <1>2, <2>3, <2>4, <2>5, <2>6, <2>7 DEF Step
<1> QED
  BY <1>1, <1>2 DEF Next

\* What passes authentication has shown all it has to, at some moment since the
\* request arrived, whatever other threads, the command line and crashes do
\* between the read of the account, that of the organization and the cache.
THEOREM PassedCorrect == Spec => []PassedWasValid
<1>1. Init => IInv
  BY InitAccess
<1>2. IInv /\ HumanOfOrg /\ [Next]_vars => IInv'
  BY AccessKept
<1>3. IInv => PassedWasValid
  BY DEF IInv, ThreadsOk, ThreadOk, Passed, PassedWasValid, Both
<1> QED
  BY <1>1, <1>2, <1>3, HumanCorrect, PTL DEF Spec

-----------------------------------------------------------------------------
(* The audit log: the commands that are committed and not yet audited are   *)
(* counted with the rows.                                                   *)

Auditing(r) == {t \in Threads : threads[t].phase = "audit" /\ Req(t) = r}

LogInv ==
  /\ log \in [Requests -> Int] /\ done \in [Requests -> Int]
  /\ \A r \in Requests : log[r] + Cardinality(Auditing(r)) <= done[r]

LEMMA AuditingFinite ==
  ASSUME NEW r
  PROVE  IsFiniteSet(Auditing(r)) /\ Cardinality(Auditing(r)) \in Nat
<1>1. Auditing(r) \subseteq Threads
  BY DEF Auditing
<1> QED
  BY <1>1, AccessAssumption, FS_Subset, FS_CardinalityType

\* A step that commits nothing, audits nothing and brings no thread to the audit.
LEMMA LogStays ==
  ASSUME LogInv, UNCHANGED audit, \A r \in Requests : Auditing(r)' \subseteq Auditing(r)
  PROVE  LogInv'
<1>1. \A r \in Requests : Cardinality(Auditing(r)') <= Cardinality(Auditing(r))
  BY AuditingFinite, FS_Subset
<1>2. \A r \in Requests : Cardinality(Auditing(r)') \in Nat /\ Cardinality(Auditing(r)) \in Nat
  <2> TAKE r \in Requests
  <2>1. IsFiniteSet(Auditing(r)')
    BY AuditingFinite, FS_Subset
  <2> QED
    BY <2>1, AuditingFinite, FS_CardinalityType
<1>3. log' = log /\ done' = done
  BY DEF audit
<1>4. ASSUME NEW r \in Requests
      PROVE  log'[r] + Cardinality(Auditing(r)') <= done'[r]
  BY <1>1, <1>2, <1>3, <1>4 DEF LogInv
<1> QED
  BY <1>3, <1>4 DEF LogInv

\* Those of a thread that goes to rec.
LEMMA AuditingMoves ==
  ASSUME NEW t \in Threads, DOMAIN threads = Threads, NEW rec, Goes(t, rec), NEW r
  PROVE  Auditing(r)' = {u \in Auditing(r) : u # t}
           \cup (IF rec.phase = "audit" /\ rec.req = r THEN {t} ELSE {})
BY DEF Goes, Auditing, Req

LEMMA LogKept ==
  ASSUME IInv, LogInv, [Next]_vars
  PROVE  LogInv'
<1>0. DOMAIN threads = Threads
  BY DEF IInv, ThreadsOk
<1>s. UNCHANGED <<threads, audit>> => LogInv'
  BY LogStays DEF Auditing, Req
\* A thread that ends, or goes on to something else than the audit.
<1>o. ASSUME NEW t \in Threads, NEW rec, rec.phase # "audit", Goes(t, rec), UNCHANGED audit
      PROVE  LogInv'
  <2>1. \A r \in Requests : Auditing(r)' \subseteq Auditing(r)
    BY <1>0, <1>o, AuditingMoves
  <2> QED
    BY <1>o, <2>1, LogStays
<1>e. ASSUME NEW t \in Threads, Ends(t), UNCHANGED audit
      PROVE  LogInv'
  BY <1>o, <1>e DEF Ends, Idle
<1>b. ASSUME NEW t \in Threads, NEW phase, phase # "audit", Becomes(t, phase), UNCHANGED audit,
             threads[t] # Idle
      PROVE  LogInv'
  <2>1. IsRequest(threads[t])
    BY <1>b DEF IInv, ThreadsOk, ThreadOk
  <2>2. [threads[t] EXCEPT !.phase = phase].phase = phase
    BY <2>1 DEF IsRequest
  <2> QED
    BY <1>b, <1>o, <2>2 DEF Becomes
<1>1. ASSUME NEW t \in Threads, Arrive(t)
      PROVE  LogInv'
  <2>1. PICK q : Goes(t, [phase |-> IF q[1] = WebLocal THEN "token" ELSE "count",
                          req |-> q, row |-> NoRow, org |-> NoRow, at |-> 0, hash |-> NoRow])
    BY <1>1 DEF Arrive
  <2>2. PICK rec : rec.phase # "audit" /\ Goes(t, rec)
    BY <2>1
  <2> QED
    BY <1>1, <1>o, <2>2 DEF Arrive
<1>2. ASSUME NEW t \in Threads, Authenticates(t)
      PROVE  LogInv'
  <2>0. UNCHANGED audit /\ threads[t] # Idle
    BY <1>2 DEF Authenticates, CheckToken, CountFailures, ReadRow, ReadOrg, Lookup, Verify,
       RecordFailure, ClearFailures, At, Idle
  <2>1. IsRequest(threads[t])
    BY <2>0 DEF IInv, ThreadsOk, ThreadOk
  \* What becomes of the request, the rows it has read aside.
  <2>2. \/ Ends(t) \/ \E phase : phase # "audit" /\ Becomes(t, phase)
        \/ \E row : \/ Goes(t, [threads[t] EXCEPT !.phase = "lookup", !.org = row])
                    \/ Goes(t, [threads[t] EXCEPT !.phase = "org", !.row = row])
                    \/ Goes(t, [threads[t] EXCEPT !.phase = "verify", !.at = row])
    <3>1. CASE CheckToken(t) \/ CountFailures(t) \/ RecordFailure(t) \/ ClearFailures(t)
      BY <3>1 DEF CheckToken, CountFailures, RecordFailure, ClearFailures
    <3>2. CASE ReadRow(t)
      BY <3>2 DEF ReadRow
    <3>3. CASE ReadOrg(t)
      BY <3>3 DEF ReadOrg
    <3>4. CASE Lookup(t)
      BY <3>4 DEF Lookup
    <3>5. CASE Verify(t)
      BY <3>5 DEF Verify
    <3> QED
      BY <1>2, <3>1, <3>2, <3>3, <3>4, <3>5 DEF Authenticates
  <2>3. ASSUME NEW row, \/ Goes(t, [threads[t] EXCEPT !.phase = "lookup", !.org = row])
                        \/ Goes(t, [threads[t] EXCEPT !.phase = "org", !.row = row])
                        \/ Goes(t, [threads[t] EXCEPT !.phase = "verify", !.at = row])
        PROVE  LogInv'
    <3>1. PICK a, b, c : /\ a = [threads[t] EXCEPT !.phase = "lookup", !.org = row]
                         /\ b = [threads[t] EXCEPT !.phase = "org", !.row = row]
                         /\ c = [threads[t] EXCEPT !.phase = "verify", !.at = row]
      OBVIOUS
    <3>2. a.phase # "audit" /\ b.phase # "audit" /\ c.phase # "audit"
      BY <2>1, <3>1 DEF IsRequest
    <3> QED
      BY <1>o, <2>0, <2>3, <3>1, <3>2
  <2> QED
    BY <1>b, <1>e, <2>0, <2>2, <2>3
<1>3. ASSUME NEW t \in Threads, Handler(t)
      PROVE  LogInv'
  <2>0. /\ UNCHANGED log /\ threads[t].phase \in {"run", "hashed"}
        /\ \/ Ends(t) /\ UNCHANGED done
           \/ Committed(t)
           \/ /\ UNCHANGED done
              /\ \E h : Goes(t, [threads[t] EXCEPT !.phase = "hashed", !.hash = h])
    BY <1>3, HandlersStep DEF HandlerStep
  <2>1. IsRequest(threads[t])
    <3>1. threads[t].phase \in {"run", "hashed"}
      BY <2>0
    <3>2. threads[t] # Idle
      BY <3>1 DEF Idle
    <3> QED
      BY <3>2 DEF IInv, ThreadsOk, ThreadOk
  <2>2. CASE Ends(t) /\ UNCHANGED done
    BY <1>e, <2>0, <2>2 DEF audit
  <2>3. ASSUME NEW h, UNCHANGED done,
               Goes(t, [threads[t] EXCEPT !.phase = "hashed", !.hash = h])
        PROVE  LogInv'
    <3>1. PICK rec : rec = [threads[t] EXCEPT !.phase = "hashed", !.hash = h]
      OBVIOUS
    <3>2. rec.phase # "audit"
      BY <2>1, <3>1 DEF IsRequest
    <3> QED
      BY <1>o, <2>0, <2>3, <3>1, <3>2 DEF audit
  <2>4. CASE Committed(t)
    <3>1. PICK rec : rec = [threads[t] EXCEPT !.phase = "audit"]
      OBVIOUS
    <3>2. rec.phase = "audit" /\ rec.req = Req(t) /\ Req(t) \in Requests
      BY <2>1, <3>1 DEF IsRequest, Req
    <3>3. Goes(t, rec) /\ done' = [done EXCEPT ![Req(t)] = @ + 1]
      BY <2>4, <3>1 DEF Committed, Becomes
    <3>4. \A r : t \notin Auditing(r)
      <4>1. threads[t].phase # "audit"
        BY <2>0
      <4> QED
        BY <4>1 DEF Auditing
    <3>5. PICK q : q = Req(t)
      OBVIOUS
    <3>6. ASSUME NEW r \in Requests
          PROVE  log'[r] + Cardinality(Auditing(r)') <= done'[r]
      <4>1. CASE r = q
        <5>1. Auditing(r)' = Auditing(r) \cup {t}
          BY <1>0, <3>2, <3>3, <3>4, <3>5, <4>1, AuditingMoves
        <5>2. Cardinality(Auditing(r)') = Cardinality(Auditing(r)) + 1
          BY <3>4, <5>1, AuditingFinite, FS_AddElement
        <5>3. done'[r] = done[r] + 1 /\ log'[r] = log[r]
          BY <2>0, <3>3, <3>5, <4>1 DEF LogInv
        <5> QED
          BY <5>2, <5>3, AuditingFinite DEF LogInv
      <4>2. CASE r # q
        <5>1. Auditing(r)' = Auditing(r)
          BY <1>0, <3>2, <3>3, <3>4, <3>5, <4>2, AuditingMoves
        <5>2. done'[r] = done[r] /\ log'[r] = log[r]
          BY <2>0, <3>3, <3>5, <4>2 DEF LogInv
        <5> QED
          BY <5>1, <5>2, AuditingFinite DEF LogInv
      <4> QED
        BY <4>1, <4>2
    <3>7. log' \in [Requests -> Int] /\ done' \in [Requests -> Int]
      <4>1. log' = log
        BY <2>0
      <4>2. done' = [done EXCEPT ![q] = done[q] + 1] /\ q \in Requests
        BY <3>2, <3>3, <3>5
      <4> QED
        BY <4>1, <4>2 DEF LogInv
    <3> QED
      BY <3>6, <3>7 DEF LogInv
  <2> QED
    BY <2>0, <2>2, <2>3, <2>4
<1>4. ASSUME NEW t \in Threads, AuditAction(t)
      PROVE  LogInv'
  <2>0. /\ threads[t].phase = "audit" /\ Goes(t, Idle) /\ done' = done
        /\ log' = [log EXCEPT ![Req(t)] = @ + 1]
    BY <1>4 DEF AuditAction, At, Ends
  <2>1. Req(t) \in Requests
    <3>1. threads[t] # Idle
      BY <2>0 DEF Idle
    <3> QED
      BY <3>1 DEF IInv, ThreadsOk, ThreadOk, IsRequest, Req
  <2>2. PICK q : q = Req(t)
    OBVIOUS
  <2>3. \A r : Auditing(r)' = Auditing(r) \ {t}
    BY <1>0, <2>0, AuditingMoves DEF Idle
  <2>4. ASSUME NEW r \in Requests
        PROVE  log'[r] + Cardinality(Auditing(r)') <= done'[r]
    <3>1. CASE r = q
      <4>1. t \in Auditing(r)
        BY <2>0, <2>2, <3>1 DEF Auditing
      <4>2. Cardinality(Auditing(r)') = Cardinality(Auditing(r)) - 1
        BY <2>3, <4>1, AuditingFinite, FS_RemoveElement
      <4>3. log'[r] = log[r] + 1
        BY <2>0, <2>2, <3>1 DEF LogInv
      <4> QED
        BY <2>0, <4>2, <4>3, AuditingFinite DEF LogInv
    <3>2. CASE r # q
      <4>1. Auditing(r)' = Auditing(r)
        BY <2>2, <2>3, <3>2 DEF Auditing
      <4>2. log'[r] = log[r]
        BY <2>0, <2>2, <3>2 DEF LogInv
      <4> QED
        BY <2>0, <4>1, <4>2, AuditingFinite DEF LogInv
    <3> QED
      BY <3>1, <3>2
  <2>5. log' \in [Requests -> Int] /\ done' \in [Requests -> Int]
    BY <2>0, <2>1 DEF LogInv
  <2> QED
    BY <2>4, <2>5 DEF LogInv
<1>5. ASSUME NEW o \in Orgs, NEW p \in Passwords, InitOrg(o, p) \/ EnableOrganization(o, p)
      PROVE  LogInv'
  BY <1>5, <1>s DEF InitOrg, EnableOrganization, CommandLine
<1>6. CASE Crash
  <2>1. \A r \in Requests : Auditing(r)' = {}
    BY <1>6 DEF Crash, Auditing, Idle
  <2> QED
    BY <1>6, <2>1, LogStays DEF Crash
<1>7. CASE Tick \/ UNCHANGED vars
  BY <1>7, <1>s DEF Tick, vars
<1> QED
  BY <1>1, <1>2, <1>3, <1>4, <1>5, <1>6, <1>7 DEF Next, Step

\* The audit log never has a command that was not committed, though its rows are
\* written in transactions of their own, by threads that a crash may stop between.
THEOREM AuditCorrect == Spec => []AuditOfCommitted
<1>1. Init => LogInv
  <2> SUFFICES ASSUME Init
               PROVE  LogInv
    OBVIOUS
  <2>1. \A r : Auditing(r) = {}
    BY DEF Init, Auditing, Idle
  <2>2. \A r : Cardinality(Auditing(r)) = 0
    BY <2>1, FS_EmptySet
  <2>3. log = [r \in Requests |-> 0] /\ done = [r \in Requests |-> 0]
    BY DEF Init
  <2> QED
    BY <2>2, <2>3 DEF LogInv
<1>2. LogInv /\ IInv /\ [Next]_vars => LogInv'
  BY LogKept
<1>3. LogInv => AuditOfCommitted
  BY AuditingFinite DEF LogInv, AuditOfCommitted
<1>4. Init => IInv
  BY InitAccess
<1>5. IInv /\ HumanOfOrg /\ [Next]_vars => IInv'
  BY AccessKept
<1> QED
  BY <1>1, <1>2, <1>3, <1>4, <1>5, HumanCorrect, PTL DEF Spec

-----------------------------------------------------------------------------
(* The limit of failures: what is counted, with the requests that were let  *)
(* past the count and have not had their answer.                            *)

Counted == {"read", "org", "lookup", "verify", "fail"}
Past(k) == {t \in Threads : threads[t].phase \in Counted /\ Req(t)[1] = k}

FailuresTyped == clock \in 0..MaxClock /\ failures \in [Keys -> [0..MaxClock -> Nat]]

Limited(k) ==
  /\ IsFiniteSet(Recent(failures, k))
  /\ CountRecent(failures, k) + Cardinality(Past(k)) <= Max + Cardinality(Threads) - 1

FailInv == FailuresTyped /\ \A k \in Orgs \cup Names : Limited(k)

\* The rows that count are those of a date in the window, up to their number.
LEMMA RecentRows ==
  ASSUME NEW rows, NEW k
  PROVE  /\ \A x \in Recent(rows, k) : x = <<x[1], x[2]>>
         /\ \A d, i : <<d, i>> \in Recent(rows, k) <=>
              d \in 0..MaxClock /\ d >= clock - Window /\ i \in 1..rows[k][d]
BY DEF Recent

LEMMA PastFinite ==
  ASSUME NEW k
  PROVE  /\ IsFiniteSet(Past(k)) /\ Cardinality(Past(k)) \in Nat
         /\ IsFiniteSet(Past(k)') /\ Cardinality(Past(k)') \in Nat
         /\ Cardinality(Threads) \in Nat
         /\ Cardinality(Past(k)) <= Cardinality(Threads)
         /\ Cardinality(Past(k)') <= Cardinality(Threads)
<1>1. Past(k) \subseteq Threads /\ Past(k)' \subseteq Threads
  BY DEF Past
<1> QED
  BY <1>1, AccessAssumption, FS_Subset, FS_CardinalityType

\* No more rows and no more requests: as many at most.
LEMMA NoMore ==
  ASSUME NEW k, Limited(k), Recent(failures, k)' \subseteq Recent(failures, k),
         Past(k)' \subseteq Past(k)
  PROVE  Limited(k)'
<1>1. IsFiniteSet(Recent(failures, k)) /\ IsFiniteSet(Recent(failures, k)')
      /\ Cardinality(Recent(failures, k)') <= Cardinality(Recent(failures, k))
  BY FS_Subset DEF Limited
<1>2. Cardinality(Recent(failures, k)') \in Nat /\ Cardinality(Recent(failures, k)) \in Nat
  BY <1>1, FS_CardinalityType
<1>3. Cardinality(Past(k)') <= Cardinality(Past(k))
  BY PastFinite, FS_Subset
<1>4. \A a, b, c, d, m, n \in Nat : a <= b /\ c <= d /\ b + d <= m + n - 1 => a + c <= m + n - 1
  OBVIOUS
<1>5. Max \in Nat
  BY AccessAssumption
<1>6. Cardinality(Recent(failures, k)) + Cardinality(Past(k)) <= Max + Cardinality(Threads) - 1
  BY DEF Limited, CountRecent
<1>7. Cardinality(Recent(failures, k)') + Cardinality(Past(k)') <= Max + Cardinality(Threads) - 1
  BY <1>2, <1>3, <1>1, <1>4, <1>5, <1>6, PastFinite
<1> QED
  BY <1>1, <1>7 DEF Limited, CountRecent

\* The rows that are left by prune, by the clock and by nothing at all.
LEMMA WindowSlides ==
  ASSUME FailuresTyped, clock' \in Int, clock <= clock', failures' \in {failures, Pruned}
  PROVE  \A k \in Keys : Recent(failures, k)' \subseteq Recent(failures, k)
<1> SUFFICES ASSUME NEW k \in Keys, NEW x \in Recent(failures, k)'
             PROVE  x \in Recent(failures, k)
  OBVIOUS
<1>1. PICK d, i : /\ x = <<d, i>> /\ d \in 0..MaxClock /\ d >= clock' - Window
                  /\ i \in 1..failures'[k][d]
  BY DEF Recent
<1>2. clock \in Int /\ Window \in Int /\ d \in Int
  BY <1>1, AccessAssumption DEF FailuresTyped
<1>3. d >= clock - Window
  <2>1. \A a, b, w, e \in Int : a <= b /\ e >= b - w => e >= a - w
    OBVIOUS
  <2> QED
    BY <1>1, <1>2, <2>1
<1>4. failures'[k][d] = failures[k][d]
  <2>1. Pruned[k][d] = failures[k][d]
    BY <1>1, <1>2, <1>3 DEF Pruned
  <2> QED
    BY <2>1
<1> QED
  BY <1>1, <1>3, <1>4, RecentRows

\* prune counts what the window had.
LEMMA PruneKeeps ==
  ASSUME FailuresTyped, NEW k \in Keys
  PROVE  Recent(Pruned, k) = Recent(failures, k)
<1>1. clock \in Int /\ Window \in Int
  BY AccessAssumption DEF FailuresTyped
<1>2. \A d \in 0..MaxClock : d >= clock - Window => Pruned[k][d] = failures[k][d]
  BY <1>1 DEF Pruned
<1>3. \A d, i : <<d, i>> \in Recent(Pruned, k) <=> <<d, i>> \in Recent(failures, k)
  BY <1>2, RecentRows
<1>4. \A x \in Recent(Pruned, k) : x \in Recent(failures, k)
  <2> TAKE x \in Recent(Pruned, k)
  <2>1. x = <<x[1], x[2]>>
    BY RecentRows
  <2> QED
    BY <1>3, <2>1
<1>5. \A x \in Recent(failures, k) : x \in Recent(Pruned, k)
  <2> TAKE x \in Recent(failures, k)
  <2>1. x = <<x[1], x[2]>>
    BY RecentRows
  <2> QED
    BY <1>3, <2>1
<1> QED
  BY <1>4, <1>5

\* Pruned rows, one row more and no rows are rows.
LEMMA RowsTyped ==
  ASSUME FailuresTyped
  PROVE  /\ Pruned \in [Keys -> [0..MaxClock -> Nat]]
         /\ \A k : [failures EXCEPT ![k][clock] = @ + 1] \in [Keys -> [0..MaxClock -> Nat]]
         /\ \A k : [failures EXCEPT ![k] = [d \in 0..MaxClock |-> 0]]
                     \in [Keys -> [0..MaxClock -> Nat]]
<1> USE DEF FailuresTyped
<1>1. Pruned \in [Keys -> [0..MaxClock -> Nat]]
  BY DEF Pruned
<1>2. ASSUME NEW k
      PROVE  [failures EXCEPT ![k][clock] = @ + 1] \in [Keys -> [0..MaxClock -> Nat]]
  <2>1. k \in Keys => [failures[k] EXCEPT ![clock] = failures[k][clock] + 1] \in [0..MaxClock -> Nat]
    <3> SUFFICES ASSUME k \in Keys
                 PROVE  [failures[k] EXCEPT ![clock] = failures[k][clock] + 1]
                          \in [0..MaxClock -> Nat]
      OBVIOUS
    <3>1. failures[k] \in [0..MaxClock -> Nat]
      OBVIOUS
    <3>2. failures[k][clock] + 1 \in Nat
      BY <3>1
    <3> QED
      BY <3>1, <3>2
  <2>2. [failures EXCEPT ![k] = [failures[k] EXCEPT ![clock] = failures[k][clock] + 1]]
          \in [Keys -> [0..MaxClock -> Nat]]
    BY <2>1
  <2> QED
    BY <2>2
<1>3. \A k : [failures EXCEPT ![k] = [d \in 0..MaxClock |-> 0]] \in [Keys -> [0..MaxClock -> Nat]]
  OBVIOUS
<1> QED
  BY <1>1, <1>2, <1>3

LEMMA PastMoves ==
  ASSUME NEW t \in Threads, DOMAIN threads = Threads, NEW rec, Goes(t, rec), NEW k
  PROVE  Past(k)' = {u \in Past(k) : u # t}
           \cup (IF rec.phase \in Counted /\ rec.req[1] = k THEN {t} ELSE {})
BY DEF Goes, Past, Req

\* A handler leaves the clock and the failures alone.
LEMMA HandlersFrame ==
  ASSUME NEW t \in Threads, Handler(t)
  PROVE  UNCHANGED <<clock, failures>>
<1> USE DEF HandlerFrame
<1>1. \A ok : Hashes(t, ok) => UNCHANGED <<clock, failures>>
  BY DEF Hashes
<1>2. CASE BeginCreateAgent(t) \/ BeginChangePassword(t) \/ BeginChangeOrgPassword(t)
           \/ BeginCreateOrg(t)
  BY <1>1, <1>2 DEF BeginCreateAgent, BeginChangePassword, BeginChangeOrgPassword, BeginCreateOrg
<1>3. CASE DeactivateAgent(t) \/ ReactivateAgent(t) \/ RevokeObserver(t) \/ CreateObserver(t)
  BY <1>3 DEF DeactivateAgent, ReactivateAgent, RevokeObserver, CreateObserver
<1>4. CASE \/ CreateAgent(t) \/ ChangePassword(t) \/ ChangeOrgPassword(t) \/ CreateOrg(t)
           \/ DisableOrg(t) \/ Work(t) \/ Read(t)
  BY <1>4 DEF WriteFrame, CreateAgent, ChangePassword, ChangeOrgPassword, CreateOrg, DisableOrg,
     Work, Read
<1> QED
  BY <1>2, <1>3, <1>4 DEF Handler

LEMMA FailuresKept ==
  ASSUME IInv, FailInv, [Next]_vars
  PROVE  FailInv'
<1>0. /\ DOMAIN threads = Threads /\ FailuresTyped
      /\ \A k \in Orgs \cup Names : k \in Keys
      /\ Max \in Nat \ {0}
  BY AccessAssumption DEF IInv, ThreadsOk, FailInv, Keys, Principals
\* The window slides, and no request is let past the count.
<1>s. ASSUME clock' \in 0..MaxClock, clock <= clock', failures' \in {failures, Pruned},
             \A k \in Orgs \cup Names : Past(k)' \subseteq Past(k)
      PROVE  FailInv'
  <2>1. \A k \in Keys : Recent(failures, k)' \subseteq Recent(failures, k)
    BY <1>0, <1>s, WindowSlides
  <2>2. FailuresTyped'
    BY <1>0, <1>s, RowsTyped DEF FailuresTyped
  <2>3. \A k \in Orgs \cup Names : Limited(k)'
    <3> TAKE k \in Orgs \cup Names
    <3>1. /\ Limited(k) /\ Recent(failures, k)' \subseteq Recent(failures, k)
          /\ Past(k)' \subseteq Past(k)
      BY <1>0, <1>s, <2>1 DEF FailInv
    <3> QED
      BY <3>1, NoMore
  <2> QED
    BY <2>2, <2>3 DEF FailInv
<1>u. clock' = clock => clock' \in 0..MaxClock /\ clock <= clock'
  BY <1>0 DEF FailuresTyped
\* A thread that was past the count already, or goes on to where nothing is counted.
<1>o. ASSUME NEW t \in Threads, NEW rec, Goes(t, rec), UNCHANGED <<clock, failures>>,
             \/ rec.phase \notin Counted
             \/ rec.req[1] \notin Orgs \cup Names
             \/ rec.req = Req(t) /\ threads[t].phase \in Counted
      PROVE  FailInv'
  <2>1. \A k \in Orgs \cup Names : Past(k)' \subseteq Past(k)
    <3> TAKE k \in Orgs \cup Names
    <3>1. Past(k)' = {u \in Past(k) : u # t}
            \cup (IF rec.phase \in Counted /\ rec.req[1] = k THEN {t} ELSE {})
      BY <1>0, <1>o, PastMoves
    <3>2. rec.phase \in Counted /\ rec.req[1] = k => t \in Past(k)
      BY <1>o DEF Past
    <3> QED
      BY <3>1, <3>2
  <2> QED
    BY <1>o, <1>s, <1>u, <2>1
<1>e. ASSUME NEW t \in Threads, Ends(t), UNCHANGED <<clock, failures>>
      PROVE  FailInv'
  <2>1. Idle.phase \notin Counted
    BY DEF Idle, Counted
  <2> QED
    BY <1>o, <1>e, <2>1 DEF Ends
<1>b. ASSUME NEW t \in Threads, NEW phase, Becomes(t, phase), UNCHANGED <<clock, failures>>,
             IsRequest(threads[t]),
             \/ phase \notin Counted
             \/ Req(t)[1] \notin Orgs \cup Names
             \/ threads[t].phase \in Counted
      PROVE  FailInv'
  <2>1. PICK rec : rec = [threads[t] EXCEPT !.phase = phase]
    OBVIOUS
  <2>2. rec.phase = phase /\ rec.req = Req(t)
    BY <1>b, <2>1 DEF IsRequest, Req
  <2> QED
    BY <1>b, <1>o, <2>1, <2>2 DEF Becomes
<1>1. ASSUME NEW t \in Threads, Arrive(t)
      PROVE  FailInv'
  <2>1. PICK q : Goes(t, [phase |-> IF q[1] = WebLocal THEN "token" ELSE "count",
                          req |-> q, row |-> NoRow, org |-> NoRow, at |-> 0, hash |-> NoRow])
    BY <1>1 DEF Arrive
  <2>2. PICK rec : rec.phase \in {"token", "count"} /\ Goes(t, rec)
    BY <2>1
  <2>3. rec.phase \notin Counted
    BY <2>2 DEF Counted
  <2> QED
    BY <1>1, <1>o, <2>2, <2>3 DEF Arrive
<1>2. ASSUME NEW t \in Threads, Authenticates(t)
      PROVE  FailInv'
  <2>0. threads[t] # Idle
    BY <1>2 DEF Authenticates, CheckToken, CountFailures, ReadRow, ReadOrg, Lookup, Verify,
       RecordFailure, ClearFailures, At, Idle
  <2>1. IsRequest(threads[t]) /\ ThreadOk(t)
    BY <2>0 DEF IInv, ThreadsOk, ThreadOk
  <2>2. CASE CheckToken(t)
    <3>1. Req(t)[1] = WebLocal
      BY <2>1, <2>2 DEF CheckToken, At, ThreadOk
    <3>2. Req(t)[1] \notin Orgs \cup Names
      BY <3>1, AccessAssumption
    <3>3. Becomes(t, "clear") \/ Becomes(t, "fail")
      BY <2>2 DEF CheckToken
    <3> QED
      BY <1>b, <2>1, <2>2, <3>2, <3>3 DEF CheckToken
  \* Who is let past the count, with less than the maximum before it.
  <2>3. CASE CountFailures(t)
    <3>0. failures' = Pruned /\ clock' = clock
      BY <2>3 DEF CountFailures
    <3>1. CASE Ends(t)
      <4>1. \A k \in Orgs \cup Names : Past(k)' \subseteq Past(k)
        BY <1>0, <3>1, PastMoves DEF Ends, Idle, Counted
      <4> QED
        BY <1>s, <1>u, <3>0, <4>1
    <3>2. CASE ~Locked(Pruned, Req(t)[1]) /\ Becomes(t, "read")
      <4>1. PICK rec : rec = [threads[t] EXCEPT !.phase = "read"]
        OBVIOUS
      <4>2. rec.phase = "read" /\ rec.req = Req(t) /\ Goes(t, rec)
        BY <2>1, <3>2, <4>1 DEF IsRequest, Req, Becomes
      <4>3. ASSUME NEW k \in Orgs \cup Names
            PROVE  Limited(k)'
        <5>0. Limited(k) /\ k \in Keys
          BY <1>0 DEF FailInv
        <5>1. Recent(failures, k)' = Recent(Pruned, k)
          BY <3>0 DEF Recent
        <5>2. Recent(Pruned, k) = Recent(failures, k)
          BY <1>0, <5>0, PruneKeeps
        <5>3. CASE k = Req(t)[1]
          <6>1. ~(CountRecent(Pruned, k) >= Max)
            BY <3>2, <5>3 DEF Locked
          <6>2. IsFiniteSet(Recent(failures, k)') /\ ~(Cardinality(Recent(failures, k)') >= Max)
            BY <5>0, <5>1, <5>2, <6>1 DEF Limited, CountRecent
          <6>3. Cardinality(Recent(failures, k)') \in Nat
            BY <6>2, FS_CardinalityType
          <6>4. \A a, b, m, n \in Nat : ~(a >= m) /\ b <= n => a + b <= m + n - 1
            OBVIOUS
          <6>5. Cardinality(Recent(failures, k)') + Cardinality(Past(k)')
                  <= Max + Cardinality(Threads) - 1
            BY <1>0, <6>2, <6>3, <6>4, PastFinite
          <6> QED
            BY <6>2, <6>5 DEF Limited, CountRecent
        <5>4. CASE k # Req(t)[1]
          <6>1. Past(k)' \subseteq Past(k)
            BY <1>0, <4>2, <5>4, PastMoves
          <6> QED
            BY <5>0, <5>1, <5>2, <6>1, NoMore
        <5> QED
          BY <5>3, <5>4
      <4>4. FailuresTyped'
        BY <1>0, <3>0, RowsTyped DEF FailuresTyped
      <4> QED
        BY <4>3, <4>4 DEF FailInv
    <3> QED
      BY <2>3, <3>1, <3>2 DEF CountFailures
  \* A request that goes on to read and verify is past the count already.
  <2>4. CASE ReadRow(t) \/ ReadOrg(t) \/ Lookup(t) \/ Verify(t)
    <3>0. UNCHANGED <<clock, failures>> /\ threads[t].phase \in Counted
      BY <2>4 DEF ReadRow, ReadOrg, Lookup, Verify, At, Counted
    <3>1. \/ \E phase : Becomes(t, phase)
          \/ \E row : \/ Goes(t, [threads[t] EXCEPT !.phase = "lookup", !.org = row])
                      \/ Goes(t, [threads[t] EXCEPT !.phase = "org", !.row = row])
                      \/ Goes(t, [threads[t] EXCEPT !.phase = "verify", !.at = row])
      <4>1. CASE ReadRow(t)
        BY <4>1 DEF ReadRow
      <4>2. CASE ReadOrg(t)
        BY <4>2 DEF ReadOrg
      <4>3. CASE Lookup(t)
        BY <4>3 DEF Lookup
      <4>4. CASE Verify(t)
        BY <4>4 DEF Verify
      <4> QED
        BY <2>4, <4>1, <4>2, <4>3, <4>4
    <3>2. ASSUME NEW row, \/ Goes(t, [threads[t] EXCEPT !.phase = "lookup", !.org = row])
                          \/ Goes(t, [threads[t] EXCEPT !.phase = "org", !.row = row])
                          \/ Goes(t, [threads[t] EXCEPT !.phase = "verify", !.at = row])
          PROVE  FailInv'
      <4>1. PICK a, b, c : /\ a = [threads[t] EXCEPT !.phase = "lookup", !.org = row]
                           /\ b = [threads[t] EXCEPT !.phase = "org", !.row = row]
                           /\ c = [threads[t] EXCEPT !.phase = "verify", !.at = row]
        OBVIOUS
      <4>2. a.req = Req(t) /\ b.req = Req(t) /\ c.req = Req(t)
        BY <2>1, <4>1 DEF IsRequest, Req
      <4> QED
        BY <1>o, <3>0, <3>2, <4>1, <4>2
    <3> QED
      BY <1>b, <2>1, <3>0, <3>1, <3>2
  \* One that has its answer: a row more, and a request less.
  <2>5. CASE RecordFailure(t)
    <3>0. /\ clock' = clock /\ Goes(t, Idle) /\ threads[t].phase = "fail"
          /\ failures' = [failures EXCEPT ![Req(t)[1]][clock] = @ + 1]
      BY <2>5 DEF RecordFailure, At, Ends
    <3>1. PICK q : q = Req(t)[1]
      OBVIOUS
    <3>2. failures' = [failures EXCEPT ![q] = [failures[q] EXCEPT ![clock] = failures[q][clock] + 1]]
      BY <3>0, <3>1
    <3>3. FailuresTyped'
      BY <1>0, <1>u, <3>0, RowsTyped DEF FailuresTyped
    <3>4. ASSUME NEW k \in Orgs \cup Names
          PROVE  Limited(k)'
      <4>0. Limited(k) /\ k \in Keys
        BY <1>0 DEF FailInv
      <4>p. Past(k)' = Past(k) \ {t}
        BY <1>0, <3>0, PastMoves DEF Idle, Counted
      <4>1. CASE k = q
        <5>0. PICK n : n = failures[k][clock] + 1
          OBVIOUS
        <5>1. /\ failures[k] \in [0..MaxClock -> Nat] /\ clock \in 0..MaxClock
              /\ failures' \in [Keys -> [0..MaxClock -> Nat]]
          BY <1>0, <3>3, <4>0 DEF FailuresTyped
        <5>2. failures'[k] = [failures[k] EXCEPT ![clock] = n]
          BY <1>0, <3>2, <4>0, <4>1, <5>0 DEF FailuresTyped
        <5>3. Recent(failures, k)' = Recent(failures, k) \cup {<<clock, n>>}
          <6>1. clock >= clock - Window /\ n \in Nat \ {0}
            BY <5>0, <5>1, AccessAssumption
          <6>2. \A d \in 0..MaxClock : \A i : i \in 1..failures'[k][d] <=>
                  i \in 1..failures[k][d] \/ (d = clock /\ i = n)
            <7>1. \A d \in 0..MaxClock : d # clock => failures'[k][d] = failures[k][d]
              BY <5>1, <5>2
            <7>2. failures'[k][clock] = n /\ failures[k][clock] \in Nat
              BY <5>1, <5>2
            <7>3. \A i : i \in 1..n <=> i \in 1..failures[k][clock] \/ i = n
              BY <5>0, <7>2
            <7> QED
              BY <7>1, <7>2, <7>3
          <6>3. \A d, i : <<d, i>> \in Recent(failures, k)' <=>
                  d \in 0..MaxClock /\ d >= clock - Window /\ i \in 1..failures'[k][d]
            BY <3>0 DEF Recent
          <6>4. \A d, i : <<d, i>> \in Recent(failures, k)' <=>
                  <<d, i>> \in Recent(failures, k) \/ (d = clock /\ i = n)
            BY <5>1, <6>1, <6>2, <6>3, RecentRows
          <6>5. \A x \in Recent(failures, k)' : x = <<x[1], x[2]>>
            BY DEF Recent
          <6>6. \A x \in Recent(failures, k)' : x \in Recent(failures, k) \cup {<<clock, n>>}
            <7> TAKE x \in Recent(failures, k)'
            <7> QED
              BY <6>4, <6>5
          <6>7. \A x \in Recent(failures, k) : x \in Recent(failures, k)'
            <7> TAKE x \in Recent(failures, k)
            <7>1. x = <<x[1], x[2]>>
              BY RecentRows
            <7> QED
              BY <6>4, <7>1
          <6> QED
            BY <6>4, <6>6, <6>7
        <5>4. <<clock, n>> \notin Recent(failures, k)
          <6>1. n \notin 1..failures[k][clock]
            <7>1. failures[k][clock] \in Nat
              BY <5>1
            <7> QED
              BY <5>0, <7>1
          <6> QED
            BY <6>1, RecentRows
        <5>5. /\ IsFiniteSet(Recent(failures, k)')
              /\ Cardinality(Recent(failures, k)') = Cardinality(Recent(failures, k)) + 1
          BY <4>0, <5>3, <5>4, FS_AddElement DEF Limited
        <5>6. t \in Past(k)
          BY <3>0, <3>1, <4>1 DEF Past, Counted
        <5>7. Cardinality(Past(k)') = Cardinality(Past(k)) - 1
          BY <4>p, <5>6, PastFinite, FS_RemoveElement
        <5>8. Cardinality(Recent(failures, k)) \in Nat
          BY <4>0, FS_CardinalityType DEF Limited
        <5>9. Cardinality(Recent(failures, k)') + Cardinality(Past(k)')
                = Cardinality(Recent(failures, k)) + Cardinality(Past(k))
          <6>1. \A a, b, c, d \in Int : a = c + 1 /\ b = d - 1 => a + b = c + d
            OBVIOUS
          <6>2. /\ Cardinality(Recent(failures, k)') \in Int /\ Cardinality(Past(k)') \in Int
                /\ Cardinality(Recent(failures, k)) \in Int /\ Cardinality(Past(k)) \in Int
            BY <5>5, <5>7, <5>8, PastFinite
          <6> QED
            BY <5>5, <5>7, <6>1, <6>2
        <5> QED
          BY <4>0, <5>5, <5>9 DEF Limited, CountRecent
      <4>2. CASE k # q
        <5>1. failures'[k] = failures[k]
          BY <1>0, <3>2, <4>0, <4>2 DEF FailuresTyped
        <5>2. Recent(failures, k)' = Recent(failures, k)
          BY <3>0, <5>1 DEF Recent
        <5> QED
          BY <4>0, <4>p, <5>2, NoMore
      <4> QED
        BY <4>1, <4>2
    <3> QED
      BY <3>3, <3>4 DEF FailInv
  <2>6. CASE ClearFailures(t)
    <3>0. /\ clock' = clock /\ threads[t].phase = "clear"
          /\ failures' = [failures EXCEPT ![Req(t)[1]] = [d \in 0..MaxClock |-> 0]]
      BY <2>6 DEF ClearFailures, At
    <3>1. PICK q : q = Req(t)[1]
      OBVIOUS
    <3>2. FailuresTyped'
      BY <1>0, <1>u, <3>0, RowsTyped DEF FailuresTyped
    <3>3. PICK rec : Goes(t, rec) /\ rec.phase \notin Counted
      <4>1. [threads[t] EXCEPT !.phase = "run"].phase = "run"
        BY <2>1 DEF IsRequest
      <4>2. "run" \notin Counted /\ Idle.phase \notin Counted
        BY DEF Counted, Idle
      <4> QED
        BY <2>6, <4>1, <4>2 DEF ClearFailures, Ends, Becomes
    <3>4. ASSUME NEW k \in Orgs \cup Names
          PROVE  Limited(k)'
      <4>0. Limited(k) /\ k \in Keys
        BY <1>0 DEF FailInv
      <4>1. Past(k)' \subseteq Past(k)
        BY <1>0, <3>3, PastMoves
      <4>2. \A d \in 0..MaxClock : failures'[k][d] = failures[k][d] \/ failures'[k][d] = 0
        BY <1>0, <3>0, <3>1, <4>0 DEF FailuresTyped
      <4>3. Recent(failures, k)' \subseteq Recent(failures, k)
        <5>1. \A i : i \notin 1..0
          OBVIOUS
        <5>2. \A d \in 0..MaxClock : \A i \in 1..failures'[k][d] : i \in 1..failures[k][d]
          BY <4>2, <5>1
        <5> QED
          BY <3>0, <5>2 DEF Recent
      <4> QED
        BY <4>0, <4>1, <4>3, NoMore
    <3> QED
      BY <3>2, <3>4 DEF FailInv
  <2> QED
    BY <1>2, <2>2, <2>3, <2>4, <2>5, <2>6 DEF Authenticates
<1>3. ASSUME NEW t \in Threads, Handler(t)
      PROVE  FailInv'
  <2>0. /\ threads[t].phase \in {"run", "hashed"}
        /\ \/ Ends(t)
           \/ Becomes(t, "audit")
           \/ \E h : Goes(t, [threads[t] EXCEPT !.phase = "hashed", !.hash = h])
    BY <1>3, HandlersStep DEF HandlerStep, Committed
  <2>u. UNCHANGED <<clock, failures>>
    BY <1>3, HandlersFrame
  <2>1. IsRequest(threads[t])
    <3>0. threads[t].phase \in {"run", "hashed"}
      BY <2>0
    <3>1. threads[t] # Idle
      BY <3>0 DEF Idle
    <3> QED
      BY <3>1 DEF IInv, ThreadsOk, ThreadOk
  <2>2. "audit" \notin Counted /\ "hashed" \notin Counted
    BY DEF Counted
  <2>3. ASSUME NEW h, Goes(t, [threads[t] EXCEPT !.phase = "hashed", !.hash = h])
        PROVE  FailInv'
    <3>1. PICK rec : rec = [threads[t] EXCEPT !.phase = "hashed", !.hash = h]
      OBVIOUS
    <3>2. rec.phase = "hashed"
      BY <2>1, <3>1 DEF IsRequest
    <3> QED
      BY <1>o, <2>2, <2>3, <2>u, <3>1, <3>2
  <2> QED
    BY <1>b, <1>e, <2>0, <2>1, <2>2, <2>3, <2>u
<1>4. ASSUME NEW t \in Threads, AuditAction(t)
      PROVE  FailInv'
  BY <1>4, <1>e DEF AuditAction
<1>5. ASSUME UNCHANGED threads, UNCHANGED failures, clock' \in 0..MaxClock, clock <= clock'
      PROVE  FailInv'
  BY <1>5, <1>s DEF Past, Req
<1>6. ASSUME NEW o \in Orgs, NEW p \in Passwords, InitOrg(o, p) \/ EnableOrganization(o, p)
      PROVE  FailInv'
  BY <1>5, <1>6, <1>u DEF InitOrg, EnableOrganization, CommandLine
<1>7. CASE Crash
  <2>1. \A k : Past(k)' = {}
    BY <1>7 DEF Crash, Past, Idle, Counted
  <2> QED
    BY <1>7, <1>s, <1>u, <2>1 DEF Crash
<1>8. CASE Tick
  <2>1. clock' \in 0..MaxClock /\ clock <= clock'
    BY <1>0, <1>8, AccessAssumption DEF Tick, FailuresTyped
  <2> QED
    BY <1>5, <1>8, <2>1 DEF Tick
<1>9. CASE UNCHANGED vars
  BY <1>5, <1>9, <1>u DEF vars
<1> QED
  BY <1>1, <1>2, <1>3, <1>4, <1>6, <1>7, <1>8, <1>9 DEF Next, Step

\* Attempts are counted, verified and recorded by different steps of as many
\* threads as there are; what fails within a window exceeds the maximum by no more
\* than the threads that were past the count when it was reached.
THEOREM FailuresCorrect == Spec => []FailuresBounded
<1>1. Init => FailInv
  <2> SUFFICES ASSUME Init
               PROVE  FailInv
    OBVIOUS
  <2>1. FailuresTyped
    BY AccessAssumption DEF Init, FailuresTyped
  <2>2. \A k \in Orgs \cup Names : Limited(k)
    <3> TAKE k \in Orgs \cup Names
    <3>1. k \in Keys /\ Max \in Nat \ {0}
      BY AccessAssumption DEF Keys, Principals
    <3>2. Recent(failures, k) = {}
      <4>1. \A i : i \notin 1..0
        OBVIOUS
      <4>2. \A d \in 0..MaxClock : failures[k][d] = 0
        BY <3>1 DEF Init
      <4> QED
        BY <4>1, <4>2 DEF Recent
    <3>3. Past(k) = {}
      BY DEF Init, Past, Idle, Counted
    <3>4. IsFiniteSet(Recent(failures, k)) /\ Cardinality(Recent(failures, k)) = 0
          /\ Cardinality(Past(k)) = 0
      BY <3>2, <3>3, FS_EmptySet
    <3>5. \A m \in Nat \ {0} : \A n \in Nat : 0 + 0 <= m + n - 1
      OBVIOUS
    <3>6. Cardinality(Recent(failures, k)) + Cardinality(Past(k)) <= Max + Cardinality(Threads) - 1
      BY <3>1, <3>4, <3>5, PastFinite
    <3> QED
      BY <3>4, <3>6 DEF Limited, CountRecent
  <2> QED
    BY <2>1, <2>2 DEF FailInv
<1>2. FailInv /\ IInv /\ [Next]_vars => FailInv'
  BY FailuresKept
<1>3. FailInv => FailuresBounded
  <2> SUFFICES ASSUME FailInv, NEW k \in Orgs \cup Names
               PROVE  CountRecent(failures, k) <= Max + Cardinality(Threads) - 1
    BY DEF FailuresBounded
  <2>1. Limited(k) /\ Max \in Nat
    BY AccessAssumption DEF FailInv
  <2>2. CountRecent(failures, k) \in Nat
    BY <2>1, FS_CardinalityType DEF Limited, CountRecent
  <2>3. \A a, b, m, n \in Nat : a + b <= m + n - 1 => a <= m + n - 1
    OBVIOUS
  <2> QED
    BY <2>1, <2>2, <2>3, PastFinite DEF Limited
<1>4. Init => IInv
  BY InitAccess
<1>5. IInv /\ HumanOfOrg /\ [Next]_vars => IInv'
  BY AccessKept
<1> QED
  BY <1>1, <1>2, <1>3, <1>4, <1>5, HumanCorrect, PTL DEF Spec

=============================================================================
