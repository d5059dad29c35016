------------------------------- MODULE Access -------------------------------
(***************************************************************************)
(* Authentication and the commands that change who may do what: the tables *)
(* organizations, accounts, auth_failures and audit_log, and the cache of  *)
(* verified passwords.                                                     *)
(*                                                                         *)
(* A request is not one transaction.  Its thread counts the failures, reads*)
(* the account, reads the organization, asks the cache, runs Argon2 (a     *)
(* quarter of a second, no lock held), records the failure or clears them, *)
(* runs the handler in a transaction and audits it in another one; every   *)
(* other thread may come in between.  A transaction is one step: writers   *)
(* exclude each other and readers see what is committed.                   *)
(*                                                                         *)
(* A password is a value; a hash is a password with its salt, which no two *)
(* hashes share.  A request is a tuple                                     *)
(* <<principal, password, command, target, value>>, where an organization  *)
(* is a principal of its own and its failures have a key of their own.     *)
(***************************************************************************)
EXTENDS Integers, FiniteSets

CONSTANTS
  Orgs, Names,     \* names of organizations; of accounts
  HumanOf,         \* the name reserved for an organization's human account
  WebLocal,        \* the identity of the local web interface
  Passwords,
  Token,           \* the local trust token, known to the web interface only
  Max, Window,     \* auth_max_failures, auth_window_seconds
  TTL,             \* auth_cache_ttl_seconds
  CacheSize,       \* _MAX_AUTH_CACHE_ENTRIES
  Threads,
  Founder,         \* bound: the organization that exists at the start, and
  Agent,           \* its one agent,
  FirstPassword,   \* with the password of both
  Requests,        \* bound: the requests made
  MaxRequests, MaxClock, MaxCrashes   \* bounds

Principals == Orgs \cup Names \cup {WebLocal}

ASSUME AccessAssumption ==
  /\ Orgs \cap Names = {} /\ WebLocal \notin Orgs \cup Names
  /\ HumanOf \in [Orgs -> Names]
  /\ \A o, q \in Orgs : o # q => HumanOf[o] # HumanOf[q]
  /\ Token \notin Passwords /\ IsFiniteSet(Threads)
  /\ Max \in Nat \ {0} /\ Window \in Nat /\ TTL \in Nat /\ CacheSize \in Nat \ {0}
  /\ MaxRequests \in Nat /\ MaxClock \in Nat /\ MaxCrashes \in Nat
  /\ Founder \in Orgs /\ FirstPassword \in Passwords /\ Agent \in Names /\ \A o \in Orgs : Agent # HumanOf[o]
  /\ \A r \in Requests : r[1] \in Principals /\ r[2] \in Passwords \cup {Token}

VARIABLES
  clock,
  orgs,       \* organizations: hash, enabled
  accts,      \* accounts: organization, type, status, hash, observer
  failures,   \* auth_failures: how many rows a key has of each date
  cache,      \* _auth_cache: hash, password (its digest) and end of an entry
  threads,    \* what each thread is doing
  since,      \* which of its two checks held at some moment since it arrived
  done, log,  \* audited commands committed; rows of audit_log
  salts, arrivals, crashes   \* hashes computed, requests made, crashes

data  == <<orgs, accts>>
audit == <<done, log>>
vars  == <<clock, data, failures, cache, threads, since, audit, salts, arrivals, crashes>>

NoRow  == [none |-> TRUE]
Idle   == [phase |-> "idle"]
Keys   == Principals

\* hash_password: with a salt of its own.
HashOf(p) == [of |-> p, salt |-> salts]

IsOrg(r)   == r[1] \in Orgs
RowOf(r)   == IF IsOrg(r) THEN orgs[r[1]] ELSE accts[r[1]]

\* web_token_matches.
WebTokenMatches(p) == p = Token

-----------------------------------------------------------------------------
(* authfail: the rows of a key within the sliding window.                  *)

\* The rows of a date are told apart by their numbers.
Recent(rows, k) ==
  UNION {{d} \X (1..rows[k][d]) : d \in {e \in 0..MaxClock : e >= clock - Window}}

CountRecent(rows, k) == Cardinality(Recent(rows, k))

Pruned == [k \in Keys |-> [d \in 0..MaxClock |->
             IF d < clock - Window THEN 0 ELSE failures[k][d]]]

\* Mutant: one more than the maximum.
LockedLate(rows, k) == CountRecent(rows, k) > Max
Locked(rows, k) == CountRecent(rows, k) >= Max

-----------------------------------------------------------------------------
(* The cache of verified passwords.                                        *)

\* Mutant: an entry stands for its password whatever the hash is now.
HitByDigest(k, hash, p) ==
  cache[k] # NoRow /\ cache[k].digest = p /\ cache[k].until > clock
Hit(k, hash, p) ==
  cache[k] # NoRow /\ cache[k].hash = hash /\ cache[k].digest = p /\ cache[k].until > clock

\* A full cache drops what has expired, and takes the new entry anyway.
\* Mutant: an entry that has expired is renewed from its own end.
RememberLonger(k, hash, p, from) ==
  [cache EXCEPT ![k] = [hash |-> hash, digest |-> p,
     until |-> (IF cache[k] # NoRow THEN cache[k].until ELSE from) + TTL]]
Remember(k, hash, p, from) ==
  LET kept == IF Cardinality({x \in Keys : cache[x] # NoRow}) >= CacheSize
              THEN [x \in Keys |-> IF cache[x] # NoRow /\ cache[x].until <= clock
                                   THEN NoRow ELSE cache[x]]
              ELSE cache
  IN [kept EXCEPT ![k] = [hash |-> hash, digest |-> p, until |-> from + TTL]]

-----------------------------------------------------------------------------
(* The stages of a request.  r is its tuple and t its thread.              *)

Req(t)       == threads[t].req
At(t, phase) == threads[t].phase = phase
Goes(t, rec) == threads' = [threads EXCEPT ![t] = rec]
Becomes(t, phase) == Goes(t, [threads[t] EXCEPT !.phase = phase])
Ends(t)      == Goes(t, Idle)

Arrive(t) ==
  /\ At(t, "idle") /\ arrivals < MaxRequests
  /\ \E r \in Requests :
       Goes(t, [phase |-> IF r[1] = WebLocal THEN "token" ELSE "count",
                req |-> r, row |-> NoRow, org |-> NoRow, at |-> 0, hash |-> NoRow])
  /\ arrivals' = arrivals + 1
  /\ UNCHANGED <<clock, data, failures, cache, audit, salts, crashes>>

\* The web interface itself: the token or nothing, and no limit of failures.
CheckToken(t) ==
  /\ At(t, "token")
  /\ Becomes(t, IF WebTokenMatches(Req(t)[2]) THEN "clear" ELSE "fail")
  /\ UNCHANGED <<clock, data, failures, cache, audit, salts, arrivals, crashes>>

\* prune and count_recent.  A refusal here is not recorded.
CountFailures(t) ==
  /\ At(t, "count")
  /\ failures' = Pruned
  /\ IF Locked(Pruned, Req(t)[1]) THEN Ends(t) ELSE Becomes(t, "read")
  /\ UNCHANGED <<clock, data, cache, audit, salts, arrivals, crashes>>

\* The row of an account, or of an organization.
ReadRow(t) ==
  LET r == Req(t) row == RowOf(r) IN
  /\ At(t, "read")
  /\ IF IsOrg(r)
     THEN IF row # NoRow /\ row.enabled
          THEN Goes(t, [threads[t] EXCEPT !.phase = "lookup", !.org = row])
          ELSE Becomes(t, "fail")
     ELSE IF row # NoRow /\ row.status = "active"
          THEN Goes(t, [threads[t] EXCEPT !.phase = "org", !.row = row])
          ELSE Becomes(t, "fail")
  /\ UNCHANGED <<clock, data, failures, cache, audit, salts, arrivals, crashes>>

\* The row of the account's organization, read later.
ReadOrg(t) ==
  LET org == orgs[threads[t].row.org] IN
  /\ At(t, "org")
  /\ IF org # NoRow /\ org.enabled
     THEN Goes(t, [threads[t] EXCEPT !.phase = "lookup", !.org = org])
     ELSE Becomes(t, "fail")
  /\ UNCHANGED <<clock, data, failures, cache, audit, salts, arrivals, crashes>>

\* Organizations and their humans have the organization's password, and may
\* present the token instead.
ByOrg(t)    == IsOrg(Req(t)) \/ threads[t].row.type = "human"
Expected(t) == IF ByOrg(t) THEN threads[t].org.hash ELSE threads[t].row.hash

Lookup(t) ==
  /\ At(t, "lookup")
  /\ IF Hit(Req(t)[1], Expected(t), Req(t)[2])
     THEN Becomes(t, "clear")
     ELSE Goes(t, [threads[t] EXCEPT !.phase = "verify", !.at = clock])
  /\ UNCHANGED <<clock, data, failures, cache, audit, salts, arrivals, crashes>>

\* Argon2, and an entry for the cache that counts from the lookup.
Verify(t) ==
  LET right == Expected(t).of = Req(t)[2] IN
  /\ At(t, "verify")
  /\ Becomes(t, IF right \/ (ByOrg(t) /\ WebTokenMatches(Req(t)[2])) THEN "clear" ELSE "fail")
  /\ cache' = IF right THEN Remember(Req(t)[1], Expected(t), Req(t)[2], threads[t].at) ELSE cache
  /\ UNCHANGED <<clock, data, failures, audit, salts, arrivals, crashes>>

\* record.
RecordFailure(t) ==
  /\ At(t, "fail") /\ Ends(t)
  /\ failures' = [failures EXCEPT ![Req(t)[1]][clock] = @ + 1]
  /\ UNCHANGED <<clock, data, cache, audit, salts, arrivals, crashes>>

\* clear, then what _dispatch asks of the principal: an observer only reads.
ClearFailures(t) ==
  LET row == threads[t].row IN
  /\ At(t, "clear")
  /\ IF row # NoRow /\ row.observer /\ Req(t)[3] # "read"
     THEN Ends(t) ELSE Becomes(t, "run")
  /\ failures' = [failures EXCEPT ![Req(t)[1]] = [d \in 0..MaxClock |-> 0]]
  /\ UNCHANGED <<clock, data, cache, audit, salts, arrivals, crashes>>

-----------------------------------------------------------------------------
(* The handlers.                                                           *)

Runs(t, command) == At(t, "run") /\ Req(t)[3] = command
Writes(t, command) == At(t, "hashed") /\ Req(t)[3] = command

\* A handler that raises: nothing is committed and nothing audited.
\* Mutant: audited all the same.
RefusedAudited(t) == Becomes(t, "audit") /\ UNCHANGED <<data, done>>
Refused(t) == Ends(t) /\ UNCHANGED <<data, done>>

\* A handler that commits; _audit_action comes after.
Committed(t) == Becomes(t, "audit") /\ done' = [done EXCEPT ![Req(t)] = @ + 1]
\* One that writes its audit row in its own transaction, or has none.
CommittedAlone(t) == Ends(t) /\ UNCHANGED done

HandlerFrame == UNCHANGED <<clock, failures, cache, log, arrivals, crashes>>

Member(o, u)    == accts[u] # NoRow /\ accts[u].org = o
Target(t)       == Req(t)[4]
OwnMember(t)    == Member(Req(t)[1], Target(t))
SetAccount(u, row) == accts' = [accts EXCEPT ![u] = row] /\ UNCHANGED orgs
SetStatus(u, s) == accts' = [accts EXCEPT ![u].status = s] /\ UNCHANGED orgs
NewAccount(o, hash, type, observer) ==
  [org |-> o, type |-> type, status |-> "active", hash |-> hash, observer |-> observer]
\* A name is unique among all accounts, disabled ones too.
\* Mutant: among the organization's own.
NameFreeInOrg(o, u) == ~Member(o, u)
NameFree(o, u) == accts[u] = NoRow
Reserved(u) == \E o \in Orgs : u = HumanOf[o]

DeactivateAgent(t) ==
  /\ Runs(t, "deactivate") /\ HandlerFrame /\ UNCHANGED salts
  /\ IF OwnMember(t) /\ accts[Target(t)].type # "human"
     THEN SetStatus(Target(t), "disabled") /\ Committed(t)
     ELSE Refused(t)

ReactivateAgent(t) ==
  /\ Runs(t, "reactivate") /\ HandlerFrame /\ UNCHANGED salts
  /\ IF OwnMember(t)
     THEN SetStatus(Target(t), "active") /\ Committed(t)
     ELSE Refused(t)

\* Any member, a human too; audited in its transaction.
RevokeObserver(t) ==
  /\ Runs(t, "revoke") /\ HandlerFrame /\ UNCHANGED salts
  /\ IF OwnMember(t)
     THEN SetStatus(Target(t), "disabled") /\ CommittedAlone(t)
     ELSE Refused(t)

\* The hash is computed in the transaction, and any free name is taken.
CreateObserver(t) ==
  /\ Runs(t, "observer") /\ HandlerFrame
  /\ IF NameFree(Req(t)[1], Target(t))
     THEN /\ SetAccount(Target(t), NewAccount(Req(t)[1], HashOf(Req(t)[5]), "agent", TRUE))
          /\ salts' = salts + 1 /\ CommittedAlone(t)
     ELSE Refused(t) /\ UNCHANGED salts

\* The handlers below check, hash a password outside the transaction, and
\* write later, on rows that may have changed.
Hashes(t, ok) ==
  /\ IF ok
     THEN Goes(t, [threads[t] EXCEPT !.phase = "hashed", !.hash = HashOf(Req(t)[5])])
          /\ salts' = salts + 1 /\ UNCHANGED <<data, done>>
     ELSE Refused(t) /\ UNCHANGED salts
  /\ HandlerFrame

BeginCreateAgent(t)    == Runs(t, "agent") /\ Hashes(t, ~Reserved(Target(t)))
BeginChangePassword(t) ==
  Runs(t, "password") /\ Hashes(t, OwnMember(t) /\ accts[Target(t)].type # "human")
BeginChangeOrgPassword(t) == Runs(t, "orgpassword") /\ Hashes(t, TRUE)
BeginCreateOrg(t)      ==
  Runs(t, "org") /\ Hashes(t, Req(t)[1] = WebLocal \/ threads[t].row.type = "human")

WriteFrame == HandlerFrame /\ UNCHANGED salts

CreateAgent(t) ==
  /\ Writes(t, "agent") /\ WriteFrame
  /\ IF NameFree(Req(t)[1], Target(t))
     THEN /\ SetAccount(Target(t), NewAccount(Req(t)[1], threads[t].hash, "agent", FALSE))
          /\ Committed(t)
     ELSE Refused(t)

ChangePassword(t) ==
  /\ Writes(t, "password") /\ WriteFrame
  /\ accts' = [accts EXCEPT ![Target(t)].hash = threads[t].hash]
  /\ UNCHANGED orgs /\ Committed(t)

ChangeOrgPassword(t) ==
  /\ Writes(t, "orgpassword") /\ WriteFrame
  /\ orgs' = [orgs EXCEPT ![Req(t)[1]].hash = threads[t].hash]
  /\ UNCHANGED accts /\ Committed(t)

\* An organization and its human account, in one transaction.
Free(o) == orgs[o] = NoRow /\ NameFree(o, HumanOf[o])
Founded(o, hash) ==
  /\ orgs'  = [orgs EXCEPT ![o] = [hash |-> hash, enabled |-> TRUE]]
  /\ accts' = [accts EXCEPT ![HumanOf[o]] =
                 NewAccount(o, [of |-> "secret", salt |-> 0], "human", FALSE)]

\* Not audited when the web interface creates it.
CreateOrg(t) ==
  /\ Writes(t, "org") /\ WriteFrame
  /\ IF Free(Target(t))
     THEN /\ Founded(Target(t), threads[t].hash)
          /\ IF Req(t)[1] = WebLocal THEN CommittedAlone(t) ELSE Committed(t)
     ELSE Refused(t)

\* A human disables its own organization, once.
DisableOrg(t) ==
  LET o == Target(t) IN
  /\ Runs(t, "disable") /\ WriteFrame
  /\ IF threads[t].row.type = "human" /\ o = threads[t].row.org /\ orgs[o].enabled
     THEN /\ orgs' = [orgs EXCEPT ![o].enabled = FALSE]
          /\ UNCHANGED accts /\ Committed(t)
     ELSE Refused(t)

\* Any other audited command of an account: a message, a card.
Work(t) ==
  /\ Runs(t, "write") /\ WriteFrame /\ UNCHANGED data /\ Committed(t)

\* A command that reads: not audited, and all an observer may do.
Read(t) == Runs(t, "read") /\ WriteFrame /\ UNCHANGED data /\ CommittedAlone(t)

\* _audit_action: a transaction of its own.
AuditAction(t) ==
  /\ At(t, "audit") /\ Ends(t)
  /\ log' = [log EXCEPT ![Req(t)] = @ + 1]
  /\ UNCHANGED <<clock, data, failures, cache, done, salts, arrivals, crashes>>

Handler(t) ==
  \/ DeactivateAgent(t) \/ ReactivateAgent(t) \/ RevokeObserver(t) \/ CreateObserver(t)
  \/ BeginCreateAgent(t) \/ CreateAgent(t) \/ BeginChangePassword(t) \/ ChangePassword(t)
  \/ BeginChangeOrgPassword(t) \/ ChangeOrgPassword(t)
  \/ BeginCreateOrg(t) \/ CreateOrg(t) \/ DisableOrg(t) \/ Work(t) \/ Read(t)

-----------------------------------------------------------------------------
(* The command line, on the server's machine, and the server's own life.   *)

CommandLine ==
  /\ arrivals < MaxRequests /\ arrivals' = arrivals + 1
  /\ UNCHANGED <<clock, failures, cache, threads, audit, crashes>>

\* create_organization.
InitOrg(o, p) ==
  /\ CommandLine /\ Free(o) /\ Founded(o, HashOf(p)) /\ salts' = salts + 1

\* enable_organization: with the password of the organization.
EnableOrganization(o, p) ==
  /\ CommandLine /\ orgs[o] # NoRow
  /\ orgs[o].hash.of = p /\ ~orgs[o].enabled
  /\ orgs' = [orgs EXCEPT ![o].enabled = TRUE] /\ UNCHANGED <<accts, salts>>

\* The cache and the requests go; the tables stay.
Crash ==
  /\ crashes < MaxCrashes /\ crashes' = crashes + 1
  /\ cache' = [k \in Keys |-> NoRow] /\ threads' = [t \in Threads |-> Idle]
  /\ UNCHANGED <<clock, data, failures, audit, salts, arrivals>>

Tick ==
  /\ clock < MaxClock /\ clock' = clock + 1
  /\ UNCHANGED <<data, failures, cache, threads, audit, salts, arrivals, crashes>>

-----------------------------------------------------------------------------
(* What a request has to show: an account that is active, with its         *)
(* password if it has one of its own, and an organization that is enabled, *)
(* with its password if the principal relies on that.                      *)

AccountOk(r) ==
  r[1] \in Names =>
    /\ accts[r[1]] # NoRow /\ accts[r[1]].status = "active"
    /\ accts[r[1]].type = "human" \/ accts[r[1]].hash.of = r[2]

OrgOk(r) ==
  IF r[1] = WebLocal THEN WebTokenMatches(r[2])
  ELSE IF ~IsOrg(r) /\ accts[r[1]] = NoRow THEN FALSE
  ELSE LET org == IF IsOrg(r) THEN orgs[r[1]] ELSE orgs[accts[r[1]].org]
       IN /\ org # NoRow /\ org.enabled
          /\ \/ ~IsOrg(r) /\ accts[r[1]].type # "human"
             \/ org.hash.of = r[2] \/ WebTokenMatches(r[2])

Shown(r) == {f \in {"account", "organization"} :
               (f = "account" => AccountOk(r)) /\ (f = "organization" => OrgOk(r))}

ShownBy(t) == IF threads[t] = Idle THEN {} ELSE Shown(threads[t].req)

\* since, kept up with every step.
Remembers ==
  since' = [t \in Threads |-> IF threads'[t] = Idle THEN {} ELSE since[t] \cup ShownBy(t)']

First == [of |-> FirstPassword, salt |-> 0]

Init ==
  /\ clock = 0
  /\ orgs = [o \in Orgs |-> IF o = Founder THEN [hash |-> First, enabled |-> TRUE] ELSE NoRow]
  /\ accts = [u \in Names |->
       CASE u = HumanOf[Founder] ->
              NewAccount(Founder, [of |-> "secret", salt |-> 0], "human", FALSE)
         [] u = Agent -> NewAccount(Founder, First, "agent", FALSE)
         [] OTHER -> NoRow]
  /\ failures = [k \in Keys |-> [d \in 0..MaxClock |-> 0]]
  /\ cache = [k \in Keys |-> NoRow]
  /\ threads = [t \in Threads |-> Idle]
  /\ since = [t \in Threads |-> {}]
  /\ done = [r \in Requests |-> 0] /\ log = [r \in Requests |-> 0]
  /\ salts = 1 /\ arrivals = 0 /\ crashes = 0

Authenticates(t) ==
  \/ CheckToken(t) \/ CountFailures(t) \/ ReadRow(t) \/ ReadOrg(t) \/ Lookup(t)
  \/ Verify(t) \/ RecordFailure(t) \/ ClearFailures(t)

Step ==
  \/ \E t \in Threads : Arrive(t) \/ Authenticates(t) \/ Handler(t) \/ AuditAction(t)
  \/ \E o \in Orgs, p \in Passwords : InitOrg(o, p) \/ EnableOrganization(o, p)
  \/ Crash \/ Tick

Next == Step /\ Remembers

Spec == Init /\ [][Next]_vars

-----------------------------------------------------------------------------
(* Properties.                                                             *)

HashSet == [of : Passwords \cup {"secret"}, salt : 0..MaxRequests]

\* The rows, the cache and the requests keep their types, and no entry of the
\* cache outlives the TTL: its end counts from the lookup, not from the answer.
TypeOK ==
  /\ orgs \in [Orgs -> {NoRow} \cup [hash : HashSet, enabled : BOOLEAN]]
  /\ accts \in [Names -> {NoRow} \cup [org : Orgs, type : {"agent", "human"}, hash : HashSet,
                                       status : {"active", "disabled"}, observer : BOOLEAN]]
  /\ \A k \in Keys : cache[k] # NoRow =>
       cache[k].hash \in HashSet /\ cache[k].digest = cache[k].hash.of /\ cache[k].until <= clock + TTL
  /\ \A t \in Threads : since[t] \subseteq {"account", "organization"}

\* A request that passes authentication had, at some moment since it arrived,
\* an active account with that password, and an enabled organization (with that
\* password).  Rotations, closed accounts and frozen organizations, crashes and
\* the cache all come in between (_authenticate, _cached_password_ok): what a
\* request can still do after a revocation is bounded by when it arrived.
PassedWasValid ==
  \A t \in Threads :
    threads[t].phase \in {"clear", "run", "hashed", "audit"} =>
      since[t] = {"account", "organization"}

\* Attempts are counted, verified and recorded in separate steps, so more
\* failures than the maximum fit in a window, but only as many more as there are
\* other threads.
FailuresBounded ==
  \A k \in Orgs \cup Names :
    CountRecent(failures, k) <= Max + Cardinality(Threads) - 1

\* Every organization has its human account, whoever creates organizations,
\* agents and observers at the same time under whatever names.
HumanOfOrg ==
  \A o \in Orgs : orgs[o] # NoRow =>
    /\ accts[HumanOf[o]] # NoRow
    /\ accts[HumanOf[o]].type = "human" /\ accts[HumanOf[o]].org = o

\* The audit log never has a command that was not committed: it may lack the
\* last ones, when the server ends between the two transactions.
AuditOfCommitted ==
  \A r \in Requests : log[r] <= done[r]

\* SPEC_WEB R5.5: a human account is never disabled on its own.
HumanNeverDisabled ==
  \A u \in Names : accts[u] # NoRow /\ accts[u].type = "human" => accts[u].status = "active"
=============================================================================
