-------------------------------- MODULE Web --------------------------------
(***************************************************************************)
(* The web interface: logins, sessions, the limit of failed logins and the *)
(* cache of answers, for HTTP requests that run in threads of their own.   *)
(*                                                                         *)
(* The service behind it is what Access shows of it: it accepts a request  *)
(* of an organization's human when it is up, the organization is enabled   *)
(* and the request carries the trust token of this run of the service.     *)
(* What it is asked is here the state of an organization's conversations,  *)
(* one number that every change increases.                                 *)
(*                                                                         *)
(* Each section under a lock of the interface is one step; calls to the    *)
(* service are steps of their own between them.  A session of the code is  *)
(* an object, replaced at each use: objects are told apart by a version.   *)
(***************************************************************************)
EXTENDS Integers, FiniteSets

CONSTANTS
  Orgs, Threads,
  MaxSessions,      \* web_max_sessions, of one organization
  SessionTTL,       \* web_session_ttl_seconds
  MaxAttempts, Lockout,   \* web_login_max_attempts, web_login_lockout_seconds
  CacheTTL,         \* _CONVERSATIONS_TTL
  MaxClock, MaxRequests, MaxRestarts, MaxChanges   \* bounds

ASSUME WebAssumption ==
  /\ MaxSessions \in Nat \ {0} /\ SessionTTL \in Nat /\ MaxAttempts \in Nat \ {0}
  /\ Lockout \in Nat /\ CacheTTL \in Nat
  /\ MaxClock \in Nat /\ MaxRequests \in Nat /\ MaxRestarts \in Nat /\ MaxChanges \in Nat

VARIABLES
  clock,
  up, run, enabled, content,   \* the service: up, its run (its token), the
                               \* organizations enabled, their conversations
  token,      \* the run whose token the interface read, 0 for none
  sessions,   \* _sessions, from tokens, which are numbered as they are issued,
              \* so that their order is the order of insertion
  attempts,   \* _login_failures
  cache,      \* _cache: value, date of expiry, and date it was read
  threads,
  issued,     \* tokens of sessions issued so far: they are numbered
  ended,      \* those that were logged out
  requests, restarts

service  == <<up, run, enabled, content>>
web      == <<token, sessions, attempts, cache, issued, ended>>
counters == <<requests, restarts>>
vars     == <<clock, service, web, threads, counters>>

Idle    == [op |-> "idle"]
NoSessions == [k \in {} |-> 0]
NoEntry == [none |-> TRUE]
Clean   == [count |-> 0, until |-> 0]

\* What the service answers to a request with the token of one of its runs.
Accepts(org, secret) == up /\ org \in enabled /\ secret = run

Goes(t, rec) == threads' = [threads EXCEPT ![t] = rec]
At(t, op)    == threads[t].op = op

-----------------------------------------------------------------------------
(* Sessions.                                                               *)

Expired(s)   == clock - s.used > SessionTTL
OfOrg(ss, o) == {k \in DOMAIN ss : ss[k].org = o}
Only(ss, T)  == [k \in T |-> ss[k]]
Without(ss, tok) == Only(ss, DOMAIN ss \ {tok})
With(ss, tok, s) == [k \in DOMAIN ss \cup {tok} |-> IF k = tok THEN s ELSE ss[k]]

\* _prune_sessions_locked.
Pruned(ss, now) == Only(ss, {k \in DOMAIN ss : now - ss[k].used <= SessionTTL})

\* The oldest sessions of an organization give way to a new one: a session stays
\* while fewer than one less than the maximum are newer.
Newer(ss, k) == {j \in OfOrg(ss, ss[k].org) : j > k}
\* Mutant: fewer than the maximum.
EvictedLate(ss, o) ==
  Only(ss, {k \in DOMAIN ss : ss[k].org = o => Cardinality(Newer(ss, k)) < MaxSessions})
Evicted(ss, o) ==
  Only(ss, {k \in DOMAIN ss : ss[k].org = o => Cardinality(Newer(ss, k)) < MaxSessions - 1})

NewSession(o, secret, at) == [org |-> o, secret |-> secret, used |-> at, version |-> 0]

\* get_session: an expired session goes, another is stored anew and the object
\* that was stored is returned.
Used(s) == [org |-> s.org, secret |-> s.secret, used |-> clock, version |-> s.version + 1]
Touched(ss, tok) == [ss EXCEPT ![tok] = Used(@)]

\* destroy_session_for: the session that is the very object.
DestroyFor(ss, tok, s) ==
  IF tok \in DOMAIN ss /\ ss[tok].version = s.version THEN Without(ss, tok) ELSE ss

-----------------------------------------------------------------------------
(* login: the limit is looked at, the service asked, the outcome kept.     *)

Login(t) ==
  /\ At(t, "idle") /\ requests < MaxRequests /\ requests' = requests + 1
  /\ token # 0
  /\ \E o \in Orgs :
       /\ attempts[o].until <= clock
       /\ Goes(t, [op |-> "login", org |-> o, secret |-> token, at |-> clock])
  /\ UNCHANGED <<clock, service, web, restarts>>

AskService(t) ==
  /\ At(t, "login")
  /\ Goes(t, [threads[t] EXCEPT
                !.op = IF Accepts(threads[t].org, threads[t].secret) THEN "welcome" ELSE "failed"])
  /\ UNCHANGED <<clock, service, web, counters>>

\* The count goes up, and locks at the maximum, from when the attempt began.
\* An attempt that began before the lock unlocks.
Counted(a, at) ==
  IF a.count + 1 >= MaxAttempts THEN [count |-> 0, until |-> at + Lockout]
  ELSE [count |-> a.count + 1, until |-> 0]

LoginFailed(t) ==
  LET o == threads[t].org IN
  /\ At(t, "failed") /\ Goes(t, Idle)
  /\ attempts' = [attempts EXCEPT ![o] = Counted(@, threads[t].at)]
  /\ UNCHANGED <<clock, service, token, sessions, cache, issued, ended, counters>>

LoginSucceeded(t) ==
  LET o == threads[t].org IN
  /\ At(t, "welcome") /\ Goes(t, Idle)
  /\ attempts' = [attempts EXCEPT ![o] = Clean]
  /\ issued' = issued + 1
  /\ sessions' = With(Evicted(Pruned(sessions, threads[t].at), o),
                      issued', NewSession(o, threads[t].secret, threads[t].at))
  /\ UNCHANGED <<clock, service, token, cache, ended, counters>>

-----------------------------------------------------------------------------
(* Requests under a session.                                               *)

\* _require_session.  The object returned is the one that was stored.
Request(t, op) ==
  /\ At(t, "idle") /\ requests < MaxRequests /\ requests' = requests + 1
  /\ \E tok \in DOMAIN sessions :
       IF Expired(sessions[tok])
       THEN sessions' = Without(sessions, tok) /\ UNCHANGED threads
       ELSE /\ sessions' = Touched(sessions, tok)
            /\ Goes(t, [op |-> op, token |-> tok, session |-> sessions[tok],
                        at |-> clock, value |-> 0, read |-> 0])
  /\ UNCHANGED <<clock, service, token, attempts, cache, issued, ended, restarts>>

\* _cached: what is there, or a call.
Fresh(o) == cache[o] # NoEntry /\ cache[o].until > clock
LookUp(t) ==
  LET o == threads[t].session.org IN
  /\ At(t, "list")
  /\ Goes(t, IF Fresh(o)
             THEN [threads[t] EXCEPT !.op = "served", !.value = cache[o].value, !.read = cache[o].read]
             ELSE [threads[t] EXCEPT !.op = "fetch", !.at = clock])
  /\ UNCHANGED <<clock, service, web, counters>>

\* _serve_json: a call that fails with AUTH_FAILED ends in destroy_session_for;
\* without a service it fails, and the session stays.
Call(t, op, next) ==
  LET s == threads[t].session IN
  /\ At(t, op)
  /\ Goes(t, IF Accepts(s.org, s.secret)
             THEN [threads[t] EXCEPT !.op = next, !.value = content[s.org], !.read = clock]
             ELSE IF up THEN [threads[t] EXCEPT !.op = "refused"] ELSE Idle)

Fetch(t) == Call(t, "fetch", "store") /\ UNCHANGED <<clock, service, web, counters>>

\* The answer is stored until so long after the lookup.
\* Mutant: after it came.
UntilStored(t) == clock + CacheTTL
Until(t) == threads[t].at + CacheTTL
Store(t) ==
  /\ At(t, "store")
  /\ cache' = [cache EXCEPT ![threads[t].session.org] =
                 [value |-> threads[t].value, read |-> threads[t].read, until |-> Until(t)]]
  /\ Goes(t, [threads[t] EXCEPT !.op = "served"])
  /\ UNCHANGED <<clock, service, token, sessions, attempts, issued, ended, counters>>

Answer(t) ==
  /\ At(t, "served") /\ Goes(t, Idle) /\ UNCHANGED <<clock, service, web, counters>>

\* conversation: the service marks the messages read, then the list is dropped
\* from the cache.
Open(t) ==
  LET o == threads[t].session.org IN
  /\ Call(t, "open", "invalidate")
  /\ content' = IF Accepts(o, threads[t].session.secret)
                THEN [content EXCEPT ![o] = @ + 1] ELSE content
  /\ content[o] < MaxChanges
  /\ UNCHANGED <<clock, up, run, enabled, web, counters>>

Invalidate(t) ==
  /\ At(t, "invalidate") /\ Goes(t, Idle)
  /\ cache' = [cache EXCEPT ![threads[t].session.org] = NoEntry]
  /\ UNCHANGED <<clock, service, token, sessions, attempts, issued, ended, counters>>

\* The other writes (messages, approvals, agents): forwarded, nothing invalidated.
Post(t) ==
  LET o == threads[t].session.org IN
  /\ Call(t, "post", "served")
  /\ content' = IF Accepts(o, threads[t].session.secret)
                THEN [content EXCEPT ![o] = @ + 1] ELSE content
  /\ content[o] < MaxChanges
  /\ UNCHANGED <<clock, up, run, enabled, web, counters>>

\* _post_disable_org: the session's own organization.
DisableOrg(t) ==
  LET s == threads[t].session IN
  /\ Call(t, "disable", "served")
  /\ enabled' = IF Accepts(s.org, s.secret) THEN enabled \ {s.org} ELSE enabled
  /\ UNCHANGED <<clock, up, run, content, web, counters>>

Expel(t) ==
  /\ At(t, "refused") /\ Goes(t, Idle)
  /\ sessions' = DestroyFor(sessions, threads[t].token, threads[t].session)
  /\ UNCHANGED <<clock, service, token, attempts, cache, issued, ended, counters>>

\* _post_logout.
\* Mutant: of the session object, as for a session that is refused.
LogoutObject(t) ==
  /\ At(t, "logout") /\ Goes(t, Idle)
  /\ sessions' = DestroyFor(sessions, threads[t].token, threads[t].session)
  /\ ended' = ended \cup {threads[t].token}
  /\ UNCHANGED <<clock, service, token, attempts, cache, issued, counters>>
Logout(t) ==
  /\ At(t, "logout") /\ Goes(t, Idle)
  /\ sessions' = Without(sessions, threads[t].token)
  /\ ended' = ended \cup {threads[t].token}
  /\ UNCHANGED <<clock, service, token, attempts, cache, issued, counters>>

-----------------------------------------------------------------------------
(* The service and the interface come and go.                              *)

ServiceStops ==
  /\ up /\ up' = FALSE
  /\ UNCHANGED <<clock, run, enabled, content, web, threads, counters>>

\* A new run has a new token, in a new file.
ServiceStarts ==
  /\ ~up /\ restarts < MaxRestarts
  /\ up' = TRUE /\ run' = run + 1 /\ restarts' = restarts + 1
  /\ UNCHANGED <<clock, enabled, content, web, threads, requests>>

\* start: the token file is read once.  A service that stopped took it away; one
\* that crashed left it.
WebRestarts ==
  /\ restarts < MaxRestarts /\ restarts' = restarts + 1
  /\ token' \in (IF up THEN {run} ELSE {0, run})
  /\ sessions' = NoSessions /\ attempts' = [o \in Orgs |-> Clean]
  /\ cache' = [o \in Orgs |-> NoEntry] /\ threads' = [t \in Threads |-> Idle]
  /\ UNCHANGED <<clock, service, issued, ended, requests>>

\* enable_organization, from the command line.
Enable ==
  /\ \E o \in Orgs \ enabled : enabled' = enabled \cup {o}
  /\ requests < MaxRequests /\ requests' = requests + 1
  /\ UNCHANGED <<clock, up, run, content, web, threads, restarts>>

\* An agent of the organization sends a message.
Change ==
  /\ \E o \in Orgs : content[o] < MaxChanges /\ content' = [content EXCEPT ![o] = @ + 1]
  /\ UNCHANGED <<clock, up, run, enabled, web, threads, counters>>

Tick ==
  /\ clock < MaxClock /\ clock' = clock + 1
  /\ UNCHANGED <<service, web, threads, counters>>

Init ==
  /\ clock = 0
  /\ up = TRUE /\ run = 1 /\ enabled = Orgs /\ content = [o \in Orgs |-> 0]
  /\ token = 1 /\ sessions = NoSessions /\ attempts = [o \in Orgs |-> Clean]
  /\ cache = [o \in Orgs |-> NoEntry]
  /\ threads = [t \in Threads |-> Idle]
  /\ issued = 0 /\ ended = {}
  /\ requests = 0 /\ restarts = 0

ThreadNext(t) ==
  \/ Login(t) \/ AskService(t) \/ LoginFailed(t) \/ LoginSucceeded(t)
  \/ \E op \in {"list", "open", "post", "disable", "logout"} : Request(t, op)
  \/ LookUp(t) \/ Fetch(t) \/ Store(t) \/ Answer(t) \/ Open(t) \/ Post(t) \/ Invalidate(t)
  \/ DisableOrg(t) \/ Expel(t) \/ Logout(t)

Next ==
  \/ \E t \in Threads : ThreadNext(t)
  \/ ServiceStops \/ ServiceStarts \/ WebRestarts \/ Enable \/ Change \/ Tick

Spec == Init /\ [][Next]_vars

-----------------------------------------------------------------------------
(* Properties.                                                             *)

\* No organization has more sessions than the maximum, however many logins are
\* between their call to the service and the table at the same time.
SessionsBounded ==
  \A o \in Orgs : Cardinality(OfOrg(sessions, o)) <= MaxSessions

\* A session that was logged out is never there again: requests under it that
\* began before, each of which stores the session anew, do not bring it back.
LoggedOutForEver ==
  ended \cap DOMAIN sessions = {}

\* An answer is served from the cache only for so long after it was read from
\* the service, however long the call took: its age is counted from before.
CachedAnswersAreRecent ==
  \A o \in Orgs : cache[o] # NoEntry => cache[o].until <= cache[o].read + CacheTTL

\* SPEC_WEB C6.5: after a restart of the service, the running interface reads the
\* token anew at its next login, so a login is refused only when the service is
\* down or does not know the organization.
TokenReadAgain ==
  [][\A t \in Threads :
       At(t, "login") /\ threads'[t].op = "failed" => ~Accepts(threads[t].org, run)]_vars
=============================================================================
