--------------------------- MODULE OperatorAccess ---------------------------
(***************************************************************************)
(* Who may do what: operator sessions with their CSRF token, the three     *)
(* bearer tokens of machine callers, and the guards that routes put in     *)
(* front of the application.  A request is what the guards look at; the    *)
(* password check and the random tokens are external.                      *)
(***************************************************************************)
EXTENDS Naturals

CONSTANTS
  Tokens,      \* session tokens; the CSRF token of a session goes with it
  NoToken,
  Ttl,         \* ttlMs
  MaxClock,    \* bound on the clock
  MaxRestarts, \* bound on restarts
  Configured   \* bearer tokens with a configured hash

Scopes == {"ingest", "analyzer", "webhook"}

ASSUME AccessAssumption ==
  /\ NoToken \notin Tokens /\ Ttl \in Nat \ {0} /\ MaxClock \in Nat \ {0} /\ MaxRestarts \in Nat
  /\ Configured \subseteq Scopes

VARIABLES
  clock,
  sessions,  \* #sessions: expiresAt by token, 0 where there is no entry
  born,      \* when a token was minted, 0 if it was not (history)
  revoked,   \* tokens whose session was ended by logout or restart (history)
  restarts,
  answer     \* the request in hand and the verdict of its guard

accessVars == <<clock, sessions, born, revoked, restarts, answer>>

-----------------------------------------------------------------------------
(* Requests and guards.                                                    *)

\* read and write: operator only.  The others also take a bearer token.
Guards == {"read", "write"} \cup {"analyzer read", "analyzer write", "webhook read", "webhook write", "ingest"}
Writes == {"write", "analyzer write", "webhook write", "ingest"}

Scope(guard) ==
  CASE guard \in {"analyzer read", "analyzer write"} -> "analyzer"
    [] guard \in {"webhook read", "webhook write"} -> "webhook"
    [] guard = "ingest" -> "ingest"
    [] OTHER -> "none"

Requests ==
  [guard : Guards, cookie : Tokens \cup {NoToken}, csrf : Tokens \cup {NoToken},
   bearer : {"absent", "unknown"} \cup Scopes,
   origin : {"absent", "allowed", "foreign"}, site : {"benign", "cross-site"}]

NoRequest == [guard |-> "none", cookie |-> NoToken, csrf |-> NoToken,
              bearer |-> "absent", origin |-> "absent", site |-> "benign"]

\* authenticate: the session behind the cookie.
Authenticated(t) == t # NoToken /\ sessions[t] # 0 /\ sessions[t] > clock

VerifyCsrf(r) == r.csrf = r.cookie
OriginAllowed(r) == r.origin # "foreign"
FetchMetadataAllowed(r) == r.site # "cross-site"

JsonRequireSession(r) == IF Authenticated(r.cookie) THEN "operator" ELSE "unauthenticated"

JsonRequireMutation(r) ==
  IF ~Authenticated(r.cookie) THEN "unauthenticated"
  ELSE IF VerifyCsrf(r) /\ OriginAllowed(r) /\ FetchMetadataAllowed(r) THEN "operator" ELSE "forbidden"

BySession(r) == IF r.guard \in Writes THEN JsonRequireMutation(r) ELSE JsonRequireSession(r)

\* Seeded fault: a bearer token that fails is ignored.
BearerFallsThrough(r) ==
  IF r.bearer \in Configured /\ r.bearer = Scope(r.guard) THEN "token" ELSE BySession(r)

\* The bearer guards: any Authorization header decides alone.
ByBearerOrSession(r) ==
  IF r.bearer = "absent" THEN BySession(r)
  ELSE IF r.bearer \in Configured /\ r.bearer = Scope(r.guard) THEN "token" ELSE "unauthenticated"

\* The operator guards do not look at the header.
Authorize(r) == IF Scope(r.guard) = "none" THEN BySession(r) ELSE ByBearerOrSession(r)

-----------------------------------------------------------------------------

NoAnswer == [request |-> NoRequest, verdict |-> "none"]

AccessInit ==
  /\ clock = 1
  /\ sessions = [t \in Tokens |-> 0] /\ born = [t \in Tokens |-> 0]
  /\ revoked = {} /\ restarts = 0 /\ answer = NoAnswer

\* A session's deadline is never further than its lifetime from now, and an
\* answer is one of the guard's verdicts (createSession, the route guards).
AccessTypeOK ==
  /\ clock \in 1..MaxClock /\ restarts \in 0..MaxRestarts
  /\ sessions \in [Tokens -> 0..(MaxClock + Ttl)] /\ born \in [Tokens -> 0..MaxClock]
  /\ revoked \subseteq Tokens
  /\ answer.verdict \in {"none", "operator", "token", "unauthenticated", "forbidden"}

\* A password that checks out mints a token.
Login(t) ==
  /\ answer = NoAnswer /\ born[t] = 0
  /\ born' = [born EXCEPT ![t] = clock]
  /\ sessions' = [sessions EXCEPT ![t] = clock + Ttl]
  /\ UNCHANGED <<clock, revoked, restarts, answer>>

\* The guard answers; authenticate drops the entry of an expired session.
Handle(r) ==
  /\ answer = NoAnswer
  /\ answer' = [request |-> r, verdict |-> Authorize(r)]
  /\ sessions' = [t \in Tokens |->
       IF t = r.cookie /\ (r.bearer = "absent" \/ Scope(r.guard) = "none") /\ ~Authenticated(t)
       THEN 0 ELSE sessions[t]]
  /\ UNCHANGED <<clock, born, revoked, restarts>>

\* DELETE /api/v1/session, a write that the guard let through.
Logout ==
  /\ answer.request.guard = "write" /\ answer.verdict = "operator"
  /\ sessions' = [sessions EXCEPT ![answer.request.cookie] = 0]
  /\ revoked' = revoked \cup {answer.request.cookie}
  /\ answer' = NoAnswer
  /\ UNCHANGED <<clock, born, restarts>>

\* The route does its work, or the error is sent.
Reply ==
  /\ answer # NoAnswer
  /\ answer' = NoAnswer
  /\ UNCHANGED <<clock, sessions, born, revoked, restarts>>

Tick ==
  /\ answer = NoAnswer /\ clock < MaxClock
  /\ clock' = clock + 1
  /\ UNCHANGED <<sessions, born, revoked, restarts, answer>>

\* Sessions are kept in the process only.
Restart ==
  /\ answer = NoAnswer /\ restarts < MaxRestarts
  /\ restarts' = restarts + 1
  /\ sessions' = [t \in Tokens |-> 0]
  /\ revoked' = {t \in Tokens : born[t] # 0}
  /\ UNCHANGED <<clock, born, answer>>

AccessNext ==
  \/ \E t \in Tokens : Login(t)
  \/ \E r \in Requests : Handle(r)
  \/ Logout \/ Reply \/ Tick \/ Restart

AccessSpec == AccessInit /\ [][AccessNext]_accessVars

-----------------------------------------------------------------------------
(* Properties.                                                             *)

\* From the history alone: the operator who logged in with t may still act.
Live(t) == t # NoToken /\ born[t] # 0 /\ t \notin revoked /\ clock < born[t] + Ttl

EntitledBySession(r) ==
  /\ Live(r.cookie)
  /\ r.guard \in Writes => r.csrf = r.cookie /\ r.origin # "foreign" /\ r.site = "benign"

EntitledByBearer(r) ==
  \/ r.bearer = "ingest" /\ r.guard = "ingest"
  \/ r.bearer = "analyzer" /\ r.guard \in {"analyzer read", "analyzer write"}
  \/ r.bearer = "webhook" /\ r.guard \in {"webhook read", "webhook write"}

\* The guards let a request through exactly when its caller is entitled: by a
\* session that was not ended, did not expire and did not die with an earlier
\* process, with its evidence on writes, or by a configured bearer token inside
\* its scope; and where a bearer token may be used, a request that brings one
\* is never rescued by a cookie (contracts/json.ts, sessions.ts).
AccessIsExact ==
  LET r == answer.request IN
  answer # NoAnswer =>
    (answer.verdict \in {"operator", "token"} <=>
       \/ EntitledBySession(r) /\ (r.bearer = "absent" \/ r.guard \in {"read", "write"})
       \/ EntitledByBearer(r) /\ r.bearer \in Configured)

\* 401 is what the browser takes for a logout and 403 is not: an operator whose
\* session is alive and who brings no bearer token is never told 401.
RefusalTellsWhy ==
  answer.verdict = "unauthenticated" /\ answer.request.bearer = "absent"
    => ~Live(answer.request.cookie)

\* Refusing a request costs nobody the session: only logout, expiry and a
\* restart end one.
SessionsKept ==
  answer'.verdict \in {"unauthenticated", "forbidden"} =>
    \A t \in Tokens : Live(t) => sessions'[t] = sessions[t]
RefusalKeepsSessions == [][SessionsKept]_accessVars

\* Who is let through, and what a refusal says, together.
AccessIsSound == AccessTypeOK /\ AccessIsExact /\ RefusalTellsWhy
=============================================================================
