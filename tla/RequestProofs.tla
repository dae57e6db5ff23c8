---------------------------- MODULE RequestProofs ----------------------------
(***************************************************************************)
(* Proofs about the requests of the API: OperatorAccess, for any set of    *)
(* session tokens, any lifetime and any choice of configured bearer        *)
(* tokens, DumpDownload, for any set of clients, any length of the dump    *)
(* and any number of requests, RateLimiter, for any set of addresses, any  *)
(* limit, window and size of the table, and the refusals of ApiRequests,   *)
(* for any set of report identities and any cap on them.                   *)
(***************************************************************************)
EXTENDS ApiModels, FiniteSetTheorems, WellFoundedInduction, TLAPS

-----------------------------------------------------------------------------
(* OperatorAccess.                                                         *)

Verdicts == {"none", "operator", "token", "unauthenticated", "forbidden"}
Answers == [request : Requests \cup {NoRequest}, verdict : Verdicts]

\* The map of the process against the history: an entry has the deadline of its
\* token's login and was not ended, and a token that may still act has its entry.
EntrySound(t) ==
  /\ sessions[t] # 0 => born[t] # 0 /\ sessions[t] = born[t] + Ttl /\ t \notin revoked
  /\ Live(t) => sessions[t] = born[t] + Ttl
  /\ t \in revoked => born[t] # 0

AccessInv ==
  /\ clock \in 1..MaxClock /\ restarts \in 0..MaxRestarts
  /\ sessions \in [Tokens -> 0..(MaxClock + Ttl)] /\ born \in [Tokens -> 0..MaxClock]
  /\ revoked \subseteq Tokens /\ answer \in Answers
  /\ \A t \in Tokens : EntrySound(t)
  /\ AccessIsExact /\ RefusalTellsWhy

\* authenticate finds exactly the sessions that the history calls alive.
LEMMA AuthenticatedIsLive ==
  ASSUME AccessInv, NEW t \in Tokens \cup {NoToken}
  PROVE  Authenticated(t) <=> Live(t)
<1>1. Ttl \in Nat \ {0} /\ NoToken \notin Tokens
  BY AccessAssumption
<1>2. CASE t = NoToken
  BY <1>2 DEF Authenticated, Live
<1>3. CASE t \in Tokens
  <2>1. clock \in Nat /\ sessions[t] \in Nat /\ born[t] \in Nat /\ EntrySound(t)
    BY <1>1, <1>3, AccessAssumption DEF AccessInv
  <2>2. QED
    BY <1>1, <1>3, <2>1 DEF Authenticated, Live, EntrySound
<1>4. QED
  BY <1>2, <1>3

-----------------------------------------------------------------------------
(* The guards.                                                             *)

LEMMA RequestFacts ==
  ASSUME NEW r \in Requests
  PROVE  /\ r.guard \in Guards /\ r.cookie \in Tokens \cup {NoToken} /\ r.csrf \in Tokens \cup {NoToken}
         /\ r.bearer \in {"absent", "unknown"} \cup Scopes
         /\ r.origin \in {"absent", "allowed", "foreign"} /\ r.site \in {"benign", "cross-site"}
         /\ r # NoRequest
<1>1. r.guard \in Guards /\ "none" \notin Guards
  BY DEF Requests, Guards
<1>2. NoRequest.guard = "none"
  BY DEF NoRequest
<1>3. QED
  BY <1>1, <1>2 DEF Requests

LEMMA SessionVerdict ==
  ASSUME AccessInv, NEW r \in Requests
  PROVE  /\ BySession(r) \in {"operator", "unauthenticated", "forbidden"}
         /\ BySession(r) = "operator" <=> EntitledBySession(r)
         /\ BySession(r) = "unauthenticated" <=> ~Live(r.cookie)
<1>1. Authenticated(r.cookie) <=> Live(r.cookie)
  BY AuthenticatedIsLive, RequestFacts
<1>2. r.site \in {"benign", "cross-site"}
  BY RequestFacts
<1>3. QED
  BY <1>1, <1>2 DEF BySession, JsonRequireMutation, JsonRequireSession, EntitledBySession,
                    VerifyCsrf, OriginAllowed, FetchMetadataAllowed

LEMMA ScopeFacts ==
  ASSUME NEW r \in Requests
  PROVE  /\ Scope(r.guard) = "none" <=> r.guard \in {"read", "write"}
         /\ r.bearer \in Configured => (r.bearer = Scope(r.guard) <=> EntitledByBearer(r))
         /\ r.bearer = "absent" => r.bearer \notin Configured /\ ~EntitledByBearer(r)
         /\ r.guard \in {"read", "write"} => ~EntitledByBearer(r)
<1>1. r.guard \in Guards /\ r.bearer \in {"absent", "unknown"} \cup Scopes
  BY RequestFacts
<1>2. Configured \subseteq Scopes
  BY AccessAssumption
<1>3. Scope(r.guard) = "none" <=> r.guard \in {"read", "write"}
  BY <1>1 DEF Scope, Guards
<1>4. r.bearer \in Configured => (r.bearer = Scope(r.guard) <=> EntitledByBearer(r))
  BY <1>1, <1>2 DEF Scope, Guards, Scopes, EntitledByBearer
<1>5. r.bearer = "absent" => r.bearer \notin Configured /\ ~EntitledByBearer(r)
  BY <1>2 DEF Scopes, EntitledByBearer
<1>6. r.guard \in {"read", "write"} => ~EntitledByBearer(r)
  BY DEF EntitledByBearer
<1>7. QED
  BY <1>3, <1>4, <1>5, <1>6

\* The verdict on a request, whatever it brings.
LEMMA VerdictFacts ==
  ASSUME AccessInv, NEW r \in Requests
  PROVE  /\ Authorize(r) \in Verdicts
         /\ Authorize(r) \in {"operator", "token"} <=>
              \/ EntitledBySession(r) /\ (r.bearer = "absent" \/ r.guard \in {"read", "write"})
              \/ EntitledByBearer(r) /\ r.bearer \in Configured
         /\ Authorize(r) = "unauthenticated" /\ r.bearer = "absent" => ~Live(r.cookie)
         /\ Authorize(r) = "operator" => Live(r.cookie)
<1>1. /\ BySession(r) \in {"operator", "unauthenticated", "forbidden"}
      /\ BySession(r) = "operator" <=> EntitledBySession(r)
      /\ BySession(r) = "unauthenticated" <=> ~Live(r.cookie)
  BY SessionVerdict
<1>2. EntitledBySession(r) => Live(r.cookie)
  BY DEF EntitledBySession
<1>3. CASE Scope(r.guard) = "none"
  BY <1>1, <1>2, <1>3, ScopeFacts DEF Authorize, Verdicts
<1>4. CASE Scope(r.guard) # "none"
  <2>1. r.guard \notin {"read", "write"}
    BY <1>4, ScopeFacts
  <2>2. CASE r.bearer = "absent"
    BY <1>1, <1>2, <1>4, <2>1, <2>2, ScopeFacts DEF Authorize, ByBearerOrSession, Verdicts
  <2>3. CASE r.bearer # "absent"
    BY <1>4, <2>1, <2>3, ScopeFacts DEF Authorize, ByBearerOrSession, Verdicts
  <2>4. QED
    BY <2>2, <2>3
<1>5. QED
  BY <1>3, <1>4

-----------------------------------------------------------------------------
(* One step.                                                               *)

LEMMA NoAnswerFacts ==
  /\ NoAnswer \in Answers /\ NoAnswer.verdict = "none" /\ NoAnswer.request = NoRequest
  /\ NoRequest.guard = "none"
BY DEF NoAnswer, Answers, Verdicts, NoRequest

\* Without an answer in hand, what is left to show is about the entries.
LEMMA NothingInHand ==
  ASSUME answer' = NoAnswer
  PROVE  answer' \in Answers /\ AccessIsExact' /\ RefusalTellsWhy'
BY NoAnswerFacts DEF AccessIsExact, RefusalTellsWhy

LEMMA LoginKeeps ==
  ASSUME AccessInv, NEW t \in Tokens, Login(t)
  PROVE  AccessInv'
<1>1. Ttl \in Nat \ {0} /\ NoToken \notin Tokens /\ MaxClock \in Nat
  BY AccessAssumption
<1>2. clock \in 1..MaxClock /\ clock + Ttl \in 0..(MaxClock + Ttl) /\ clock \in 0..MaxClock
  BY <1>1 DEF AccessInv
<1>3. sessions' \in [Tokens -> 0..(MaxClock + Ttl)] /\ born' \in [Tokens -> 0..MaxClock]
  BY <1>2 DEF AccessInv, Login
<1>4. ASSUME NEW u \in Tokens PROVE EntrySound(u)'
  <2>1. CASE u = t
    <3>1. sessions'[u] = clock + Ttl /\ born'[u] = clock /\ u \notin revoked'
      BY <2>1 DEF AccessInv, Login, EntrySound
    <3>2. QED
      BY <1>1, <1>2, <3>1 DEF EntrySound
  <2>2. CASE u # t
    BY <2>2 DEF AccessInv, Login, EntrySound, Live
  <2>3. QED
    BY <2>1, <2>2
<1>5. answer' = NoAnswer
  BY DEF Login
<1>6. QED
  BY <1>3, <1>4, <1>5, NothingInHand DEF AccessInv, Login

LEMMA HandleKeeps ==
  ASSUME AccessInv, NEW r \in Requests, Handle(r)
  PROVE  AccessInv' /\ \A t \in Tokens : Live(t) => sessions'[t] = sessions[t]
<1>1. Ttl \in Nat \ {0} /\ NoToken \notin Tokens /\ MaxClock \in Nat
  BY AccessAssumption
<1>2. /\ clock' = clock /\ born' = born /\ revoked' = revoked /\ restarts' = restarts
      /\ answer' = [request |-> r, verdict |-> Authorize(r)]
  BY DEF Handle
<1>3. \A t \in Tokens : sessions'[t] = sessions[t] \/ (sessions'[t] = 0 /\ ~Authenticated(t))
  BY DEF Handle
<1>4. sessions' \in [Tokens -> 0..(MaxClock + Ttl)]
  BY <1>1 DEF Handle, AccessInv
<1>5. \A t \in Tokens : Live(t) => sessions'[t] = sessions[t]
  BY <1>3, AuthenticatedIsLive
<1>6. \A t : Live(t)' <=> Live(t)
  BY <1>2 DEF Live
<1>7. \A t \in Tokens : EntrySound(t)'
  BY <1>2, <1>3, <1>5, <1>6 DEF AccessInv, EntrySound
<1>8. answer' \in Answers /\ answer'.request = r /\ answer'.verdict = Authorize(r)
  BY <1>2, VerdictFacts DEF Answers
<1>9. EntitledBySession(r)' <=> EntitledBySession(r)
  BY <1>6 DEF EntitledBySession
<1>10. EntitledByBearer(r)' <=> EntitledByBearer(r)
  BY DEF EntitledByBearer
<1>11. AccessIsExact'
  BY <1>8, <1>9, <1>10, VerdictFacts DEF AccessIsExact, EntitledBySession, EntitledByBearer
<1>12. RefusalTellsWhy'
  BY <1>6, <1>8, VerdictFacts DEF RefusalTellsWhy
<1>13. QED
  BY <1>2, <1>4, <1>5, <1>7, <1>8, <1>11, <1>12 DEF AccessInv

\* Only the bearer of a live session can end it.
LEMMA LogoutKeeps ==
  ASSUME AccessInv, Logout
  PROVE  AccessInv'
<1> DEFINE t == answer.request.cookie
<1>1. answer # NoAnswer /\ ~EntitledByBearer(answer.request)
  BY NoAnswerFacts DEF Logout, EntitledByBearer
<1>2. EntitledBySession(answer.request)
  BY <1>1 DEF AccessInv, AccessIsExact, Logout
<1>3. Live(t) /\ t # NoToken
  BY <1>2 DEF EntitledBySession, Live
<1>4. answer.request \in Requests
  BY <1>1, NoAnswerFacts DEF AccessInv, Answers, Logout
<1>5. t \in Tokens
  BY <1>3, <1>4, RequestFacts
<1>6. /\ sessions' = [sessions EXCEPT ![t] = 0] /\ revoked' = revoked \cup {t} /\ answer' = NoAnswer
      /\ clock' = clock /\ born' = born /\ restarts' = restarts
  BY DEF Logout
<1>7. Ttl \in Nat \ {0} /\ MaxClock \in Nat
  BY AccessAssumption
<1>8. sessions' \in [Tokens -> 0..(MaxClock + Ttl)]
  <2>1. 0 \in 0..(MaxClock + Ttl)
    BY <1>7
  <2>2. QED
    BY <1>6, <2>1 DEF AccessInv
<1>9. ASSUME NEW u \in Tokens PROVE EntrySound(u)'
  <2>1. CASE u = t
    BY <1>3, <1>6, <2>1 DEF AccessInv, EntrySound, Live
  <2>2. CASE u # t
    BY <1>6, <2>2 DEF AccessInv, EntrySound, Live
  <2>3. QED
    BY <2>1, <2>2
<1>10. QED
  BY <1>5, <1>6, <1>8, <1>9, NothingInHand DEF AccessInv

LEMMA ClockKeeps ==
  ASSUME AccessInv, Reply \/ Tick \/ Restart
  PROVE  AccessInv'
<1>1. Ttl \in Nat \ {0} /\ MaxClock \in Nat /\ MaxRestarts \in Nat
  BY AccessAssumption
<1>2. answer' = NoAnswer
  BY DEF Reply, Tick, Restart
<1>3. CASE Reply
  <2>1. \A t \in Tokens : EntrySound(t)'
    BY <1>3 DEF Reply, AccessInv, EntrySound, Live
  <2>2. QED
    BY <1>2, <1>3, <2>1, NothingInHand DEF Reply, AccessInv
<1>4. CASE Tick
  <2>1. clock' \in 1..MaxClock /\ clock' = clock + 1 /\ clock \in Nat
    BY <1>1, <1>4 DEF Tick, AccessInv
  <2>2. ASSUME NEW t \in Tokens PROVE EntrySound(t)'
    <3>1. born' = born /\ sessions' = sessions /\ revoked' = revoked /\ born[t] \in Nat
      BY <1>1, <1>4 DEF Tick, AccessInv
    <3>2. Live(t)' => Live(t)
      BY <1>1, <2>1, <3>1 DEF Live
    <3>3. QED
      BY <3>1, <3>2 DEF AccessInv, EntrySound
  <2>3. QED
    BY <1>2, <1>4, <2>1, <2>2, NothingInHand DEF Tick, AccessInv
<1>5. CASE Restart
  <2>1. restarts' \in 0..MaxRestarts /\ sessions' \in [Tokens -> 0..(MaxClock + Ttl)]
    BY <1>1, <1>5 DEF Restart, AccessInv
  <2>2. \A t \in Tokens : EntrySound(t)'
    BY <1>5 DEF Restart, AccessInv, EntrySound, Live
  <2>3. QED
    BY <1>2, <1>5, <2>1, <2>2, NothingInHand DEF Restart, AccessInv
<1>6. QED
  BY <1>3, <1>4, <1>5

LEMMA AccessStutter ==
  ASSUME AccessInv, UNCHANGED accessVars
  PROVE  AccessInv'
BY DEF accessVars, AccessInv, EntrySound, Live, AccessIsExact, RefusalTellsWhy, EntitledBySession,
       EntitledByBearer

LEMMA AccessStep ==
  ASSUME AccessInv, [AccessNext]_accessVars
  PROVE  AccessInv'
BY LoginKeeps, HandleKeeps, LogoutKeeps, ClockKeeps, AccessStutter DEF AccessNext

-----------------------------------------------------------------------------
(* The theorems.                                                           *)

\* The sessions in the process are those of the operators who logged in, did
\* not log out and did not live through a restart.
THEOREM AccessInvariant == AccessSpec => []AccessInv
<1>1. AccessInit => AccessInv
  <2> SUFFICES ASSUME AccessInit PROVE AccessInv
    OBVIOUS
  <2>1. Ttl \in Nat \ {0} /\ MaxClock \in Nat \ {0} /\ MaxRestarts \in Nat
    BY AccessAssumption
  <2>2. \A t \in Tokens : EntrySound(t)
    BY DEF AccessInit, EntrySound, Live
  <2>3. AccessIsExact /\ RefusalTellsWhy /\ answer \in Answers
    BY NoAnswerFacts DEF AccessInit, AccessIsExact, RefusalTellsWhy
  <2>4. QED
    BY <2>1, <2>2, <2>3 DEF AccessInit, AccessInv
<1>2. AccessInv /\ [AccessNext]_accessVars => AccessInv'
  BY AccessStep
<1>3. QED
  BY <1>1, <1>2, PTL DEF AccessSpec

\* A request is let through exactly when its caller is entitled, and a 401 is
\* not sent to an operator whose session is alive (contracts/json.ts,
\* sessions.ts).
THEOREM AccessSound == AccessSpec => []AccessIsSound
<1>1. AccessInv => AccessIsSound
  BY DEF AccessInv, AccessIsSound, AccessTypeOK, Answers, Verdicts
<1>2. QED
  BY <1>1, AccessInvariant, PTL

LEMMA SessionsAreKept ==
  ASSUME AccessInv, AccessNext
  PROVE  SessionsKept
<1>1. ASSUME NEW r \in Requests, Handle(r) PROVE SessionsKept
  BY <1>1, HandleKeeps DEF SessionsKept
<1>2. CASE (\E t \in Tokens : Login(t)) \/ Logout \/ Reply \/ Tick \/ Restart
  <2>1. answer' = NoAnswer
    BY <1>2 DEF Login, Logout, Reply, Tick, Restart
  <2>2. QED
    BY <2>1, NoAnswerFacts DEF SessionsKept
<1>3. QED
  BY <1>1, <1>2 DEF AccessNext

\* No refused request ends a live session, its own or another one
\* (authenticate drops expired entries only).
THEOREM RefusalsKeepSessions == AccessSpec => RefusalKeepsSessions
<1>1. AccessInv /\ [AccessNext]_accessVars => [SessionsKept]_accessVars
  BY SessionsAreKept
<1>2. QED
  BY <1>1, AccessInvariant, PTL DEF AccessSpec, RefusalKeepsSessions

-----------------------------------------------------------------------------
(* DumpDownload.                                                           *)

States == {"idle", "304", "404", "streaming", "cut", "complete", "gone"}
Stream == [state : States, pos : 0..Size, size : {0, Size}]
Bodies == {c \in Clients : Streaming(c)}

\* A body announces the size of the row and never runs past it; a body in flight
\* that was cut met a damaged file.
BodySound(c) ==
  /\ stream[c].state = "streaming" => stream[c].size = Size
  /\ stream[c].state = "complete" => stream[c].pos = Size
  /\ stream[c].state = "cut" => len < Size

DownloadInv ==
  /\ stream \in [Clients -> Stream] /\ len \in 0..Size
  /\ \A c \in Clients : BodySound(c)
  /\ IsFiniteSet(Bodies) /\ readers = Cardinality(Bodies)

-----------------------------------------------------------------------------
(* What a step does to the bodies.                                         *)

\* A step on the body of one client leaves the others alone.
LEMMA OtherBodies ==
  ASSUME NEW c \in Clients, NEW s \in Stream, stream \in [Clients -> Stream],
         stream' = [stream EXCEPT ![c] = s]
  PROVE  /\ stream' \in [Clients -> Stream] /\ stream'[c] = s
         /\ \A d \in Clients \ {c} : stream'[d] = stream[d]
         /\ Bodies' = IF s.state = "streaming" THEN Bodies \cup {c} ELSE Bodies \ {c}
BY DEF Bodies, Streaming

\* A body that begins opens one reader, a body that ends closes one.
LEMMA ReadersFollow ==
  ASSUME NEW c \in Clients, IsFiniteSet(Bodies), readers = Cardinality(Bodies)
  PROVE  /\ IsFiniteSet(Bodies \cup {c}) /\ IsFiniteSet(Bodies \ {c}) /\ readers \in Nat
         /\ ~Streaming(c) => /\ Cardinality(Bodies \cup {c}) = readers + 1
                             /\ Bodies \ {c} = Bodies
         /\ Streaming(c) => /\ Cardinality(Bodies \ {c}) = readers - 1
                            /\ Bodies \cup {c} = Bodies
<1>1. c \in Bodies <=> Streaming(c)
  BY DEF Bodies
<1>2. QED
  BY <1>1, FS_AddElement, FS_RemoveElement, FS_CardinalityType

LEMMA AnswerStep ==
  ASSUME NEW c \in Clients, NEW state \in States, DownloadInv, Answer(c, state)
  PROVE  LET s == [stream[c] EXCEPT !.state = state]
         IN  /\ s \in Stream /\ s.state = state /\ s.pos = stream[c].pos /\ s.size = stream[c].size
             /\ stream' = [stream EXCEPT ![c] = s]
BY DEF DownloadInv, Answer, Stream

LEMMA DownloadStep ==
  ASSUME DownloadInv, [DownloadNext]_downloadVars
  PROVE  DownloadInv'
<1>0. Size \in Nat /\ Size # 0 /\ 0 \in 0..Size /\ Size \in 0..Size
  BY DownloadBounds
<1>1. ASSUME NEW c \in Clients, NEW s \in Stream, stream' = [stream EXCEPT ![c] = s],
             len' = len, ~Streaming(c),
             s.state \in {"idle", "304", "404"}, readers' = readers
      PROVE  DownloadInv'
  <2>1. Bodies' = Bodies
    BY <1>1, OtherBodies, ReadersFollow DEF DownloadInv
  <2>2. BodySound(c)'
    BY <1>1, OtherBodies DEF DownloadInv, BodySound
  <2>3. \A d \in Clients \ {c} : BodySound(d)'
    BY <1>1, OtherBodies DEF DownloadInv, BodySound
  <2>4. QED
    BY <1>1, <2>1, <2>2, <2>3, OtherBodies DEF DownloadInv
<1>2. ASSUME NEW c \in Clients, NEW cached \in BOOLEAN, NEW fault \in Faults, Get(c, cached, fault)
      PROVE  DownloadInv'
  <2>1. len' = len /\ ~Streaming(c)
    BY <1>2 DEF Get, Streaming
  <2>2. CASE Answer(c, "304") /\ readers' = readers
    BY <1>1, <2>1, <2>2, AnswerStep DEF States
  <2>3. CASE Answer(c, "404") /\ readers' = readers
    BY <1>1, <2>1, <2>3, AnswerStep DEF States
  <2>4. CASE Servable /\ readers' = readers + 1 /\
             stream' = [stream EXCEPT ![c] = [state |-> "streaming", pos |-> 0, size |-> len]]
    <3> DEFINE s == [state |-> "streaming", pos |-> 0, size |-> len]
    <3>1. s \in Stream /\ s.state = "streaming" /\ s.size = Size
      BY <1>0, <2>4 DEF Servable, Stream, States
    <3>2. Bodies' = Bodies \cup {c}
      BY <2>4, <3>1, OtherBodies DEF DownloadInv
    <3>3. IsFiniteSet(Bodies') /\ readers' = Cardinality(Bodies')
      BY <2>1, <2>4, <3>2, ReadersFollow DEF DownloadInv
    <3>4. stream'[c] = s /\ \A d \in Clients \ {c} : stream'[d] = stream[d]
      BY <2>4, <3>1, OtherBodies DEF DownloadInv
    <3>5. \A d \in Clients : BodySound(d)'
      BY <2>1, <3>1, <3>4 DEF DownloadInv, BodySound
    <3>6. stream' \in [Clients -> Stream]
      BY <2>4, <3>1, OtherBodies DEF DownloadInv
    <3>7. QED
      BY <2>1, <3>3, <3>5, <3>6 DEF DownloadInv
  <2>5. readers \in Nat
    BY ReadersFollow DEF DownloadInv
  <2>6. \/ Answer(c, "304") /\ readers' = readers
        \/ Answer(c, "404") /\ readers' = readers
        \/ Servable /\ readers' = readers + 1 /\
           stream' = [stream EXCEPT ![c] = [state |-> "streaming", pos |-> 0, size |-> len]]
    BY <1>2, <2>5 DEF Get, OpenRefused
  <2>7. QED
    BY <2>2, <2>3, <2>4, <2>6
<1>3. ASSUME NEW c \in Clients, ReadChunk(c)
      PROVE  DownloadInv'
  <2> DEFINE s == [stream[c] EXCEPT !.pos = @ + 1]
  <2>1. stream[c] \in Stream /\ stream[c].size = Size /\ stream[c].state = "streaming"
    BY <1>3 DEF ReadChunk, Streaming, DownloadInv, BodySound
  <2>2. stream[c].pos + 1 \in 0..Size
    BY <1>0, <1>3, <2>1 DEF ReadChunk, Stream
  <2>3. s \in Stream /\ s.state = "streaming" /\ s.size = Size /\ stream' = [stream EXCEPT ![c] = s]
    BY <1>3, <2>1, <2>2 DEF ReadChunk, Stream
  <2>4. Bodies' = Bodies
    BY <1>3, <2>3, OtherBodies, ReadersFollow DEF DownloadInv, ReadChunk
  <2>5. stream'[c] = s /\ \A d \in Clients \ {c} : stream'[d] = stream[d]
    BY <2>3, OtherBodies DEF DownloadInv
  <2>6. \A d \in Clients : BodySound(d)'
    BY <1>3, <2>3, <2>5 DEF DownloadInv, BodySound, ReadChunk
  <2>7. stream' \in [Clients -> Stream]
    BY <2>3, OtherBodies DEF DownloadInv
  <2>8. QED
    BY <1>3, <2>4, <2>6, <2>7 DEF DownloadInv, ReadChunk
<1>4. ASSUME NEW c \in Clients, NEW state \in {"cut", "complete", "gone"}, Streaming(c), Close(c, state),
             state = "cut" => len < Size, state = "complete" => stream[c].pos = Size
      PROVE  DownloadInv'
  <2> DEFINE s == [stream[c] EXCEPT !.state = state]
  <2>0. Answer(c, state) /\ state \in States
    BY <1>4 DEF Close, States
  <2>1. s \in Stream /\ s.state = state /\ s.pos = stream[c].pos /\ stream' = [stream EXCEPT ![c] = s]
    BY <2>0, AnswerStep
  <2>2. Bodies' = Bodies \ {c}
    BY <1>4, <2>1, OtherBodies DEF DownloadInv
  <2>3. IsFiniteSet(Bodies') /\ readers' = Cardinality(Bodies')
    BY <1>4, <2>2, ReadersFollow DEF DownloadInv, Close
  <2>4. stream'[c] = s /\ \A d \in Clients \ {c} : stream'[d] = stream[d]
    BY <2>1, OtherBodies DEF DownloadInv
  <2>5. \A d \in Clients : BodySound(d)'
    BY <1>4, <2>1, <2>4 DEF DownloadInv, BodySound, Close
  <2>6. stream' \in [Clients -> Stream]
    BY <2>1, OtherBodies DEF DownloadInv
  <2>7. QED
    BY <1>4, <2>3, <2>5, <2>6 DEF DownloadInv, Close
<1>5. ASSUME NEW c \in Clients, EndedEarly(c) \/ End(c) \/ ClientGone(c)
      PROVE  DownloadInv'
  <2>1. Streaming(c) => stream[c].size = Size /\ stream[c].pos \in 0..Size /\ len \in 0..Size
    BY DEF DownloadInv, BodySound, Streaming, Stream
  <2>2. CASE EndedEarly(c)
    <3>1. len < Size
      BY <1>0, <2>1, <2>2 DEF EndedEarly, InPlace
    <3>2. QED
      BY <1>4, <2>2, <3>1 DEF EndedEarly
  <2>3. CASE End(c)
    BY <1>4, <2>1, <2>3 DEF End
  <2>4. CASE ClientGone(c)
    BY <1>4, <2>4 DEF ClientGone
  <2>5. QED
    BY <1>5, <2>2, <2>3, <2>4
<1>6. ASSUME NEW c \in Clients, Again(c)
      PROVE  DownloadInv'
  <2>1. NoStream \in Stream /\ NoStream.state = "idle"
    BY <1>0 DEF NoStream, Stream, States
  <2>2. len' = len /\ ~Streaming(c) /\ readers' = readers /\ stream' = [stream EXCEPT ![c] = NoStream]
    BY <1>6 DEF Again, Streaming
  <2>3. QED
    BY <1>1, <2>1, <2>2
<1>7. CASE BeginPurge \/ Remove \/ FinishPurge \/ Damage \/ UNCHANGED downloadVars
  <2>1. stream' = stream /\ readers' = readers /\ len' \in 0..Size /\ (len' = len \/ len' < Size)
    BY <1>0, <1>7 DEF BeginPurge, Remove, FinishPurge, Damage, downloadVars, DownloadInv
  <2>2. Bodies' = Bodies
    BY <2>1 DEF Bodies, Streaming
  <2>3. \A d \in Clients : BodySound(d)'
    BY <2>1 DEF DownloadInv, BodySound
  <2>4. QED
    BY <2>1, <2>2, <2>3 DEF DownloadInv
<1>8. QED
  BY <1>2, <1>3, <1>5, <1>6, <1>7 DEF DownloadNext

-----------------------------------------------------------------------------
(* The theorems.                                                           *)

\* Requests, bodies, the purge and damage keep the types, the announced size
\* and the count of the readers.
THEOREM DownloadInvariant == DownloadSpec => []DownloadInv
<1>1. DownloadInit => DownloadInv
  <2> SUFFICES ASSUME DownloadInit PROVE DownloadInv
    OBVIOUS
  <2>1. Size \in Nat /\ NoStream \in Stream /\ NoStream.state = "idle"
    BY DownloadBounds DEF NoStream, Stream, States
  <2>2. Bodies = {}
    BY <2>1 DEF DownloadInit, Bodies, Streaming
  <2>3. IsFiniteSet(Bodies) /\ Cardinality(Bodies) = 0
    BY <2>2, FS_EmptySet
  <2>4. QED
    BY <2>1, <2>3 DEF DownloadInit, DownloadInv, BodySound
<1>2. DownloadInv /\ [DownloadNext]_downloadVars => DownloadInv'
  BY DownloadStep
<1>3. QED
  BY <1>1, <1>2, PTL DEF DownloadSpec

\* A body that ends without an error has the size of the row, a purge cuts no
\* body, and the open readers are those of the bodies in flight, for any number
\* of clients at once (openDownload, readerStream).
THEOREM DownloadsAreWhole == DownloadSpec => []DownloadIsWhole
<1>1. DownloadInv => DownloadIsWhole
  BY DEF DownloadInv, BodySound, DownloadIsWhole, CompleteBodyIsWhole, ReadersAccounted,
         PurgeCutsNoBody, Bodies
<1>2. QED
  BY <1>1, DownloadInvariant, PTL

-----------------------------------------------------------------------------
(* RateLimiter.                                                            *)

Calls == [key : Addresses, at : 0..MaxNow, granted : BOOLEAN]

\* The calls of an address from a time on.
Since(h, a, t) == {i \in 1..Len(h) : h[i].key = a /\ h[i].at >= t}

LimiterTypes ==
  /\ now \in 0..MaxNow /\ history \in Seq(Calls)
  /\ \A i \in 1..Len(history) : history[i].at <= now
  /\ TableIsBounded /\ IsFiniteSet(DOMAIN entries)

\* An entry against the calls: the last one is the one it was seen at, and its
\* attempts were made since it began.
EntryEarned(a) ==
  /\ entries[a].startedAt <= entries[a].lastSeenAt /\ entries[a].lastSeenAt <= now
  /\ \E i \in 1..Len(history) : history[i].key = a /\ history[i].at = entries[a].lastSeenAt
  /\ entries[a].attempts <= Cardinality(Since(history, a, entries[a].startedAt))

\* What an address was granted in the span from t on, while fewer others than
\* the table holds were seen in it: at most one entry that began before the
\* span and one that began in it.
SpanBounded(a, t) ==
  LET g == Cardinality(GrantedTo(a, t)) IN
  Cardinality(OthersIn(a, t)) < MaxKeys =>
    /\ g <= 2 * Limit
    /\ now < t + Window =>
         /\ a \notin DOMAIN entries => g <= Limit
         /\ a \in DOMAIN entries /\ entries[a].startedAt < t => g <= Limit /\ g <= entries[a].attempts
         /\ a \in DOMAIN entries /\ entries[a].startedAt >= t => g <= Limit + entries[a].attempts

LimiterInv ==
  /\ LimiterTypes
  /\ \A a \in DOMAIN entries : EntryEarned(a)
  /\ \A a \in Addresses, t \in Nat : SpanBounded(a, t)
  /\ RefusalIsEarned

LEMMA SpansAreFinite ==
  ASSUME history \in Seq(Calls), NEW a, NEW t
  PROVE  /\ IsFiniteSet(CallsIn(t)) /\ IsFiniteSet(GrantedTo(a, t)) /\ IsFiniteSet(OthersIn(a, t))
         /\ IsFiniteSet(Since(history, a, t))
<1>1. IsFiniteSet(1..Len(history))
  BY FS_Interval
<1>2. IsFiniteSet(CallsIn(t))
  BY <1>1, FS_Subset DEF CallsIn
<1>3. IsFiniteSet(GrantedTo(a, t))
  BY <1>2, FS_Subset DEF GrantedTo
<1>4. IsFiniteSet({history[i].key : i \in CallsIn(t)})
  <2> DEFINE f == [i \in CallsIn(t) |-> history[i].key]
             R == {history[i].key : i \in CallsIn(t)}
  <2>1. f \in Surjection(CallsIn(t), R)
    BY DEF Surjection
  <2> HIDE DEF f, R
  <2>2. IsFiniteSet(R)
    BY <1>2, <2>1, FS_Surjection
  <2> QED  BY <2>2 DEF R
<1>5. IsFiniteSet(OthersIn(a, t))
  <2> DEFINE R == {history[i].key : i \in CallsIn(t)}
  <2>1. OthersIn(a, t) \subseteq R
    BY DEF OthersIn
  <2> HIDE DEF R
  <2>2. IsFiniteSet(R)
    BY <1>4 DEF R
  <2> QED  BY <2>1, <2>2, FS_Subset
<1>6. IsFiniteSet(Since(history, a, t))
  BY <1>1, FS_Subset DEF Since
<1>7. QED
  BY <1>2, <1>3, <1>5, <1>6

-----------------------------------------------------------------------------
(* One more call.                                                          *)

LEMMA CallAdded ==
  ASSUME LimiterTypes, NEW a \in Addresses, NEW g \in BOOLEAN, Answered(a, g), now' = now
  PROVE  /\ history' \in Seq(Calls) /\ Len(history') = Len(history) + 1 /\ Len(history) \in Nat
         /\ \A i \in 1..Len(history) : history'[i] = history[i]
         /\ history'[Len(history) + 1] = [key |-> a, at |-> now, granted |-> g]
         /\ \A i \in 1..Len(history') : history'[i].at <= now'
<1> DEFINE c == [key |-> a, at |-> now, granted |-> g]
<1>1. c \in Calls /\ c.at = now
  BY DEF LimiterTypes, Calls
<1>2. history' = Append(history, c)
  BY DEF Answered
<1> HIDE DEF c
<1>3. /\ history' \in Seq(Calls) /\ Len(history') = Len(history) + 1 /\ Len(history) \in Nat
      /\ \A i \in 1..Len(history) : history'[i] = history[i]
      /\ history'[Len(history) + 1] = c
  BY <1>1, <1>2 DEF LimiterTypes
<1>4. now <= now /\ now \in Nat
  BY LimiterAssumption DEF LimiterTypes
<1>5. \A i \in 1..Len(history') : history'[i].at <= now'
  <2> SUFFICES ASSUME NEW i \in 1..Len(history') PROVE history'[i].at <= now
    OBVIOUS
  <2>1. CASE i = Len(history) + 1
    BY <1>1, <1>3, <1>4, <2>1
  <2>2. CASE i # Len(history) + 1
    <3>1. i \in 1..Len(history)
      BY <1>3, <2>2
    <3> QED  BY <1>3, <3>1 DEF LimiterTypes
  <2> QED  BY <2>1, <2>2
<1>6. QED
  BY <1>3, <1>5 DEF c

\* What it does to a span.
LEMMA SpanAfterCall ==
  ASSUME LimiterTypes, NEW a \in Addresses, NEW g \in BOOLEAN, Answered(a, g), now' = now,
         NEW b \in Addresses, NEW t \in Nat
  PROVE  /\ OthersIn(b, t) \subseteq OthersIn(b, t)'
         /\ Cardinality(OthersIn(b, t)) \in Nat /\ Cardinality(OthersIn(b, t)') \in Nat
         /\ Cardinality(OthersIn(b, t)) <= Cardinality(OthersIn(b, t)')
         /\ t <= now /\ now < t + Window /\ a # b => a \in OthersIn(b, t)'
         /\ Cardinality(GrantedTo(b, t)) \in Nat
         /\ Cardinality(GrantedTo(b, t)') \in Nat
         /\ Cardinality(GrantedTo(b, t)') =
              Cardinality(GrantedTo(b, t)) + (IF a = b /\ g /\ t <= now /\ now < t + Window THEN 1 ELSE 0)
<1> DEFINE n == Len(history)
<1>1. /\ history' \in Seq(Calls) /\ Len(history') = n + 1 /\ n \in Nat
      /\ \A i \in 1..n : history'[i] = history[i]
      /\ history'[n + 1].key = a /\ history'[n + 1].at = now /\ history'[n + 1].granted = g
  <2>1. history'[n + 1] = [key |-> a, at |-> now, granted |-> g]
    BY CallAdded
  <2>2. /\ history' \in Seq(Calls) /\ Len(history') = n + 1 /\ n \in Nat
        /\ \A i \in 1..n : history'[i] = history[i]
    BY CallAdded
  <2> QED  BY <2>1, <2>2
<1>2. history \in Seq(Calls) /\ now \in Nat
  BY LimiterAssumption DEF LimiterTypes
<1>3. CallsIn(t)' = IF t <= now /\ now < t + Window THEN CallsIn(t) \cup {n + 1} ELSE CallsIn(t)
  <2>1. ASSUME NEW i PROVE i \in CallsIn(t)' <=> i \in CallsIn(t) \/ (i = n + 1 /\ t <= now /\ now < t + Window)
    <3>1. CASE i \in 1..n
      BY <1>1, <3>1 DEF CallsIn
    <3>2. CASE i = n + 1
      <4>1. i \in 1..(n + 1) /\ i \notin 1..n
        BY <1>1, <3>2
      <4>2. i \in CallsIn(t)' <=> t <= now /\ now < t + Window
        BY <1>1, <1>2, <3>2, <4>1 DEF CallsIn
      <4>3. i \notin CallsIn(t)
        BY <4>1 DEF CallsIn
      <4> QED  BY <3>2, <4>2, <4>3
    <3>3. CASE i \notin 1..n /\ i # n + 1
      <4>1. i \notin 1..(n + 1)
        BY <1>1, <3>3
      <4> QED  BY <1>1, <3>3, <4>1 DEF CallsIn
    <3> QED  BY <3>1, <3>2, <3>3
  <2> QED  BY <2>1
<1>4. \A i \in CallsIn(t) : i \in 1..n /\ history'[i] = history[i]
  BY <1>1 DEF CallsIn
<1>5. OthersIn(b, t) \subseteq OthersIn(b, t)'
  BY <1>3, <1>4 DEF OthersIn
<1>6. t <= now /\ now < t + Window /\ a # b => a \in OthersIn(b, t)'
  BY <1>1, <1>3 DEF OthersIn
<1>7. /\ IsFiniteSet(OthersIn(b, t)) /\ IsFiniteSet(GrantedTo(b, t))
      /\ IsFiniteSet(OthersIn(b, t)') /\ IsFiniteSet(GrantedTo(b, t)')
  <2>1. IsFiniteSet(OthersIn(b, t)) /\ IsFiniteSet(GrantedTo(b, t)) /\ IsFiniteSet(CallsIn(t))
    BY <1>2, SpansAreFinite
  <2>2. IsFiniteSet(OthersIn(b, t) \cup {a}) /\ IsFiniteSet(CallsIn(t) \cup {n + 1})
    BY <2>1, FS_AddElement
  <2>3. OthersIn(b, t)' \subseteq OthersIn(b, t) \cup {a}
    BY <1>1, <1>3, <1>4 DEF OthersIn
  <2>4. GrantedTo(b, t)' \subseteq CallsIn(t) \cup {n + 1}
    BY <1>3 DEF GrantedTo
  <2>5. IsFiniteSet(OthersIn(b, t)') /\ IsFiniteSet(GrantedTo(b, t)')
    BY <2>2, <2>3, <2>4, FS_Subset
  <2> QED  BY <2>1, <2>5
<1>8. /\ Cardinality(OthersIn(b, t)) \in Nat /\ Cardinality(OthersIn(b, t)') \in Nat
      /\ Cardinality(OthersIn(b, t)) <= Cardinality(OthersIn(b, t)')
  BY <1>5, <1>7, FS_CardinalityType, FS_Subset
<1>9. /\ GrantedTo(b, t)' =
           IF a = b /\ g /\ t <= now /\ now < t + Window THEN GrantedTo(b, t) \cup {n + 1} ELSE GrantedTo(b, t)
      /\ n + 1 \notin GrantedTo(b, t)
  <2>1. n + 1 \notin GrantedTo(b, t)
    BY <1>1, <1>4 DEF GrantedTo
  <2>2. ASSUME NEW i
        PROVE  i \in GrantedTo(b, t)' <=>
                 i \in GrantedTo(b, t) \/ (i = n + 1 /\ a = b /\ g /\ t <= now /\ now < t + Window)
    <3>1. CASE i = n + 1
      <4>1. i \in CallsIn(t)' <=> t <= now /\ now < t + Window
        <5>1. i \notin CallsIn(t)
          BY <1>1, <1>4, <3>1
        <5> QED  BY <1>3, <3>1, <5>1
      <4>2. i \in GrantedTo(b, t)' <=> i \in CallsIn(t)' /\ history'[i].key = b /\ history'[i].granted
        BY DEF GrantedTo
      <4>3. history'[i].key = a /\ history'[i].granted = g
        BY <1>1, <3>1
      <4> QED  BY <2>1, <3>1, <4>1, <4>2, <4>3, Zenon
    <3>2. CASE i # n + 1
      BY <1>3, <1>4, <3>2 DEF GrantedTo
    <3> QED  BY <3>1, <3>2
  <2> QED  BY <2>1, <2>2
<1>10. /\ Cardinality(GrantedTo(b, t)) \in Nat
       /\ Cardinality(GrantedTo(b, t) \cup {n + 1}) = Cardinality(GrantedTo(b, t)) + 1
  BY <1>7, <1>9, FS_CardinalityType, FS_AddElement
<1>11. QED
  BY <1>5, <1>6, <1>8, <1>9, <1>10

-----------------------------------------------------------------------------
(* The two ways a call goes.                                               *)

\* The addresses whose window is running.
Current == {b \in DOMAIN entries : now - entries[b].startedAt < Window}

Repeated(a) ==
  /\ a \in Current /\ DOMAIN entries' = Current
  /\ entries'[a].startedAt = entries[a].startedAt /\ entries'[a].attempts = entries[a].attempts + 1
  /\ entries'[a].lastSeenAt = now
  /\ \A b \in Current : entries'[b] \in WindowEntry /\ (b # a => entries'[b] = entries[b])
  /\ Answered(a, entries[a].attempts < Limit) /\ now' = now

\* kept: the addresses that keep their entry; old: the one that makes room.
Entered(a, kept) ==
  /\ a \notin Current /\ kept \subseteq Current
  /\ \/ kept = Current /\ Cardinality(Current) < MaxKeys
     \/ /\ ~(Cardinality(Current) < MaxKeys)
        /\ \E old \in Current : /\ kept = Current \ {old}
                               /\ \A b \in Current : entries[old].lastSeenAt <= entries[b].lastSeenAt
  /\ DOMAIN entries' = kept \cup {a}
  /\ entries'[a].startedAt = now /\ entries'[a].attempts = 1 /\ entries'[a].lastSeenAt = now
  /\ entries'[a] \in WindowEntry /\ \A b \in kept : entries'[b] = entries[b]
  /\ Answered(a, TRUE) /\ now' = now

LEMMA TakeIs ==
  ASSUME LimiterTypes, NEW a \in Addresses, Take(a)
  PROVE  Repeated(a) \/ \E kept : Entered(a, kept)
<1> DEFINE table == Prune(entries)
<1>1. DOMAIN table = Current /\ \A b \in Current : table[b] = entries[b]
  BY DEF Prune, Current
<1>2. table = [b \in Current |-> entries[b]]
  BY DEF Prune, Current
<1>3. \A b \in Current : entries[b] \in WindowEntry
  BY DEF LimiterTypes, TableIsBounded, Current
<1>4. now \in 0..MaxNow /\ now' = now
  BY DEF LimiterTypes, Take
<1>5. CASE a \in Current
  <2> DEFINE e == [startedAt |-> entries[a].startedAt, attempts |-> entries[a].attempts + 1, lastSeenAt |-> now]
  <2>1. /\ entries' = [table EXCEPT ![a] = [startedAt |-> table[a].startedAt,
                                          attempts |-> table[a].attempts + 1, lastSeenAt |-> now]]
        /\ Answered(a, table[a].attempts < Limit)
    BY <1>1, <1>5, Zenon DEF Take
  <2>2. /\ e \in WindowEntry /\ e.startedAt = entries[a].startedAt
        /\ e.attempts = entries[a].attempts + 1 /\ e.lastSeenAt = now
    BY <1>3, <1>4, <1>5 DEF WindowEntry
  <2>3. table[a] = entries[a]
    BY <1>1, <1>5
  <2>4. entries' = [table EXCEPT ![a] = e] /\ Answered(a, entries[a].attempts < Limit)
    BY <2>1, <2>3
  <2> HIDE DEF e, table
  <2>5. DOMAIN entries' = Current /\ entries'[a] = e /\ \A b \in Current : b # a => entries'[b] = entries[b]
    BY <1>1, <1>2, <1>5, <2>4
  <2>6. \A b \in Current : entries'[b] \in WindowEntry
    BY <1>3, <2>2, <2>5
  <2> QED  BY <1>4, <1>5, <2>2, <2>4, <2>5, <2>6 DEF Repeated
<1>6. CASE a \notin Current
  <2> DEFINE e == [startedAt |-> now, attempts |-> 1, lastSeenAt |-> now]
  <2>1. PICK kept \in EvictOldest(table) :
          /\ entries' = [b \in kept \cup {a} |-> IF b = a THEN e ELSE table[b]]
          /\ Answered(a, TRUE)
    BY <1>1, <1>6 DEF Take
  <2>2. e \in WindowEntry /\ e.startedAt = now /\ e.attempts = 1 /\ e.lastSeenAt = now
    BY <1>4 DEF WindowEntry
  <2> HIDE DEF e
  <2>3. /\ kept \subseteq Current
        /\ \/ kept = Current /\ Cardinality(Current) < MaxKeys
           \/ /\ ~(Cardinality(Current) < MaxKeys)
              /\ \E old \in Current : /\ kept = Current \ {old}
                                     /\ \A b \in Current : entries[old].lastSeenAt <= entries[b].lastSeenAt
    <3> HIDE DEF table
    <3>1. CASE Cardinality(Current) < MaxKeys
      BY <1>1, <2>1, <3>1 DEF EvictOldest
    <3>2. CASE ~(Cardinality(Current) < MaxKeys)
      <4>1. PICK old \in SeenLongestAgo(table) : kept = DOMAIN table \ {old}
        BY <1>1, <2>1, <3>2 DEF EvictOldest
      <4>2. old \in Current /\ \A b \in Current : table[old].lastSeenAt <= table[b].lastSeenAt
        BY <1>1, <4>1 DEF SeenLongestAgo
      <4>3. \A b \in Current : entries[old].lastSeenAt <= entries[b].lastSeenAt
        BY <1>1, <4>2
      <4> QED  BY <1>1, <3>2, <4>1, <4>2, <4>3
    <3> QED  BY <3>1, <3>2
  <2> HIDE DEF table
  <2>4. DOMAIN entries' = kept \cup {a} /\ entries'[a] = e /\ \A b \in kept : entries'[b] = entries[b]
    BY <1>1, <1>6, <2>1, <2>3
  <2>5. Entered(a, kept)
    BY <1>4, <1>6, <2>1, <2>2, <2>3, <2>4 DEF Entered
  <2> QED  BY <2>5
<1>7. QED
  BY <1>5, <1>6

-----------------------------------------------------------------------------
(* One step.                                                               *)

LEMMA SpansStayFinite ==
  ASSUME LimiterTypes, NEW a \in Addresses, NEW g \in BOOLEAN, Answered(a, g), now' = now, NEW b, NEW t
  PROVE  IsFiniteSet(OthersIn(b, t)')
<1>1. history' \in Seq(Calls)
  BY CallAdded
<1>2. Len(history') \in Nat
  BY <1>1
<1>3. IsFiniteSet(1..Len(history'))
  BY <1>2, FS_Interval
<1>4. IsFiniteSet(CallsIn(t)')
  BY <1>3, FS_Subset DEF CallsIn
<1> DEFINE f == [i \in CallsIn(t)' |-> history'[i].key]
           R == {history'[i].key : i \in CallsIn(t)'}
<1>5. f \in Surjection(CallsIn(t)', R) /\ OthersIn(b, t)' \subseteq R
  BY DEF Surjection, OthersIn
<1> HIDE DEF f, R
<1>6. IsFiniteSet(R)
  BY <1>4, <1>5, FS_Surjection
<1>7. QED
  BY <1>5, <1>6, FS_Subset

LEMMA CurrentFacts ==
  ASSUME LimiterTypes
  PROVE  /\ IsFiniteSet(Current) /\ Current \subseteq DOMAIN entries /\ Current \subseteq Addresses
         /\ Cardinality(Current) \in Nat /\ Cardinality(Current) <= MaxKeys
         /\ \A b \in Current : entries[b] \in WindowEntry /\ entries[b].startedAt > now - Window
         /\ \A b \in DOMAIN entries : entries[b] \in WindowEntry
         /\ \A b \in DOMAIN entries \ Current : entries[b].startedAt <= now - Window
         /\ now \in Nat /\ Window \in Nat \ {0} /\ Limit \in Nat \ {0} /\ MaxKeys \in Nat \ {0}
<1>1. Current \subseteq DOMAIN entries /\ Current \subseteq Addresses
  BY DEF Current, LimiterTypes, TableIsBounded
<1>2. IsFiniteSet(Current) /\ Cardinality(Current) <= Cardinality(DOMAIN entries)
  BY <1>1, FS_Subset DEF LimiterTypes
<1>3. Cardinality(Current) \in Nat /\ Cardinality(DOMAIN entries) \in Nat
  BY <1>2, FS_CardinalityType DEF LimiterTypes
<1>4. Window \in Nat \ {0} /\ Limit \in Nat \ {0} /\ MaxKeys \in Nat \ {0} /\ now \in Nat
  BY LimiterAssumption DEF LimiterTypes
<1>5. Cardinality(Current) <= MaxKeys
  BY <1>2, <1>3, <1>4 DEF LimiterTypes, TableIsBounded
<1>6. \A b \in DOMAIN entries : entries[b] \in WindowEntry
  BY DEF LimiterTypes, TableIsBounded
<1>7. \A b \in DOMAIN entries : entries[b].startedAt \in Nat
  BY <1>6, LimiterAssumption DEF WindowEntry
<1>8. QED
  BY <1>1, <1>2, <1>3, <1>4, <1>5, <1>6, <1>7 DEF Current

LEMMA AnswerIsGiven ==
  ASSUME NEW a, Repeated(a) \/ \E kept : Entered(a, kept)
  PROVE  \E g \in BOOLEAN : Answered(a, g) /\ now' = now
<1> DEFINE r == entries[a].attempts < Limit
<1>1. r \in BOOLEAN /\ TRUE \in BOOLEAN
  OBVIOUS
<1>2. /\ Repeated(a) => Answered(a, r) /\ now' = now
      /\ \A kept : Entered(a, kept) => Answered(a, TRUE) /\ now' = now
  BY Zenon DEF Repeated, Entered
<1> HIDE DEF r
<1>3. QED
  BY <1>1, <1>2, Zenon

LEMMA TypesKept ==
  ASSUME LimiterTypes, NEW a \in Addresses, Repeated(a) \/ \E kept : Entered(a, kept)
  PROVE  LimiterTypes'
<1> USE CurrentFacts
<1>1. /\ history' \in Seq(Calls) /\ now' = now
      /\ \A i \in 1..Len(history') : history'[i].at <= now'
  <2>1. PICK g \in BOOLEAN : Answered(a, g) /\ now' = now
    BY AnswerIsGiven
  <2> QED  BY <2>1, CallAdded
<1>2. CASE Repeated(a)
  <2>1. DOMAIN entries' = Current /\ \A b \in Current : entries'[b] \in WindowEntry
    BY <1>2 DEF Repeated
  <2>2. TableIsBounded' /\ IsFiniteSet(DOMAIN entries')
    BY <2>1 DEF TableIsBounded
  <2> QED  BY <1>1, <2>2 DEF LimiterTypes
<1>3. ASSUME NEW kept, Entered(a, kept) PROVE LimiterTypes'
  <2>1. /\ DOMAIN entries' = kept \cup {a} /\ kept \subseteq Current /\ a \notin kept
        /\ \A b \in kept \cup {a} : entries'[b] \in WindowEntry
    BY <1>3 DEF Entered
  <2>2. IsFiniteSet(kept) /\ Cardinality(kept) \in Nat
    BY <2>1, FS_Subset, FS_CardinalityType
  <2>3. Cardinality(kept) < MaxKeys
    <3>1. CASE kept = Current /\ Cardinality(Current) < MaxKeys
      BY <3>1
    <3>2. ASSUME NEW old \in Current, kept = Current \ {old} PROVE Cardinality(kept) < MaxKeys
      <4>1. Cardinality(kept) = Cardinality(Current) - 1
        BY <3>2, FS_RemoveElement
      <4> QED  BY <4>1
    <3> QED  BY <1>3, <3>1, <3>2 DEF Entered
  <2>4. IsFiniteSet(kept \cup {a}) /\ Cardinality(kept \cup {a}) = Cardinality(kept) + 1
    BY <2>1, <2>2, FS_AddElement
  <2>5. TableIsBounded' /\ IsFiniteSet(DOMAIN entries')
    BY <2>1, <2>2, <2>3, <2>4 DEF TableIsBounded
  <2> QED  BY <1>1, <2>5 DEF LimiterTypes
<1>4. QED
  BY <1>2, <1>3

\* What a call does to the calls of an address.
LEMMA SinceAfterCall ==
  ASSUME LimiterTypes, NEW a \in Addresses, NEW g \in BOOLEAN, Answered(a, g), now' = now,
         NEW b, NEW t \in Nat
  PROVE  /\ Cardinality(Since(history, b, t)) \in Nat /\ Cardinality(Since(history', b, t)) \in Nat
         /\ Cardinality(Since(history, b, t)) <= Cardinality(Since(history', b, t))
         /\ b = a /\ t <= now => Cardinality(Since(history', b, t)) = Cardinality(Since(history, b, t)) + 1
<1> DEFINE n == Len(history)
           S == Since(history, b, t)
           T == Since(history', b, t)
<1>1. /\ Len(history') = n + 1 /\ n \in Nat
      /\ \A i \in 1..n : history'[i] = history[i]
      /\ history'[n + 1].key = a /\ history'[n + 1].at = now
  <2>1. history'[n + 1] = [key |-> a, at |-> now, granted |-> g]
    BY CallAdded
  <2>2. Len(history') = n + 1 /\ n \in Nat /\ \A i \in 1..n : history'[i] = history[i]
    BY CallAdded
  <2> QED  BY <2>1, <2>2
<1>2. IsFiniteSet(S) /\ n + 1 \notin S
  <2>1. IsFiniteSet(S)
    BY SpansAreFinite DEF LimiterTypes
  <2>2. n + 1 \notin S
    BY <1>1 DEF Since
  <2> QED  BY <2>1, <2>2
<1>3. now \in Nat
  BY LimiterAssumption DEF LimiterTypes
<1>4. T = IF b = a /\ t <= now THEN S \cup {n + 1} ELSE S
  <2>1. ASSUME NEW i PROVE i \in T <=> i \in S \/ (i = n + 1 /\ b = a /\ t <= now)
    <3>1. CASE i \in 1..n
      BY <1>1, <3>1 DEF Since
    <3>2. CASE i = n + 1
      BY <1>1, <1>2, <1>3, <3>2 DEF Since
    <3>3. CASE i \notin 1..n /\ i # n + 1
      <4>1. i \notin 1..(n + 1)
        BY <1>1, <3>3
      <4> QED  BY <1>1, <3>3, <4>1 DEF Since
    <3> QED  BY <3>1, <3>2, <3>3
  <2> HIDE DEF S, T
  <2> QED  BY <2>1
<1> HIDE DEF S, T
<1>5. Cardinality(S) \in Nat /\ Cardinality(S \cup {n + 1}) = Cardinality(S) + 1
  BY <1>2, FS_CardinalityType, FS_AddElement
<1>6. /\ Cardinality(S) \in Nat /\ Cardinality(T) \in Nat /\ Cardinality(S) <= Cardinality(T)
      /\ b = a /\ t <= now => Cardinality(T) = Cardinality(S) + 1
  BY <1>4, <1>5
<1>7. QED
  BY <1>6 DEF S, T

LEMMA EntriesKept ==
  ASSUME LimiterTypes, \A b \in DOMAIN entries : EntryEarned(b),
         NEW a \in Addresses, Repeated(a) \/ \E kept : Entered(a, kept)
  PROVE  \A b \in DOMAIN entries' : EntryEarned(b)'
<1> USE CurrentFacts
<1>1. PICK g \in BOOLEAN : Answered(a, g) /\ now' = now
  BY AnswerIsGiven
<1>2. /\ \A i \in 1..Len(history) : i \in 1..Len(history') /\ history'[i] = history[i]
      /\ Len(history) + 1 \in 1..Len(history')
      /\ history'[Len(history) + 1] = [key |-> a, at |-> now, granted |-> g]
  BY <1>1, CallAdded
<1>3. \A b \in Current : /\ entries[b].startedAt \in Nat /\ entries[b].attempts \in Nat
                         /\ entries[b].lastSeenAt \in Nat
  BY LimiterAssumption DEF WindowEntry
<1>4. \A b, t : t \in Nat =>
        /\ Cardinality(Since(history, b, t)) \in Nat /\ Cardinality(Since(history', b, t)) \in Nat
        /\ Cardinality(Since(history, b, t)) <= Cardinality(Since(history', b, t))
        /\ b = a /\ t <= now => Cardinality(Since(history', b, t)) = Cardinality(Since(history, b, t)) + 1
  BY <1>1, SinceAfterCall
\* An entry that is left as it is.
<1>5. ASSUME NEW b \in Current, entries'[b] = entries[b] PROVE EntryEarned(b)'
  <2>1. EntryEarned(b)
    OBVIOUS
  <2>2. PICK i \in 1..Len(history) : history[i].key = b /\ history[i].at = entries[b].lastSeenAt
    BY <2>1 DEF EntryEarned
  <2>3. \E j \in 1..Len(history') : history'[j].key = b /\ history'[j].at = entries'[b].lastSeenAt
    BY <1>2, <1>5, <2>2
  <2>4. entries'[b].attempts <= Cardinality(Since(history', b, entries'[b].startedAt))
    BY SMTT(20), <1>3, <1>4, <1>5, <2>1 DEF EntryEarned
  <2> QED  BY <1>1, <1>5, <2>1, <2>3, <2>4 DEF EntryEarned
\* The entry of the caller.
<1>6. \E j \in 1..Len(history') : history'[j].key = a /\ history'[j].at = now
  BY <1>2
<1>7. CASE Repeated(a)
  <2>1. /\ DOMAIN entries' = Current /\ a \in Current
        /\ entries'[a].startedAt = entries[a].startedAt /\ entries'[a].attempts = entries[a].attempts + 1
        /\ entries'[a].lastSeenAt = now /\ \A b \in Current : b # a => entries'[b] = entries[b]
    BY <1>7, Zenon DEF Repeated
  <2>2. entries[a].startedAt <= now /\ entries[a].attempts <= Cardinality(Since(history, a, entries[a].startedAt))
    BY <1>3, <2>1 DEF EntryEarned
  <2>3. entries'[a].attempts <= Cardinality(Since(history', a, entries'[a].startedAt))
    BY <1>3, <1>4, <2>1, <2>2
  <2>4. EntryEarned(a)'
    BY <1>1, <1>6, <2>1, <2>2, <2>3 DEF EntryEarned
  <2> QED  BY <1>5, <2>1, <2>4
<1>8. ASSUME NEW kept, Entered(a, kept) PROVE \A b \in DOMAIN entries' : EntryEarned(b)'
  <2>1. /\ DOMAIN entries' = kept \cup {a} /\ kept \subseteq Current
        /\ entries'[a].startedAt = now /\ entries'[a].attempts = 1 /\ entries'[a].lastSeenAt = now
        /\ \A b \in kept : entries'[b] = entries[b]
    BY <1>8, Zenon DEF Entered
  <2>2. entries'[a].attempts <= Cardinality(Since(history', a, entries'[a].startedAt))
    BY <1>4, <2>1
  <2>3. EntryEarned(a)'
    BY <1>1, <1>6, <2>1, <2>2 DEF EntryEarned
  <2> QED  BY <1>5, <2>1, <2>3
<1>9. QED
  BY <1>7, <1>8

\* A refused address has used up its entry, and all its attempts were in the
\* window that ends now.
LEMMA RefusalsKept ==
  ASSUME LimiterTypes, \A b \in DOMAIN entries : EntryEarned(b), RefusalIsEarned,
         NEW a \in Addresses, Repeated(a) \/ \E kept : Entered(a, kept)
  PROVE  RefusalIsEarned'
<1> USE CurrentFacts
<1> DEFINE n == Len(history)
<1> DEFINE Before(h, i) == {j \in 1..(i - 1) : h[j].key = h[i].key /\ h[j].at > h[i].at - Window}
<1>1. PICK g \in BOOLEAN : Answered(a, g) /\ now' = now
  BY AnswerIsGiven
<1>2. /\ Len(history') = n + 1 /\ n \in Nat /\ \A i \in 1..n : history'[i] = history[i]
      /\ history'[n + 1] = [key |-> a, at |-> now, granted |-> g]
  BY <1>1, CallAdded
<1>3. ASSUME NEW i \in 1..n, ~history'[i].granted PROVE Cardinality(Before(history', i)) >= Limit
  <2>1. Before(history', i) = Before(history, i)
    BY <1>2
  <2>2. ~history[i].granted
    BY <1>2, <1>3
  <2>3. Cardinality(Before(history, i)) >= Limit
    BY <2>2 DEF RefusalIsEarned
  <2> HIDE DEF Before
  <2> QED  BY <2>1, <2>3
<1>4. ASSUME ~history'[n + 1].granted PROVE Cardinality(Before(history', n + 1)) >= Limit
  <2>1. Answered(a, FALSE)
    <3>1. g = FALSE
      BY <1>2, <1>4
    <3> QED  BY <1>1, <3>1
  <2>2. Repeated(a) /\ ~(entries[a].attempts < Limit)
    <3>1. history' # Append(history, [key |-> a, at |-> now, granted |-> TRUE])
      BY <1>2, <1>4 DEF LimiterTypes
    <3>2. ~Answered(a, TRUE)
      BY <3>1 DEF Answered
    <3>3. \A kept : ~Entered(a, kept)
      BY <3>2 DEF Entered
    <3>4. Answered(a, entries[a].attempts < Limit)
      BY <3>3, Zenon DEF Repeated
    <3>5. entries[a].attempts < Limit => Answered(a, TRUE)
      <4>1. ASSUME entries[a].attempts < Limit PROVE (entries[a].attempts < Limit) = TRUE
        BY <4>1
      <4> QED  BY <3>4, <4>1, Zenon
    <3> QED  BY <3>2, <3>3, <3>5
  <2>3. a \in Current
    BY <2>2, Zenon DEF Repeated
  <2> DEFINE s == entries[a].startedAt
  <2>4. s \in Nat /\ entries[a].attempts \in Nat /\ s > now - Window
    BY <2>3, LimiterAssumption DEF WindowEntry
  <2>5. IsFiniteSet(1..n) /\ Before(history', n + 1) \subseteq 1..n
    BY <1>2, FS_Interval
  <2>6. IsFiniteSet(Before(history', n + 1))
    <3> HIDE DEF Before
    <3> QED  BY <2>5, FS_Subset
  <2>7. Since(history, a, s) \subseteq Before(history', n + 1)
    <3> SUFFICES ASSUME NEW i \in Since(history, a, s) PROVE i \in Before(history', n + 1)
      OBVIOUS
    <3>1. i \in 1..n /\ history'[i] = history[i] /\ history[i].key = a /\ history[i].at >= s
      BY <1>2 DEF Since
    <3>2. history[i].at \in Nat
      <4>1. history[i] \in Calls
        BY <3>1 DEF LimiterTypes
      <4>2. history[i].at \in 0..MaxNow
        BY <4>1 DEF Calls
      <4> QED  BY <4>2, LimiterAssumption
    <3>3. history'[n + 1].key = a /\ history'[n + 1].at = now
      BY <1>2
    <3> QED  BY <1>2, <2>4, <3>1, <3>2, <3>3
  <2>8. Cardinality(Since(history, a, s)) >= Limit
    <3>1. IsFiniteSet(Since(history, a, s))
      BY SpansAreFinite DEF LimiterTypes
    <3>2. Cardinality(Since(history, a, s)) \in Nat
      BY <3>1, FS_CardinalityType
    <3>3. entries[a].attempts <= Cardinality(Since(history, a, s))
      BY <2>3 DEF EntryEarned
    <3> HIDE DEF s
    <3> QED  BY <2>2, <2>4, <3>2, <3>3
  <2> HIDE DEF Before, s
  <2>9. /\ Cardinality(Since(history, a, s)) <= Cardinality(Before(history', n + 1))
        /\ Cardinality(Since(history, a, s)) \in Nat /\ Cardinality(Before(history', n + 1)) \in Nat
    <3>1. IsFiniteSet(Since(history, a, s))
      BY <2>6, <2>7, FS_Subset
    <3> QED  BY <2>6, <2>7, <3>1, FS_Subset, FS_CardinalityType
  <2> QED  BY <2>8, <2>9
<1>5. \A i \in 1..(n + 1) : ~history'[i].granted => Cardinality(Before(history', i)) >= Limit
  <2> HIDE DEF Before
  <2> QED  BY <1>2, <1>3, <1>4
<1>6. QED
  BY <1>2, <1>5 DEF RefusalIsEarned

\* A call that meets an entry, and one that finds none; the entry that makes
\* room was seen no later than all others, so that they were all seen since it
\* began.
LEMMA SpansKept ==
  ASSUME LimiterTypes, \A b \in DOMAIN entries : EntryEarned(b),
         NEW b \in Addresses, NEW t \in Nat, SpanBounded(b, t),
         NEW a \in Addresses, Repeated(a) \/ \E kept : Entered(a, kept)
  PROVE  SpanBounded(b, t)'
<1> USE CurrentFacts
<1> DEFINE G == Cardinality(GrantedTo(b, t))
           H == Cardinality(GrantedTo(b, t)')
           inside == t <= now /\ now < t + Window
<1>0. PICK g \in BOOLEAN : Answered(a, g) /\ now' = now
  BY AnswerIsGiven
<1>1. /\ Cardinality(OthersIn(b, t)) \in Nat /\ Cardinality(OthersIn(b, t)') \in Nat
      /\ Cardinality(OthersIn(b, t)) <= Cardinality(OthersIn(b, t)')
      /\ OthersIn(b, t) \subseteq OthersIn(b, t)'
      /\ inside /\ a # b => a \in OthersIn(b, t)'
      /\ G \in Nat /\ H \in Nat
  BY <1>0, SpanAfterCall
<1>2. \A x \in BOOLEAN : Answered(a, x) => H = G + (IF a = b /\ x /\ inside THEN 1 ELSE 0)
  BY <1>0, SpanAfterCall
<1>3. SUFFICES ASSUME Cardinality(OthersIn(b, t)') < MaxKeys
               PROVE  /\ H <= 2 * Limit
                      /\ now < t + Window =>
                           /\ b \notin DOMAIN entries' => H <= Limit
                           /\ b \in DOMAIN entries' /\ entries'[b].startedAt < t
                                => H <= Limit /\ H <= entries'[b].attempts
                           /\ b \in DOMAIN entries' /\ entries'[b].startedAt >= t
                                => H <= Limit + entries'[b].attempts
  BY <1>0 DEF SpanBounded
<1>4. Cardinality(OthersIn(b, t)) < MaxKeys
  BY <1>1, <1>3
<1>5. /\ G <= 2 * Limit
      /\ now < t + Window =>
           /\ b \notin DOMAIN entries => G <= Limit
           /\ b \in DOMAIN entries /\ entries[b].startedAt < t => G <= Limit /\ G <= entries[b].attempts
           /\ b \in DOMAIN entries /\ entries[b].startedAt >= t => G <= Limit + entries[b].attempts
  BY <1>4 DEF SpanBounded
<1>6. \A c \in DOMAIN entries : /\ entries[c].startedAt \in Nat /\ entries[c].attempts \in Nat
                                /\ entries[c].lastSeenAt \in Nat
  BY LimiterAssumption DEF WindowEntry
\* Without a running window the span holds one entry's grants at most.
<1>7. b \notin Current /\ now < t + Window => G <= Limit
  BY <1>5, <1>6
<1>8. now < t => G = 0
  <2> SUFFICES ASSUME now < t PROVE G = 0
    OBVIOUS
  <2>1. CallsIn(t) = {}
    <3> SUFFICES ASSUME NEW i \in 1..Len(history) PROVE ~(history[i].at >= t)
      BY DEF CallsIn
    <3>1. history[i] \in Calls /\ history[i].at <= now
      BY DEF LimiterTypes
    <3>2. history[i].at \in 0..MaxNow
      BY <3>1 DEF Calls
    <3> QED  BY <3>1, <3>2, LimiterAssumption
  <2>2. GrantedTo(b, t) = {}
    BY <2>1 DEF GrantedTo
  <2> QED  BY <2>2, FS_EmptySet
<1>9. inside \/ ~(now < t + Window) \/ now < t
  OBVIOUS
<1> HIDE DEF G, H
<1>10. CASE Repeated(a)
  <2>1. /\ DOMAIN entries' = Current /\ a \in Current
        /\ entries'[a].startedAt = entries[a].startedAt /\ entries'[a].attempts = entries[a].attempts + 1
        /\ \A c \in Current : c # a => entries'[c] = entries[c]
        /\ Answered(a, entries[a].attempts < Limit)
    BY <1>10, Zenon DEF Repeated
  <2>2. H = G + (IF a = b /\ entries[a].attempts < Limit /\ inside THEN 1 ELSE 0)
    <3> DEFINE x == entries[a].attempts < Limit
    <3>1. x \in BOOLEAN
      OBVIOUS
    <3>2. Answered(a, x)
      BY <2>1
    <3> HIDE DEF x, inside
    <3>3. H = G + (IF a = b /\ x /\ inside THEN 1 ELSE 0)
      BY <1>2, <3>1, <3>2
    <3> QED  BY <3>3 DEF x
  <2>3. CASE a = b
    <3> DEFINE n == entries[b].attempts
               s == entries[b].startedAt
    <3>1. b \in DOMAIN entries /\ n \in Nat /\ s \in Nat
      BY <1>6, <2>1, <2>3
    <3>2. b \in DOMAIN entries' /\ entries'[b].startedAt = s /\ entries'[b].attempts = n + 1
      BY <2>1, <2>3
    <3>3. H = G + (IF n < Limit /\ inside THEN 1 ELSE 0)
      BY <2>2, <2>3
    <3>4. now < t + Window => /\ s < t => G <= Limit /\ G <= n
                              /\ s >= t => G <= Limit + n
      BY <1>5, <3>1
    <3>5. Limit \in Nat /\ G \in Nat /\ H \in Nat
      BY <1>1, LimiterAssumption
    <3> HIDE DEF n, s, inside
    <3>6. H <= G + 1 /\ (n < Limit \/ H = G) /\ (inside \/ H = G)
      BY <3>3, <3>5
    <3>7. now < t + Window => /\ s < t => H <= Limit /\ H <= n + 1
                              /\ s >= t => H <= Limit + (n + 1)
      BY <3>1, <3>4, <3>5, <3>6
    <3>8. H <= 2 * Limit
      <4>1. CASE H = G
        BY <1>5, <4>1
      <4>2. CASE n < Limit /\ inside
        <5>1. now < t + Window
          BY <4>2 DEF inside
        <5>2. G <= Limit + n \/ G <= Limit
          BY <3>1, <3>4, <5>1
        <5> QED  BY <3>1, <3>5, <3>6, <4>2, <5>2
      <4> QED  BY <3>6, <4>1, <4>2
    <3> QED  BY <3>2, <3>7, <3>8
  <2>4. CASE a # b /\ b \in Current
    BY <1>1, <1>5, <2>1, <2>2, <2>4
  <2>5. CASE a # b /\ b \notin Current
    BY <1>1, <1>5, <1>7, <2>1, <2>2, <2>5
  <2> QED  BY <2>3, <2>4, <2>5
<1>11. ASSUME NEW kept, Entered(a, kept)
       PROVE  /\ H <= 2 * Limit
              /\ now < t + Window =>
                   /\ b \notin DOMAIN entries' => H <= Limit
                   /\ b \in DOMAIN entries' /\ entries'[b].startedAt < t
                        => H <= Limit /\ H <= entries'[b].attempts
                   /\ b \in DOMAIN entries' /\ entries'[b].startedAt >= t
                        => H <= Limit + entries'[b].attempts
  <2>1. /\ DOMAIN entries' = kept \cup {a} /\ kept \subseteq Current /\ a \notin Current
        /\ entries'[a].startedAt = now /\ entries'[a].attempts = 1
        /\ \A c \in kept : entries'[c] = entries[c]
        /\ Answered(a, TRUE)
    BY <1>11, Zenon DEF Entered
  <2>2. H = G + (IF a = b /\ inside THEN 1 ELSE 0)
    BY <1>2, <2>1
  <2>3. CASE a = b
    BY <1>1, <1>5, <1>7, <1>8, <1>9, <2>1, <2>2, <2>3
  <2>4. CASE a # b /\ b \in kept
    BY <1>1, <1>5, <2>1, <2>2, <2>4
  <2>5. CASE a # b /\ b \notin Current
    BY <1>1, <1>5, <1>7, <2>1, <2>2, <2>5
  <2>6. CASE a # b /\ b \in Current /\ b \notin kept
    <3>1. CASE ~(now < t + Window) \/ entries[b].startedAt < t
      BY <1>1, <1>5, <2>1, <2>2, <2>6, <3>1
    <3>2. CASE now < t + Window /\ ~(entries[b].startedAt < t)
      <4>1. /\ ~(Cardinality(Current) < MaxKeys)
            /\ \A c \in Current : entries[b].lastSeenAt <= entries[c].lastSeenAt
        BY <1>11, <2>6 DEF Entered
      <4>2. entries[b].startedAt >= t /\ entries[b].startedAt <= entries[b].lastSeenAt /\ entries[b].lastSeenAt <= now
        BY <1>6, <2>6, <3>2 DEF EntryEarned
      <4>3. ASSUME NEW c \in Current, c # b PROVE c \in OthersIn(b, t)
        <5>1. PICK i \in 1..Len(history) : history[i].key = c /\ history[i].at = entries[c].lastSeenAt
          BY DEF EntryEarned
        <5>2. entries[c].lastSeenAt >= t /\ entries[c].lastSeenAt < t + Window
          <6>1. entries[c].lastSeenAt <= now
            BY DEF EntryEarned
          <6>2. entries[c].lastSeenAt \in Nat /\ entries[b].startedAt \in Nat /\ entries[b].lastSeenAt \in Nat
            BY <1>6, <2>6
          <6> QED  BY SMTT(20), <3>2, <4>1, <4>2, <6>1, <6>2
        <5>3. i \in CallsIn(t)
          BY <5>1, <5>2 DEF CallsIn
        <5> QED  BY <4>3, <5>1, <5>3 DEF OthersIn
      <4>4. inside
        BY <1>6, <2>6, <3>2, <4>2
      <4>5. (Current \ {b}) \cup {a} \subseteq OthersIn(b, t)'
        BY <1>1, <2>6, <4>3, <4>4
      <4>6. Cardinality((Current \ {b}) \cup {a}) = Cardinality(Current)
        <5>1. IsFiniteSet(Current \ {b}) /\ Cardinality(Current \ {b}) = Cardinality(Current) - 1
          BY <2>6, FS_RemoveElement
        <5>2. Cardinality((Current \ {b}) \cup {a}) = Cardinality(Current \ {b}) + 1
          BY <2>1, <5>1, FS_AddElement
        <5> QED  BY <5>1, <5>2
      <4>7. IsFiniteSet(OthersIn(b, t)')
        BY <1>0, SpansStayFinite
      <4>8. Cardinality(Current) <= Cardinality(OthersIn(b, t)')
        <5>1. Cardinality((Current \ {b}) \cup {a}) <= Cardinality(OthersIn(b, t)')
          BY <4>5, <4>7, FS_Subset
        <5> QED  BY <4>6, <5>1
      <4> QED  BY <1>1, <1>3, <4>1, <4>8
    <3> QED  BY <3>1, <3>2
  <2> QED  BY <2>3, <2>4, <2>5, <2>6
<1>12. QED
  BY <1>10, <1>11

-----------------------------------------------------------------------------
LEMMA LimiterStep ==
  ASSUME LimiterInv, [LimiterNext]_limiterVars
  PROVE  LimiterInv'
<1>1. ASSUME NEW a \in Addresses, Take(a) PROVE LimiterInv'
  <2>1. Repeated(a) \/ \E kept : Entered(a, kept)
    BY <1>1, TakeIs DEF LimiterInv
  <2>2. LimiterTypes'
    BY <2>1, TypesKept DEF LimiterInv
  <2>3. \A b \in DOMAIN entries' : EntryEarned(b)'
    BY <2>1, EntriesKept DEF LimiterInv
  <2>4. \A b \in Addresses, t \in Nat : SpanBounded(b, t)'
    BY <2>1, SpansKept DEF LimiterInv
  <2>5. RefusalIsEarned'
    BY <2>1, RefusalsKept DEF LimiterInv
  <2> QED  BY <2>2, <2>3, <2>4, <2>5 DEF LimiterInv
<1>2. CASE TimePasses
  <2>1. now \in Nat /\ now' = now + 1 /\ now' \in 0..MaxNow /\ entries' = entries /\ history' = history
    BY <1>2, LimiterAssumption DEF TimePasses, LimiterInv, LimiterTypes
  <2>2. LimiterTypes'
    <3>1. \A i \in 1..Len(history) : history[i].at <= now + 1
      <4> SUFFICES ASSUME NEW i \in 1..Len(history) PROVE history[i].at <= now + 1
        OBVIOUS
      <4>1. history[i] \in Calls /\ history[i].at <= now
        BY DEF LimiterInv, LimiterTypes
      <4>2. history[i].at \in 0..MaxNow
        BY <4>1 DEF Calls
      <4> QED  BY <2>1, <4>1, <4>2, LimiterAssumption
    <3> QED  BY <2>1, <3>1 DEF LimiterInv, LimiterTypes, TableIsBounded
  <2>3. \A a \in DOMAIN entries' : EntryEarned(a)'
    <3> SUFFICES ASSUME NEW a \in DOMAIN entries PROVE EntryEarned(a)'
      BY <2>1
    <3>1. EntryEarned(a) /\ entries[a] \in WindowEntry
      BY DEF LimiterInv, LimiterTypes, TableIsBounded
    <3>2. entries[a].lastSeenAt \in Nat
      BY <3>1, LimiterAssumption DEF WindowEntry
    <3>3. entries[a].lastSeenAt <= now + 1
      BY <2>1, <3>1, <3>2 DEF EntryEarned
    <3> QED  BY <2>1, <3>1, <3>3 DEF EntryEarned
  <2>4. \A a \in Addresses, t \in Nat : SpanBounded(a, t)'
    <3> SUFFICES ASSUME NEW a \in Addresses, NEW t \in Nat PROVE SpanBounded(a, t)'
      OBVIOUS
    <3>1. SpanBounded(a, t)
      BY DEF LimiterInv
    <3>2. /\ GrantedTo(a, t)' = GrantedTo(a, t) /\ OthersIn(a, t)' = OthersIn(a, t)
          /\ now' < t + Window => now < t + Window
      BY <2>1, LimiterAssumption DEF GrantedTo, OthersIn, CallsIn
    <3> QED  BY <2>1, <3>1, <3>2 DEF SpanBounded
  <2>5. RefusalIsEarned'
    BY <2>1 DEF LimiterInv, RefusalIsEarned
  <2> QED  BY <2>2, <2>3, <2>4, <2>5 DEF LimiterInv
<1>3. CASE UNCHANGED limiterVars
  <2>1. now' = now /\ entries' = entries /\ history' = history
    BY <1>3 DEF limiterVars
  <2>2. LimiterTypes'
    BY <2>1 DEF LimiterInv, LimiterTypes, TableIsBounded
  <2>3. \A a \in DOMAIN entries' : EntryEarned(a)'
    BY <2>1 DEF LimiterInv, EntryEarned
  <2>4. \A a \in Addresses, t \in Nat : SpanBounded(a, t)'
    <3> SUFFICES ASSUME NEW a \in Addresses, NEW t \in Nat PROVE SpanBounded(a, t)'
      OBVIOUS
    <3>1. SpanBounded(a, t)
      BY DEF LimiterInv
    <3>2. GrantedTo(a, t)' = GrantedTo(a, t) /\ OthersIn(a, t)' = OthersIn(a, t)
      BY <2>1 DEF GrantedTo, OthersIn, CallsIn
    <3> QED  BY <2>1, <3>1, <3>2 DEF SpanBounded
  <2>5. RefusalIsEarned'
    BY <2>1 DEF LimiterInv, RefusalIsEarned
  <2> QED  BY <2>2, <2>3, <2>4, <2>5 DEF LimiterInv
<1>4. QED
  BY <1>1, <1>2, <1>3 DEF LimiterNext

LEMMA LimiterStart == LimiterInit => LimiterInv
<1> SUFFICES ASSUME LimiterInit PROVE LimiterInv
  OBVIOUS
<1>1. now = 0 /\ entries = <<>> /\ history = <<>> /\ DOMAIN entries = {} /\ 1..Len(history) = {}
  BY DEF LimiterInit
<1>2. Cardinality({}) = 0 /\ IsFiniteSet({})
  BY FS_EmptySet
<1>3. LimiterTypes
  BY <1>1, <1>2, LimiterAssumption DEF LimiterTypes, TableIsBounded
<1>4. ASSUME NEW a \in Addresses, NEW t \in Nat PROVE SpanBounded(a, t)
  <2>1. GrantedTo(a, t) = {}
    BY <1>1 DEF GrantedTo, CallsIn
  <2> QED  BY <1>1, <1>2, <2>1, LimiterAssumption DEF SpanBounded
<1>5. RefusalIsEarned
  BY <1>1 DEF RefusalIsEarned
<1>6. QED
  BY <1>1, <1>3, <1>4, <1>5 DEF LimiterInv

\* The table against the history of calls, for any number of addresses.
THEOREM LimiterInvariant == LimiterSpec => []LimiterInv
BY LimiterStart, LimiterStep, PTL DEF LimiterSpec

\* For any limit, window, table and number of addresses, calling in any order:
\* the table keeps its bound, no address is granted more than twice the limit
\* in a window's length unless the table overflows in it, and every refusal
\* was earned (take, #prune, #evictOldest).
THEOREM LimitsAreFair == LimiterSpec => []LimiterIsFair
<1>1. LimiterInv => LimiterIsFair
  <2> SUFFICES ASSUME LimiterInv PROVE LimiterIsFair
    OBVIOUS
  <2>1. TableIsBounded /\ RefusalIsEarned
    BY DEF LimiterInv, LimiterTypes
  <2>2. BurstIsBounded
    <3> SUFFICES ASSUME NEW a \in Addresses, NEW t \in 0..now, Cardinality(OthersIn(a, t)) < MaxKeys
                 PROVE  Cardinality(GrantedTo(a, t)) <= 2 * Limit
      BY DEF BurstIsBounded
    <3>1. t \in Nat
      BY DEF LimiterInv, LimiterTypes
    <3> QED  BY <3>1 DEF LimiterInv, SpanBounded
  <2> QED  BY <2>1, <2>2 DEF LimiterIsFair
<1>2. QED
  BY <1>1, LimiterInvariant, PTL

-----------------------------------------------------------------------------
(* ApiRequests: what a mutation has done when it answers.                  *)

Contents == {"none", "compact", "first", "other"}
LedgerRows ==
  [created : Int, webhooks : Int, grants : Int, status : Api!Statuses,
   grant : {"none", "issued", "revoked"}, phase : {"available", "deleted"}, purgeAt : {"none", "set"},
   analyses : [Identities -> Contents]]

ApiInv == ledgerRows \in LedgerRows

\* An answer says more than "done" only of the report it was asked to store.
RepliesReplayed(r) ==
  /\ r.route \in Api!Reports /\ r.identity \in Identities
  /\ ledgerRows.analyses[r.identity] = Api!ReportAfter(r)

LEMMA MutationFacts ==
  ASSUME NEW r \in Api!Requests
  PROVE  /\ r.route \in Api!Routes /\ r.evidence \in {"noCsrf", "none", "full"}
         /\ r.content \in {"first", "other", "foreign"}
         /\ r.route \in Api!Reports /\ r.evidence = "full" => r.identity \in Identities
<1> USE DEF Api!Reports, Api!Bodies, Api!Ids
<1>1. CASE r \in Api!Request(Api!Routes, {"noCsrf", "none"}, {"ok"}, {"known"}, Api!Some, {"first"})
  BY <1>1 DEF Api!Request
<1>2. CASE r \in Api!Request(Api!Routes \ Api!Reports, {"full"}, Api!Bodies, Api!Ids, Api!Some, {"first"})
  BY <1>2 DEF Api!Request
<1>3. CASE r \in Api!Request(Api!Reports, {"full"}, Api!Bodies, Api!Ids, Identities, {"first", "other", "foreign"})
  <2>1. r.route \in Api!Routes
    BY <1>3 DEF Api!Request, Api!Routes, Api!OnDump
  <2> QED  BY <1>3, <2>1 DEF Api!Request
<1>4. QED
  BY <1>1, <1>2, <1>3 DEF Api!Requests

\* No code of the checks, the engine or the framework says done or replayed.
LEMMA ErrorsAreErrors ==
  ASSUME NEW code, code # "ok"
  PROVE  Api!ContractErrorFor(code) \notin {"ok", "done", "replayed"}
BY DEF Api!ContractErrorFor

LEMMA ChecksAnswerErrors ==
  ASSUME NEW r \in Api!Requests, NEW fault \in Api!Faults
  PROVE  /\ Api!Checked(r, fault) \notin {"done", "replayed"}
         /\ Api!Checked(r, fault) = "ok" => r.evidence = "full"
<1>1. Api!MalformedId(r) # "ok" \/ r.route = "CreateCustomer"
  BY MutationFacts DEF Api!MalformedId, Api!Routes, Api!OnCase, Api!OnDump, Api!Transitions
<1>2. r.route # "CreateCustomer" => Api!ContractErrorFor(Api!MalformedId(r)) \notin {"ok", "done", "replayed"}
  BY <1>1, ErrorsAreErrors
<1>3. QED
  BY <1>2, MutationFacts DEF Api!Checked

\* A report that is stored names the dump's own digest.
Admitted(r) == r.route \in Api!Reports => r.content # "foreign"

LEMMA OnlyOwnDigest ==
  ASSUME NEW r \in Api!Requests, NEW fault \in Api!Faults, Api!Outcome(r, fault) = "ok"
  PROVE  Admitted(r)
<1>1. Api!Execute(r) = "ok"
  BY DEF Api!Outcome
<1>2. r.route \in Api!Reports => Api!RecordCode(r) = "ok"
  BY <1>1 DEF Api!Execute, Api!Reports, Api!Transitions
<1>3. QED
  BY <1>1, <1>2 DEF Api!RecordCode, Admitted

\* The three ways a handler ends.
LEMMA HandlerEnds ==
  ASSUME NEW r \in Api!Requests, NEW fault \in Api!Faults, Api!Handle(r, fault)
  PROVE  \/ ledgerRows' = ledgerRows /\ last'.code # "replayed"
         \/ /\ ledgerRows' = Api!Committed(r) /\ r.evidence = "full" /\ Admitted(r)
            /\ last'.code \in {"internal_error", "done"}
         \/ ledgerRows' = Api!Committed(r) /\ last'.code = "replayed" /\ RepliesReplayed(r)
<1> DEFINE checked == Api!Checked(r, fault)
           code == Api!Outcome(r, fault)
<1>1. checked = "ok" => r.evidence = "full"
  BY ChecksAnswerErrors
<1>2. checked \notin {"done", "replayed"}
  BY ChecksAnswerErrors
<1>3. code # "ok" => Api!ContractErrorFor(code) \notin {"ok", "done", "replayed"}
  BY ErrorsAreErrors
<1>4. /\ ledgerRows' = IF checked = "ok" /\ code = "ok" THEN Api!Committed(r) ELSE ledgerRows
      /\ last'.code = IF checked # "ok" THEN checked
                      ELSE IF code # "ok" THEN Api!ContractErrorFor(code)
                      ELSE IF fault = "readback" /\ r.route \in Api!ReadsBack THEN "internal_error"
                      ELSE Api!Success(r)
  BY DEF Api!Handle, Api!ReadFailed
<1>5. code = "ok" => Admitted(r)
  BY OnlyOwnDigest
<1>6. Api!Success(r) \in {"done", "replayed"}
      /\ (Api!Success(r) = "replayed" =>
            r.route \in Api!Reports /\ ledgerRows.analyses[r.identity] = Api!ReportAfter(r))
  BY DEF Api!Success
<1> HIDE DEF checked, code
<1>7. CASE checked # "ok" \/ code # "ok"
  BY <1>2, <1>3, <1>4, <1>7
<1>8. CASE checked = "ok" /\ code = "ok"
  <2>1. r.evidence = "full"
    BY <1>1, <1>8, MutationFacts
  <2> QED  BY <1>4, <1>5, <1>6, <1>8, <2>1, MutationFacts DEF RepliesReplayed
<1>9. QED
  BY <1>7, <1>8

\* A stored report is kept by every command, and completed at most once.
LEMMA CommandsKeepReports ==
  ASSUME ApiInv, NEW r \in Api!Requests, r.evidence = "full", Admitted(r)
  PROVE  /\ Api!Committed(r) \in LedgerRows
         /\ \A i \in Identities :
              \/ Api!Committed(r).analyses[i] = ledgerRows.analyses[i]
              \/ ledgerRows.analyses[i] = "none"
              \/ ledgerRows.analyses[i] = "compact" /\ Api!Committed(r).analyses[i] = "first"
         /\ RepliesReplayed(r) => Api!Committed(r) = ledgerRows
<1>1. r.route \in Api!Routes /\ (r.route \in Api!Reports => r.content \in {"first", "other"})
  BY MutationFacts DEF Admitted
<1>2. CASE r.route \in Api!Reports
  <2>1. r.identity \in Identities
    BY <1>2, MutationFacts
  <2>2. ledgerRows.analyses[r.identity] \in Contents
    BY <2>1 DEF ApiInv, LedgerRows
  <2>3. /\ Api!ReportAfter(r) \in Contents
        /\ \/ Api!ReportAfter(r) = ledgerRows.analyses[r.identity]
           \/ ledgerRows.analyses[r.identity] = "none"
           \/ ledgerRows.analyses[r.identity] = "compact" /\ Api!ReportAfter(r) = "first"
    BY <1>1, <1>2, <2>2 DEF Api!ReportAfter, Contents
  <2>4. Api!Committed(r) = [ledgerRows EXCEPT !.analyses[r.identity] = Api!ReportAfter(r)]
    BY <1>2 DEF Api!Committed, Api!Reports, Api!Transitions
  <2>5. Api!Committed(r) \in LedgerRows
    BY <2>1, <2>3, <2>4 DEF ApiInv, LedgerRows
  <2>6. \A i \in Identities : Api!Committed(r).analyses[i]
          = IF i = r.identity THEN Api!ReportAfter(r) ELSE ledgerRows.analyses[i]
    BY <2>1, <2>4 DEF ApiInv, LedgerRows
  <2>7. ASSUME RepliesReplayed(r) PROVE Api!Committed(r) = ledgerRows
    BY <2>1, <2>4, <2>7 DEF RepliesReplayed, ApiInv, LedgerRows
  <2> QED  BY <2>3, <2>5, <2>6, <2>7
<1>3. CASE r.route \notin Api!Reports
  <2>1. Api!Committed(r) \in LedgerRows /\ Api!Committed(r).analyses = ledgerRows.analyses
    <3>1. CASE r.route \in Api!Transitions
      BY <3>1 DEF Api!Committed, Api!Transitions, Api!Reports, Api!Target, Api!Statuses, ApiInv, LedgerRows
    <3>2. CASE r.route \in {"CreateCustomer", "CreateCase", "CreateWebhook", "DeleteWebhook"}
      BY <3>2 DEF Api!Committed, Api!Transitions, Api!Reports, ApiInv, LedgerRows
    <3>3. CASE r.route \in {"IssueGrant", "RevokeGrant", "SetRetention"}
      <4>1. \/ Api!Committed(r) = [ledgerRows EXCEPT !.grant = "issued", !.grants = @ + 1]
            \/ Api!Committed(r) = [ledgerRows EXCEPT !.grant = "revoked"]
            \/ Api!Committed(r) = [ledgerRows EXCEPT !.purgeAt = "set"]
        BY <3>3 DEF Api!Committed, Api!Transitions, Api!Reports
      <4>2. CASE Api!Committed(r) = [ledgerRows EXCEPT !.grant = "issued", !.grants = @ + 1]
        <5>1. ledgerRows.grants + 1 \in Int
          BY DEF ApiInv, LedgerRows
        <5> DEFINE n == ledgerRows.grants + 1
        <5>2. Api!Committed(r) = [[ledgerRows EXCEPT !.grant = "issued"] EXCEPT !.grants = n]
          BY <4>2 DEF ApiInv, LedgerRows
        <5> HIDE DEF n
        <5> QED  BY <5>1, <5>2 DEF n, ApiInv, LedgerRows
      <4>3. CASE Api!Committed(r) = [ledgerRows EXCEPT !.grant = "revoked"]
        BY <4>3 DEF ApiInv, LedgerRows
      <4>4. CASE Api!Committed(r) = [ledgerRows EXCEPT !.purgeAt = "set"]
        BY <4>4 DEF ApiInv, LedgerRows
      <4> QED  BY <4>1, <4>2, <4>3, <4>4
    <3>4. r.route \in Api!Transitions \cup {"CreateCustomer", "CreateCase", "CreateWebhook", "DeleteWebhook"}
                                     \cup {"IssueGrant", "RevokeGrant", "SetRetention"}
      BY <1>1, <1>3 DEF Api!Reports, Api!Routes, Api!OnCase, Api!OnDump
    <3> QED  BY <3>1, <3>2, <3>3, <3>4
  <2> QED  BY <1>3, <2>1 DEF RepliesReplayed
<1>4. QED
  BY <1>2, <1>3

LEMMA MutationStep ==
  ASSUME ApiInv, [Api!ApiNext]_mutationVars
  PROVE  ApiInv' /\ Api!RefusedKeepsRows /\ Api!ReportsKept
<1>1. ASSUME NEW r \in Api!Requests, NEW fault \in Api!Faults, Api!Handle(r, fault)
      PROVE  ApiInv' /\ Api!RefusedKeepsRows /\ Api!ReportsKept
  <2>1. CASE ledgerRows' = ledgerRows /\ last'.code # "replayed"
    BY <2>1 DEF ApiInv, Api!RefusedKeepsRows, Api!ReportsKept
  <2>2. CASE /\ ledgerRows' = Api!Committed(r) /\ r.evidence = "full" /\ Admitted(r)
             /\ last'.code \in {"internal_error", "done"}
    <3>1. last'.code \notin Api!Refusals /\ last'.code # "replayed"
      BY <2>2 DEF Api!Refusals, Api!Retryable
    <3> QED  BY <2>2, <3>1, CommandsKeepReports DEF ApiInv, Api!RefusedKeepsRows, Api!ReportsKept
  <2>3. CASE ledgerRows' = Api!Committed(r) /\ last'.code = "replayed" /\ RepliesReplayed(r)
    <3>1. ledgerRows' = ledgerRows
      <4>1. Api!Committed(r) = [ledgerRows EXCEPT !.analyses[r.identity] = Api!ReportAfter(r)]
        BY <2>3 DEF RepliesReplayed, Api!Committed, Api!Reports, Api!Transitions
      <4> QED  BY <2>3, <4>1 DEF RepliesReplayed, ApiInv, LedgerRows
    <3> QED  BY <3>1 DEF ApiInv, Api!RefusedKeepsRows, Api!ReportsKept
  <2> QED  BY <1>1, <2>1, <2>2, <2>3, HandlerEnds
<1>2. CASE Api!Purge
  <2>1. last'.code = "none"
    BY <1>2 DEF Api!Purge, Api!NoRequest
  <2>2. ledgerRows' = [ledgerRows EXCEPT !.phase = "deleted", !.analyses = [i \in Identities |-> "none"]]
    BY <1>2 DEF Api!Purge
  <2>3. ledgerRows' \in LedgerRows /\ ledgerRows'.phase = "deleted"
    BY <2>2 DEF ApiInv, LedgerRows, Contents
  <2> QED  BY <2>1, <2>3 DEF ApiInv, Api!RefusedKeepsRows, Api!ReportsKept, Api!Refusals, Api!Retryable
<1>3. CASE Api!Answered
  BY <1>3 DEF Api!Answered, Api!NoRequest, ApiInv, Api!RefusedKeepsRows, Api!ReportsKept
<1>4. CASE UNCHANGED mutationVars
  BY <1>4 DEF mutationVars, ApiInv, Api!RefusedKeepsRows, Api!ReportsKept
<1>5. QED
  BY <1>1, <1>2, <1>3, <1>4 DEF Api!ApiNext

LEMMA MutationsStart == Api!ApiInit => ApiInv
BY DEF Api!ApiInit, ApiInv, LedgerRows, Api!Statuses, Contents

THEOREM MutationsInvariant == Api!ApiSpec => []ApiInv
<1>1. ApiInv /\ [Api!ApiNext]_(Api!apiVars) => ApiInv'
  BY MutationStep DEF Api!apiVars, mutationVars
<1>2. QED
  BY <1>1, MutationsStart, PTL DEF Api!ApiSpec

\* Whatever is asked of the API, by whom, with whatever fault and however often
\* after a lost answer: a refusal has changed no row of the ledger and ended no
\* session, a stored report keeps its content until its dump is purged, and an
\* answer that calls a report a replay has written nothing.
THEOREM RefusalsAreHarmless == AccessSpec /\ Api!ApiSpec => RefusalsChangeNothing
<1>1. AccessInv /\ [AccessNext]_accessVars => [SessionsKept]_accessVars
  BY SessionsAreKept
<1>2. ApiInv /\ [Api!ApiNext]_(Api!apiVars) => Api!RefusedKeepsRows /\ Api!ReportsKept
  BY MutationStep DEF Api!apiVars, mutationVars
<1>3. AccessInv /\ UNCHANGED accessVars => SessionsKept
  BY DEF SessionsKept, accessVars
<1>4. ApiInv /\ [Api!ApiNext]_(Api!apiVars) /\ AccessInv /\ [AccessNext]_accessVars
      => [Api!RefusedKeepsRows /\ Api!ReportsKept /\ SessionsKept]_<<mutationVars, accessVars>>
  BY <1>1, <1>2, <1>3
<1>5. QED
  BY <1>4, MutationsInvariant, AccessInvariant, PTL DEF AccessSpec, Api!ApiSpec, RefusalsChangeNothing

-----------------------------------------------------------------------------
(* CatalogScan: finite sets of rows, and the first of them.                *)

LEMMA HasLeast ==
  ASSUME NEW S \in SUBSET Nat, S # {}
  PROVE  \E n \in S : \A m \in S : n <= m
<1> DEFINE R == {ss \in Nat \X Nat : ss[1] < ss[2]}
<1>1. IsWellFoundedOn(R, Nat)
  BY NatLessThanWellFounded DEF OpToRel
<1>2. PICK n \in S : \A m \in S : ~(<<m, n>> \in R)
  <2> HIDE DEF R
  <2> QED  BY <1>1, WFMin
<1>3. \A m \in S : ~(m < n)
  BY <1>2
<1>4. QED
  BY <1>3

\* A finite set in a total order has a greatest element: the one with the
\* fewest above it.
LEMMA HasGreatest ==
  ASSUME NEW S, IsFiniteSet(S), S # {}, NEW R,
         \A a \in S : <<a, a>> \notin R,
         \A a, b, c \in S : <<a, b>> \in R /\ <<b, c>> \in R => <<a, c>> \in R,
         \A a, b \in S : a = b \/ <<a, b>> \in R \/ <<b, a>> \in R
  PROVE  \E k \in S : \A j \in S : j = k \/ <<j, k>> \in R
<1> DEFINE Above(k) == {j \in S : <<k, j>> \in R}
           T == {Cardinality(Above(k)) : k \in S}
<1>1. \A k \in S : IsFiniteSet(Above(k)) /\ Cardinality(Above(k)) \in Nat
  <2> SUFFICES ASSUME NEW k \in S PROVE IsFiniteSet(Above(k)) /\ Cardinality(Above(k)) \in Nat
    OBVIOUS
  <2>1. Above(k) \in SUBSET S
    OBVIOUS
  <2> HIDE DEF Above
  <2> QED  BY <2>1, FS_Subset, FS_CardinalityType
<1>2. T \in SUBSET Nat /\ T # {}
  <2> HIDE DEF Above
  <2> QED  BY <1>1
<1>3. PICK n \in T : \A m \in T : n <= m
  <2> HIDE DEF T
  <2> QED  BY <1>2, HasLeast
<1>4. PICK k \in S : n = Cardinality(Above(k))
  OBVIOUS
<1>5. ASSUME NEW j \in S, j # k, <<j, k>> \notin R PROVE FALSE
  <2>1. j \in Above(k) /\ j \notin Above(j) /\ Above(j) \in SUBSET Above(k)
    BY <1>5
  <2>2. Cardinality(Above(j)) \in T
    BY <1>5
  <2>3. Cardinality(Above(k)) <= Cardinality(Above(j))
    BY <1>3, <1>4, <2>2
  <2> HIDE DEF Above
  <2>4. Cardinality(Above(j)) <= Cardinality(Above(k))
        /\ (Cardinality(Above(k)) = Cardinality(Above(j)) => Above(k) = Above(j))
    BY <1>1, <2>1, FS_Subset
  <2> QED  BY <1>1, <1>5, <2>1, <2>3, <2>4
<1>6. QED
  BY <1>5

Keys == Nat \X Nat
Sooner == {p \in Keys \X Keys : Catalog!Earlier(p[1], p[2])}
Later == {p \in Keys \X Keys : Catalog!Earlier(p[2], p[1])}

LEMMA EarlierIsAnOrder ==
  /\ \A a \in Keys : ~Catalog!Earlier(a, a)
  /\ \A a, b, c \in Keys : Catalog!Earlier(a, b) /\ Catalog!Earlier(b, c) => Catalog!Earlier(a, c)
  /\ \A a, b \in Keys : a = b \/ Catalog!Earlier(a, b) \/ Catalog!Earlier(b, a)
BY DEF Keys, Catalog!Earlier

LEMMA LatestIsLast ==
  ASSUME NEW S \in SUBSET Keys, IsFiniteSet(S), S # {}
  PROVE  /\ Catalog!Latest(S) \in S
         /\ \A j \in S : j = Catalog!Latest(S) \/ Catalog!Earlier(j, Catalog!Latest(S))
<1>1. \E k \in S : \A j \in S : j = k \/ <<j, k>> \in Sooner
  <2>1. /\ \A a \in S : <<a, a>> \notin Sooner
        /\ \A a, b, c \in S : <<a, b>> \in Sooner /\ <<b, c>> \in Sooner => <<a, c>> \in Sooner
        /\ \A a, b \in S : a = b \/ <<a, b>> \in Sooner \/ <<b, a>> \in Sooner
    <3>1. \A a, b \in S : <<a, b>> \in Sooner <=> Catalog!Earlier(a, b)
      BY DEF Sooner
    <3> QED  BY <3>1, EarlierIsAnOrder
  <2> QED  BY <2>1, HasGreatest
<1>2. \E k \in S : \A j \in S : j = k \/ Catalog!Earlier(j, k)
  BY <1>1 DEF Sooner
<1>3. QED
  BY <1>2 DEF Catalog!Latest

\* The first rows of an order: no row is left out before one of them, and all are
\* in unless there are more.
LEMMA PageIsFirst ==
  ASSUME NEW S \in SUBSET Keys, IsFiniteSet(S), NEW n \in Nat \ {0}
  PROVE  /\ Catalog!Limited(S, n) \in SUBSET S /\ IsFiniteSet(Catalog!Limited(S, n))
         /\ \A k \in Catalog!Limited(S, n), j \in S \ Catalog!Limited(S, n) : Catalog!Earlier(k, j)
         /\ S # {} => Catalog!Limited(S, n) # {}
         /\ ~(Cardinality(S) > n) => Catalog!Limited(S, n) = S
<1> DEFINE Below(k) == {j \in S : Catalog!Earlier(j, k)}
<1>1. \A k \in S : IsFiniteSet(Below(k)) /\ Cardinality(Below(k)) \in Nat
  <2> SUFFICES ASSUME NEW k \in S PROVE IsFiniteSet(Below(k)) /\ Cardinality(Below(k)) \in Nat
    OBVIOUS
  <2>1. Below(k) \in SUBSET S
    OBVIOUS
  <2> HIDE DEF Below
  <2> QED  BY <2>1, FS_Subset, FS_CardinalityType
<1>2. Catalog!Limited(S, n) = {k \in S : Cardinality(Below(k)) < n}
  BY Zenon DEF Catalog!Limited, Catalog!Cardinality, Cardinality
<1>3. IsFiniteSet(Catalog!Limited(S, n))
  BY <1>2, FS_Subset
<1>4. ASSUME NEW k \in S, NEW j \in S, Cardinality(Below(k)) < n, ~(Cardinality(Below(j)) < n)
      PROVE  Catalog!Earlier(k, j)
  <2>1. SUFFICES ASSUME ~Catalog!Earlier(k, j) PROVE FALSE
    OBVIOUS
  <2>2. j = k \/ Catalog!Earlier(j, k)
    BY <2>1, EarlierIsAnOrder
  <2>3. Below(j) \in SUBSET Below(k)
    BY <2>2, EarlierIsAnOrder
  <2>4. Cardinality(Below(j)) <= Cardinality(Below(k))
    <3> HIDE DEF Below
    <3> QED  BY <1>1, <2>3, FS_Subset
  <2> HIDE DEF Below
  <2> QED  BY <1>1, <1>4, <2>4
<1>5. ASSUME S # {} PROVE \E k \in S : Cardinality(Below(k)) < n
  <2>1. \E k \in S : \A j \in S : j = k \/ <<j, k>> \in Later
    <3>1. \A a, b \in S : <<a, b>> \in Later <=> Catalog!Earlier(b, a)
      BY DEF Later
    <3>2. /\ \A a \in S : <<a, a>> \notin Later
          /\ \A a, b, c \in S : <<a, b>> \in Later /\ <<b, c>> \in Later => <<a, c>> \in Later
          /\ \A a, b \in S : a = b \/ <<a, b>> \in Later \/ <<b, a>> \in Later
      BY <3>1, EarlierIsAnOrder
    <3> QED  BY <1>5, <3>2, HasGreatest
  <2>2. PICK k \in S : \A j \in S : j = k \/ Catalog!Earlier(k, j)
    BY <2>1 DEF Later
  <2>3. Below(k) = {}
    BY <2>2, EarlierIsAnOrder
  <2>4. Cardinality(Below(k)) = 0
    <3> HIDE DEF Below
    <3> QED  BY <2>3, FS_EmptySet
  <2> QED  BY <2>4
<1>6. ASSUME ~(Cardinality(S) > n), NEW k \in S PROVE Cardinality(Below(k)) < n
  <2>1. Below(k) \in SUBSET (S \ {k})
    BY EarlierIsAnOrder
  <2>2. IsFiniteSet(S \ {k}) /\ Cardinality(S \ {k}) = Cardinality(S) - 1 /\ Cardinality(S) \in Nat
    BY FS_RemoveElement, FS_CardinalityType
  <2>3. Cardinality(Below(k)) <= Cardinality(S \ {k})
    <3> HIDE DEF Below
    <3> QED  BY <2>1, <2>2, FS_Subset
  <2> HIDE DEF Below
  <2> QED  BY <1>1, <1>6, <2>2, <2>3
<1>7. QED
  <2> HIDE DEF Below
  <2> QED  BY <1>2, <1>3, <1>4, <1>5, <1>6

-----------------------------------------------------------------------------
(* CatalogScan: the walk of the catalog.                                   *)

AllOf(pages) == UNION {pages[i] : i \in DOMAIN pages}

Scan ==
  [state : {"idle", "open", "done"}, filter : Catalog!Filters, after : Keys \cup {Catalog!NoCursor},
   listed : Seq(SUBSET Keys), steady : SUBSET Keys, arrived : SUBSET Keys]

\* An open walk has listed nothing after its cursor, and what was there all along
\* is listed or still to come.
ScanSound ==
  /\ \A k \in scan.steady : k \in DOMAIN dumps /\ Catalog!Matches(scan.filter, dumps[k])
  /\ \A k \in AllOf(scan.listed) :
       scan.state = "open" => /\ scan.after # Catalog!NoCursor
                              /\ k = scan.after \/ Catalog!Earlier(k, scan.after)
  /\ scan.state = "open" =>
       \A k \in scan.steady : k \in AllOf(scan.listed) \/ Catalog!After(k, scan.after)
  /\ scan.state = "idle" => scan.listed = <<>>

ScanInv ==
  /\ catalogClock \in Nat /\ DOMAIN dumps \in SUBSET Keys /\ IsFiniteSet(DOMAIN dumps)
  /\ scan \in Scan /\ ScanSound /\ Catalog!ScanIsExact

\* A list of pages with one more.
LEMMA OnePageMore ==
  ASSUME NEW T, NEW pages \in Seq(SUBSET T), NEW page \in SUBSET T
  PROVE  /\ Append(pages, page) \in Seq(SUBSET T)
         /\ AllOf(Append(pages, page)) = AllOf(pages) \cup page
         /\ DOMAIN Append(pages, page) = 1..(Len(pages) + 1) /\ DOMAIN pages = 1..Len(pages)
         /\ Len(pages) \in Nat
         /\ \A i \in 1..Len(pages) : Append(pages, page)[i] = pages[i] /\ pages[i] \in SUBSET AllOf(pages)
         /\ Append(pages, page)[Len(pages) + 1] = page
<1> DEFINE more == Append(pages, page)
           n == Len(pages)
<1>1. n \in Nat /\ DOMAIN pages = 1..n /\ more \in Seq(SUBSET T) /\ DOMAIN more = 1..(n + 1)
      /\ (\A i \in 1..n : more[i] = pages[i]) /\ more[n + 1] = page
  OBVIOUS
<1> HIDE DEF more, n
<1>2. AllOf(more) = AllOf(pages) \cup page
  <2>1. ASSUME NEW x \in AllOf(more) PROVE x \in AllOf(pages) \cup page
    <3>1. PICK i \in 1..(n + 1) : x \in more[i]
      BY <1>1, <2>1 DEF AllOf
    <3>2. i \in 1..n \/ i = n + 1
      BY <1>1
    <3> QED  BY <1>1, <3>1, <3>2 DEF AllOf
  <2>2. ASSUME NEW x \in AllOf(pages) PROVE x \in AllOf(more)
    <3>1. PICK i \in 1..n : x \in pages[i]
      BY <1>1, <2>2 DEF AllOf
    <3>2. i \in 1..(n + 1)
      BY <1>1
    <3> QED  BY <1>1, <3>1, <3>2 DEF AllOf
  <2>3. n + 1 \in 1..(n + 1)
    BY <1>1
  <2>4. page \subseteq AllOf(more)
    BY <1>1, <2>3 DEF AllOf
  <2> QED  BY <2>1, <2>2, <2>4
<1>3. \A i \in 1..n : pages[i] \in SUBSET AllOf(pages)
  BY <1>1 DEF AllOf
<1>4. QED
  BY <1>1, <1>2, <1>3 DEF more, n

LEMMA AllOfNothing == AllOf(<<>>) = {}
BY DEF AllOf

LEMMA SameAllOf == \A pages : Catalog!AllOf(pages) = AllOf(pages)
BY DEF Catalog!AllOf, AllOf

\* What a walk has listed is in order, one page more of later rows included.
LEMMA OrderGoesOn ==
  ASSUME NEW pages \in Seq(SUBSET Keys), NEW page \in SUBSET Keys,
         \A i, j \in DOMAIN pages : i < j => \A k \in pages[i], l \in pages[j] : Catalog!Earlier(k, l),
         \A k \in AllOf(pages), l \in page : Catalog!Earlier(k, l)
  PROVE  \A i, j \in DOMAIN Append(pages, page) :
           i < j => \A k \in Append(pages, page)[i], l \in Append(pages, page)[j] : Catalog!Earlier(k, l)
<1> DEFINE more == Append(pages, page)
           n == Len(pages)
<1>1. /\ n \in Nat /\ DOMAIN pages = 1..n /\ DOMAIN more = 1..(n + 1) /\ more[n + 1] = page
      /\ \A i \in 1..n : more[i] = pages[i]
  OBVIOUS
<1> HIDE DEF more, n
<1>2. \A i \in 1..n : pages[i] \in SUBSET AllOf(pages)
  BY <1>1 DEF AllOf
<1>3. ASSUME NEW i \in 1..(n + 1), NEW j \in 1..(n + 1), i < j, NEW k \in more[i], NEW l \in more[j]
      PROVE  Catalog!Earlier(k, l)
  <2>1. i \in 1..n /\ (j \in 1..n \/ j = n + 1)
    BY <1>1, <1>3
  <2>2. CASE j \in 1..n
    BY <1>1, <1>3, <2>1, <2>2
  <2>3. CASE j = n + 1
    BY <1>1, <1>2, <1>3, <2>1, <2>3
  <2> QED  BY <2>1, <2>2, <2>3
<1>4. QED
  BY <1>1, <1>3 DEF more, n

LEMMA ScanPageKeeps ==
  ASSUME ScanInv, Catalog!ScanPage
  PROVE  ScanInv'
<1> DEFINE keys == {k \in DOMAIN dumps : Catalog!Matches(scan.filter, dumps[k]) /\ Catalog!After(k, scan.after)}
           page == Catalog!Limited(keys, PageSize)
           next == IF Catalog!More(keys) THEN Catalog!Latest(page) ELSE Catalog!NoCursor
<1>1. /\ catalogClock \in Nat /\ DOMAIN dumps \in SUBSET Keys /\ IsFiniteSet(DOMAIN dumps)
      /\ scan \in Scan /\ ScanSound /\ Catalog!ScanIsExact /\ scan.state = "open"
  BY DEF ScanInv, Catalog!ScanPage
<1>2. /\ scan' = [scan EXCEPT !.listed = Append(@, page), !.after = next,
                              !.state = IF next = Catalog!NoCursor THEN "done" ELSE "open"]
      /\ catalogClock' = catalogClock /\ dumps' = dumps
  BY Zenon DEF Catalog!ScanPage, Catalog!SearchDumps
<1>3. keys \in SUBSET Keys /\ IsFiniteSet(keys)
  <2>1. keys \in SUBSET DOMAIN dumps
    OBVIOUS
  <2> HIDE DEF keys
  <2> QED  BY <1>1, <2>1, FS_Subset
<1>4. PageSize \in Nat \ {0}
  BY ApiAssumption DEF Catalog!ScanBounds
<1>5. /\ page \in SUBSET keys /\ IsFiniteSet(page)
      /\ \A k \in page, j \in keys \ page : Catalog!Earlier(k, j)
      /\ keys # {} => page # {}
      /\ ~(Cardinality(keys) > PageSize) => page = keys
  <2> HIDE DEF keys
  <2> QED  BY <1>3, <1>4, PageIsFirst
<1>6. \A k \in AllOf(scan.listed), l \in page : Catalog!Earlier(k, l)
  <2> SUFFICES ASSUME NEW k \in AllOf(scan.listed), NEW l \in page PROVE Catalog!Earlier(k, l)
    OBVIOUS
  <2>1. scan.after \in Keys /\ (k = scan.after \/ Catalog!Earlier(k, scan.after))
    BY <1>1 DEF ScanSound, Scan
  <2>2. k \in Keys
    BY <1>1 DEF AllOf, Scan
  <2>3. l \in Keys /\ Catalog!After(l, scan.after)
    BY <1>3, <1>5
  <2>4. Catalog!Earlier(scan.after, l)
    BY <1>1, <2>1, <2>3 DEF Catalog!After, ScanSound
  <2> QED  BY <2>1, <2>2, <2>3, <2>4, EarlierIsAnOrder
<1>7. Catalog!More(keys) =>
        /\ next \in page /\ next \in Keys /\ next # Catalog!NoCursor
        /\ \A j \in page : j = next \/ Catalog!Earlier(j, next)
  <2> SUFFICES ASSUME Catalog!More(keys)
               PROVE  /\ next \in page /\ next \in Keys /\ next # Catalog!NoCursor
                      /\ \A j \in page : j = next \/ Catalog!Earlier(j, next)
    OBVIOUS
  <2>1. Cardinality(keys) > PageSize
    <3> HIDE DEF keys
    <3> QED  BY Zenon DEF Catalog!More, Catalog!Cardinality, Cardinality
  <2>2. keys # {}
    <3> HIDE DEF keys
    <3> QED  BY <1>4, <2>1, FS_EmptySet
  <2>3. page \in SUBSET Keys /\ page # {}
    BY <1>3, <1>5, <2>2
  <2>4. next = Catalog!Latest(page)
    OBVIOUS
  <2> HIDE DEF keys, page, next
  <2>5. next \in page /\ \A j \in page : j = next \/ Catalog!Earlier(j, next)
    BY <1>5, <2>3, <2>4, LatestIsLast
  <2> QED  BY <2>3, <2>5 DEF Keys, Catalog!NoCursor
<1>8. ~Catalog!More(keys) => page = keys /\ next = Catalog!NoCursor
  <2> SUFFICES ASSUME ~Catalog!More(keys) PROVE page = keys
    OBVIOUS
  <2>1. ~(Cardinality(keys) > PageSize)
    <3> HIDE DEF keys
    <3> QED  BY Zenon DEF Catalog!More, Catalog!Cardinality, Cardinality
  <2> QED  BY <1>5, <2>1
<1>9. \A k \in scan.steady : k \in AllOf(scan.listed) \/ k \in keys
  BY <1>1 DEF ScanSound
<1> HIDE DEF keys, page, next
<1>10. /\ scan.listed \in Seq(SUBSET Keys) /\ page \in SUBSET Keys
       /\ next \in Keys \cup {Catalog!NoCursor}
  BY <1>1, <1>3, <1>5, <1>7, <1>8 DEF Scan
<1>11. /\ scan'.listed = Append(scan.listed, page) /\ scan'.after = next
       /\ scan'.state = IF next = Catalog!NoCursor THEN "done" ELSE "open"
       /\ scan'.filter = scan.filter /\ scan'.steady = scan.steady /\ scan'.arrived = scan.arrived
  BY <1>1, <1>2 DEF Scan
<1>12. Append(scan.listed, page) \in Seq(SUBSET Keys)
       /\ AllOf(Append(scan.listed, page)) = AllOf(scan.listed) \cup page
  BY ZenonT(30), <1>10, OnePageMore
<1>13. scan' \in Scan
  BY <1>1, <1>2, <1>10, <1>12 DEF Scan
<1>14. ScanSound'
  <2>1. \A k \in scan'.steady : k \in DOMAIN dumps' /\ Catalog!Matches(scan'.filter, dumps'[k])
    BY <1>1, <1>2, <1>11 DEF ScanSound
  <2>2. ASSUME scan'.state = "open", NEW k \in AllOf(scan'.listed)
        PROVE  scan'.after # Catalog!NoCursor /\ (k = scan'.after \/ Catalog!Earlier(k, scan'.after))
    <3>1. Catalog!More(keys) /\ next \in page
      BY <1>7, <1>8, <1>11, <2>2
    <3>2. CASE k \in page
      BY <1>7, <1>11, <3>1, <3>2
    <3>3. CASE k \in AllOf(scan.listed)
      BY <1>6, <1>7, <1>11, <3>1, <3>3
    <3> QED  BY <1>11, <1>12, <2>2, <3>2, <3>3
  <2>3. ASSUME scan'.state = "open", NEW k \in scan'.steady
        PROVE  k \in AllOf(scan'.listed) \/ Catalog!After(k, scan'.after)
    <3>1. Catalog!More(keys) /\ next \in page
      BY <1>7, <1>8, <1>11, <2>3
    <3> QED  BY <1>5, <1>9, <1>11, <1>12, <2>3, <3>1 DEF Catalog!After
  <2>4. scan'.state # "idle"
    BY <1>11
  <2> QED  BY <2>1, <2>2, <2>3, <2>4 DEF ScanSound
<1>15. Catalog!ScanIsExact'
  <2>1. \A i, j \in DOMAIN scan'.listed :
          i < j => \A k \in scan'.listed[i], l \in scan'.listed[j] : Catalog!Earlier(k, l)
    BY <1>1, <1>6, <1>10, <1>11, OrderGoesOn DEF Catalog!ScanIsExact
  <2>2. ASSUME scan'.state = "done", NEW k \in scan'.steady PROVE k \in AllOf(scan'.listed)
    <3>1. ~Catalog!More(keys)
      BY <1>7, <1>11, <2>2
    <3> QED  BY <1>8, <1>9, <1>11, <1>12, <2>2, <3>1
  <2> QED  BY <2>1, <2>2, SameAllOf DEF Catalog!ScanIsExact
<1>16. QED
  BY <1>1, <1>2, <1>13, <1>14, <1>15 DEF ScanInv

\* A row arrives, or a dump goes on to its next phase.
LEMMA ArrivalKeeps ==
  ASSUME ScanInv, NEW d \in DumpIds, Catalog!BeginUpload(d)
  PROVE  ScanInv'
<1> DEFINE key == <<catalogClock, d>>
<1>1. /\ catalogClock \in Nat /\ DOMAIN dumps \in SUBSET Keys /\ IsFiniteSet(DOMAIN dumps)
      /\ scan \in Scan /\ ScanSound /\ Catalog!ScanIsExact
  BY DEF ScanInv
<1>2. key \in Keys
  BY <1>1, ApiAssumption DEF Keys, Catalog!ScanBounds
<1>3. /\ DOMAIN dumps' = DOMAIN dumps \cup {key} /\ catalogClock' = catalogClock
      /\ \A k \in DOMAIN dumps : dumps'[k] = dumps[k]
  BY DEF Catalog!BeginUpload
<1>4. \E new \in SUBSET Keys : scan' = [scan EXCEPT !.arrived = new]
  <2>1. scan' = [scan EXCEPT !.arrived = IF scan.state = "open" /\ scan.filter = "all"
                                         THEN scan.arrived \cup {key} ELSE scan.arrived]
    BY <1>1 DEF Catalog!BeginUpload, Scan
  <2> HIDE DEF key
  <2>2. scan.arrived \cup {key} \in SUBSET Keys /\ scan.arrived \in SUBSET Keys
    BY <1>1, <1>2 DEF Scan
  <2> QED  BY <2>1, <2>2
<1> HIDE DEF key
<1>5. DOMAIN dumps' \in SUBSET Keys /\ IsFiniteSet(DOMAIN dumps')
  BY <1>1, <1>2, <1>3, FS_AddElement
<1>6. /\ scan' \in Scan /\ scan'.state = scan.state /\ scan'.filter = scan.filter /\ scan'.after = scan.after
      /\ scan'.listed = scan.listed /\ scan'.steady = scan.steady
  BY <1>1, <1>4 DEF Scan
<1>7. ScanSound'
  BY <1>1, <1>3, <1>6 DEF ScanSound
<1>8. Catalog!ScanIsExact'
  BY <1>1, <1>6, SameAllOf DEF Catalog!ScanIsExact
<1>9. QED
  BY <1>1, <1>3, <1>5, <1>6, <1>7, <1>8 DEF ScanInv

LEMMA PhaseKeeps ==
  ASSUME ScanInv, NEW k \in DOMAIN dumps, Catalog!ChangePhase(k)
  PROVE  ScanInv'
<1>1. /\ catalogClock \in Nat /\ DOMAIN dumps \in SUBSET Keys /\ IsFiniteSet(DOMAIN dumps)
      /\ scan \in Scan /\ ScanSound /\ Catalog!ScanIsExact
  BY DEF ScanInv
<1>2. PICK p : /\ dumps' = [dumps EXCEPT ![k] = p] /\ catalogClock' = catalogClock
               /\ scan' = [scan EXCEPT !.steady = IF Catalog!Matches(scan.filter, p) THEN @ ELSE @ \ {k}]
  BY DEF Catalog!ChangePhase
<1>3. DOMAIN dumps' = DOMAIN dumps
  BY <1>2
<1>4. /\ scan' \in Scan /\ scan'.state = scan.state /\ scan'.filter = scan.filter /\ scan'.after = scan.after
      /\ scan'.listed = scan.listed
      /\ scan'.steady = IF Catalog!Matches(scan.filter, p) THEN scan.steady ELSE scan.steady \ {k}
  BY <1>1, <1>2 DEF Scan
<1>5. \A j \in scan'.steady : j \in DOMAIN dumps' /\ Catalog!Matches(scan'.filter, dumps'[j])
  <2> SUFFICES ASSUME NEW j \in scan'.steady
               PROVE  j \in DOMAIN dumps /\ Catalog!Matches(scan.filter, dumps'[j])
    BY <1>3, <1>4
  <2>1. j \in scan.steady /\ (j = k => Catalog!Matches(scan.filter, p))
    BY <1>4
  <2>2. j \in DOMAIN dumps /\ Catalog!Matches(scan.filter, dumps[j])
    BY <1>1, <2>1 DEF ScanSound
  <2>3. dumps'[j] = IF j = k THEN p ELSE dumps[j]
    BY <1>2, <2>2
  <2> QED  BY <2>1, <2>2, <2>3
<1>6. ScanSound'
  BY <1>1, <1>4, <1>5 DEF ScanSound
<1>7. Catalog!ScanIsExact'
  BY <1>1, <1>4, SameAllOf DEF Catalog!ScanIsExact
<1>8. QED
  BY <1>1, <1>2, <1>3, <1>4, <1>6, <1>7 DEF ScanInv

LEMMA StartKeeps ==
  ASSUME ScanInv, Catalog!StartScan
  PROVE  ScanInv'
<1>1. /\ catalogClock \in Nat /\ DOMAIN dumps \in SUBSET Keys /\ IsFiniteSet(DOMAIN dumps)
      /\ scan \in Scan /\ ScanSound /\ Catalog!ScanIsExact
  BY DEF ScanInv
<1>2. PICK f \in Catalog!Filters :
        scan' = [state |-> "open", filter |-> f, after |-> Catalog!NoCursor, listed |-> <<>>,
                 steady |-> {k \in DOMAIN dumps : Catalog!Matches(f, dumps[k])}, arrived |-> {}]
  BY DEF Catalog!StartScan
<1>3. dumps' = dumps /\ catalogClock' = catalogClock
  BY DEF Catalog!StartScan
<1>4. <<>> \in Seq(SUBSET Keys) /\ DOMAIN <<>> = {}
  OBVIOUS
<1>5. scan' \in Scan
  <2>1. {k \in DOMAIN dumps : Catalog!Matches(f, dumps[k])} \in SUBSET Keys
    BY <1>1
  <2> QED  BY <1>2, <1>4, <2>1 DEF Scan
<1>6. ScanSound'
  <2>1. scan'.state = "open" /\ scan'.listed = <<>> /\ scan'.after = Catalog!NoCursor /\ scan'.filter = f
    BY <1>2
  <2>2. \A k \in scan'.steady : k \in DOMAIN dumps' /\ Catalog!Matches(scan'.filter, dumps'[k])
    BY <1>2, <1>3, <2>1
  <2>3. \A k \in scan'.steady : Catalog!After(k, scan'.after)
    BY <2>1 DEF Catalog!After
  <2> QED  BY <2>1, <2>2, <2>3, AllOfNothing DEF ScanSound
<1>7. Catalog!ScanIsExact'
  <2>1. scan'.state = "open" /\ DOMAIN scan'.listed = {}
    BY <1>2, <1>4
  <2> QED  BY <2>1 DEF Catalog!ScanIsExact
<1>8. QED
  BY <1>1, <1>3, <1>5, <1>6, <1>7 DEF ScanInv

LEMMA CatalogStep ==
  ASSUME ScanInv, Catalog!CatalogNext \/ UNCHANGED <<catalogClock, dumps, scan>>
  PROVE  ScanInv'
<1>1. ASSUME catalogClock' \in Nat, dumps' = dumps, scan' = scan PROVE ScanInv'
  BY <1>1, SameAllOf DEF ScanInv, ScanSound, Catalog!ScanIsExact
<1>2. CASE Catalog!Tick
  BY <1>1, <1>2 DEF Catalog!Tick, ScanInv
<1>3. CASE UNCHANGED <<catalogClock, dumps, scan>>
  BY <1>1, <1>3 DEF ScanInv
<1>4. QED
  BY <1>2, <1>3, ScanPageKeeps, ArrivalKeeps, PhaseKeeps, StartKeeps DEF Catalog!CatalogNext
-----------------------------------------------------------------------------
(* CatalogScan: the walk of the cases.                                     *)

CaseWalk ==
  [state : {"idle", "open", "done"}, start : Nat, listed : SUBSET CaseIds, present : SUBSET CaseIds]

\* A case's place can only grow, so a case not listed yet is at the offset of the
\* next page or after it.
WalkInv ==
  /\ cases \in Seq(CaseIds) /\ IsFiniteSet(Catalog!Existing)
  /\ walk \in CaseWalk /\ walk.present \subseteq Catalog!Existing
  /\ walk.state = "open" => \A c \in walk.present : c \in walk.listed \/ walk.start <= Catalog!Place(c)
  /\ Catalog!WalkIsComplete

Smaller(S, c) == {d \in S : d < c}

LEMMA PlaceIsCount == \A c : Catalog!Place(c) = Cardinality(Smaller(Catalog!Existing, c))
BY Zenon DEF Catalog!Place, Smaller, Catalog!Cardinality, Cardinality

LEMMA CountsGrow ==
  ASSUME NEW S, IsFiniteSet(S), S \subseteq Nat, NEW T \in SUBSET S, NEW c \in S
  PROVE  /\ Cardinality(Smaller(T, c)) \in Nat /\ Cardinality(Smaller(S, c)) \in Nat
         /\ Cardinality(Smaller(T, c)) <= Cardinality(Smaller(S, c))
         /\ Cardinality(Smaller(S, c)) < Cardinality(S) /\ Cardinality(S) \in Nat
<1>1. Smaller(T, c) \in SUBSET Smaller(S, c) /\ Smaller(S, c) \in SUBSET (S \ {c})
  <2>1. \A d \in Smaller(T, c) : d \in Smaller(S, c)
    BY DEF Smaller
  <2>2. \A d \in Smaller(S, c) : d \in S /\ d < c
    BY DEF Smaller
  <2>3. ~(c < c)
    OBVIOUS
  <2> QED  BY <2>1, <2>2, <2>3
<1>2. IsFiniteSet(S \ {c}) /\ Cardinality(S \ {c}) = Cardinality(S) - 1 /\ Cardinality(S) \in Nat
  BY FS_RemoveElement, FS_CardinalityType
<1>3. IsFiniteSet(Smaller(S, c)) /\ Cardinality(Smaller(S, c)) <= Cardinality(S \ {c})
  BY <1>1, <1>2, FS_Subset
<1>4. IsFiniteSet(Smaller(T, c)) /\ Cardinality(Smaller(T, c)) <= Cardinality(Smaller(S, c))
  BY <1>1, <1>3, FS_Subset
<1>5. QED
  BY <1>2, <1>3, <1>4, FS_CardinalityType

LEMMA ExistingAreCases ==
  ASSUME cases \in Seq(CaseIds)
  PROVE  Catalog!Existing \subseteq CaseIds /\ CaseIds \subseteq Nat
BY ApiAssumption DEF Catalog!Existing, Catalog!ScanBounds

LEMMA CaseKeeps ==
  ASSUME WalkInv, NEW c \in CaseIds, Catalog!CreateCase(c)
  PROVE  WalkInv'
<1>1. /\ cases \in Seq(CaseIds) /\ IsFiniteSet(Catalog!Existing)
      /\ cases' = Append(cases, c) /\ walk' = walk
      /\ walk \in CaseWalk /\ walk.present \subseteq Catalog!Existing
  BY DEF WalkInv, Catalog!CreateCase
<1>2. /\ cases' \in Seq(CaseIds) /\ Len(cases) \in Nat
      /\ DOMAIN cases = 1..Len(cases) /\ DOMAIN cases' = 1..(Len(cases) + 1)
      /\ \A i \in 1..Len(cases) : cases'[i] = cases[i]
      /\ cases'[Len(cases) + 1] = c
  BY <1>1
<1>3. Catalog!Existing' = Catalog!Existing \cup {c}
  <2>1. \A i \in 1..(Len(cases) + 1) : i \in 1..Len(cases) \/ i = Len(cases) + 1
    BY <1>2
  <2>2. \A i \in 1..Len(cases) : i \in 1..(Len(cases) + 1)
    BY <1>2
  <2>3. Len(cases) + 1 \in 1..(Len(cases) + 1)
    BY <1>2
  <2> QED  BY <1>2, <2>1, <2>2, <2>3 DEF Catalog!Existing
<1>4. IsFiniteSet(Catalog!Existing')
  BY <1>1, <1>3, FS_AddElement
<1>5. \A d \in Catalog!Existing :
        Catalog!Place(d) \in Nat /\ Catalog!Place(d)' \in Nat /\ Catalog!Place(d) <= Catalog!Place(d)'
  <2> SUFFICES ASSUME NEW d \in Catalog!Existing
               PROVE  Catalog!Place(d) \in Nat /\ Catalog!Place(d)' \in Nat /\ Catalog!Place(d) <= Catalog!Place(d)'
    OBVIOUS
  <2>1. Catalog!Existing' \subseteq Nat
    BY <1>1, <1>3, ExistingAreCases
  <2>2. Catalog!Place(d) = Cardinality(Smaller(Catalog!Existing, d))
    BY PlaceIsCount
  <2>3. Catalog!Place(d)' = Cardinality(Smaller(Catalog!Existing', d))
    BY Zenon DEF Catalog!Place, Smaller, Catalog!Cardinality, Cardinality
  <2>4. Catalog!Existing \in SUBSET Catalog!Existing' /\ d \in Catalog!Existing'
    BY <1>3
  <2> QED  BY <1>4, <2>1, <2>2, <2>3, <2>4, CountsGrow
<1>6. ASSUME walk.state = "open", NEW d \in walk.present, d \notin walk.listed PROVE walk.start <= Catalog!Place(d)'
  <2>1. walk.start <= Catalog!Place(d) /\ d \in Catalog!Existing /\ walk.start \in Nat
    BY <1>1, <1>6 DEF WalkInv, CaseWalk
  <2> QED  BY <1>5, <2>1
<1>7. Catalog!WalkIsComplete'
  BY <1>1 DEF WalkInv, Catalog!WalkIsComplete
<1>8. QED
  BY <1>1, <1>2, <1>3, <1>4, <1>6, <1>7 DEF WalkInv

LEMMA WalkPageKeeps ==
  ASSUME WalkInv, Catalog!WalkPage
  PROVE  WalkInv'
<1> DEFINE page == {c \in Catalog!Existing :
                      walk.start <= Catalog!Place(c) /\ Catalog!Place(c) < walk.start + PageSize}
           past == walk.start + PageSize >= Cardinality(Catalog!Existing)
<1>1. /\ cases \in Seq(CaseIds) /\ IsFiniteSet(Catalog!Existing) /\ cases' = cases
      /\ walk \in CaseWalk /\ walk.present \subseteq Catalog!Existing /\ walk.state = "open"
      /\ \A c \in walk.present : c \in walk.listed \/ walk.start <= Catalog!Place(c)
  BY DEF WalkInv, Catalog!WalkPage
<1>2. Catalog!Existing' = Catalog!Existing /\ \A c : Catalog!Place(c)' = Catalog!Place(c)
  BY <1>1 DEF Catalog!Existing, Catalog!Place
<1>3. walk' = [walk EXCEPT !.listed = @ \cup page, !.start = walk.start + PageSize,
                           !.state = IF past THEN "done" ELSE "open"]
  BY Zenon DEF Catalog!WalkPage, Catalog!SearchCases, Catalog!NextOffset, Catalog!Cardinality, Cardinality
<1>4. PageSize \in Nat
  BY ApiAssumption DEF Catalog!ScanBounds
<1>5. \A c \in Catalog!Existing :
        /\ Catalog!Place(c) \in Nat /\ Catalog!Place(c) < Cardinality(Catalog!Existing)
        /\ Cardinality(Catalog!Existing) \in Nat
  <2>1. Catalog!Existing \subseteq Nat
    BY <1>1, ExistingAreCases
  <2>2. \A c \in Catalog!Existing :
          /\ Cardinality(Smaller(Catalog!Existing, c)) \in Nat
          /\ Cardinality(Smaller(Catalog!Existing, c)) < Cardinality(Catalog!Existing)
          /\ Cardinality(Catalog!Existing) \in Nat
    BY <1>1, <2>1, CountsGrow
  <2> QED  BY <2>2, PlaceIsCount
<1>6. \A c \in walk.present : c \in walk.listed \cup page \/ walk.start + PageSize <= Catalog!Place(c)
  <2> SUFFICES ASSUME NEW c \in walk.present, c \notin walk.listed, ~(walk.start + PageSize <= Catalog!Place(c))
               PROVE  c \in page
    OBVIOUS
  <2>1. c \in Catalog!Existing /\ walk.start <= Catalog!Place(c) /\ walk.start \in Nat
    BY <1>1 DEF CaseWalk
  <2> QED  BY <1>4, <1>5, <2>1
<1>7. past => walk.present \subseteq walk.listed \cup page
  <2> SUFFICES ASSUME past, NEW c \in walk.present PROVE c \in walk.listed \cup page
    OBVIOUS
  <2>1. c \in Catalog!Existing /\ walk.start \in Nat
    BY <1>1 DEF CaseWalk
  <2>2. ~(walk.start + PageSize <= Catalog!Place(c))
    BY <1>4, <1>5, <2>1
  <2> QED  BY <1>6, <2>2
<1>8. page \subseteq CaseIds
  BY <1>1, ExistingAreCases
<1> HIDE DEF page, past
<1>9. /\ walk' \in CaseWalk /\ walk'.present = walk.present /\ walk'.listed = walk.listed \cup page
      /\ walk'.start = walk.start + PageSize /\ walk'.state = IF past THEN "done" ELSE "open"
  <2>1. /\ walk.listed \cup page \in SUBSET CaseIds /\ walk.start + PageSize \in Nat
        /\ (IF past THEN "done" ELSE "open") \in {"idle", "open", "done"}
    BY <1>1, <1>4, <1>8 DEF CaseWalk
  <2>2. PICK l, n, st : /\ l = walk.listed \cup page /\ n = walk.start + PageSize
                        /\ st = IF past THEN "done" ELSE "open"
    OBVIOUS
  <2>3. walk' = [[[walk EXCEPT !.listed = l] EXCEPT !.start = n] EXCEPT !.state = st]
    BY <1>3, <2>2
  <2>4. walk' \in CaseWalk /\ walk'.present = walk.present /\ walk'.listed = l /\ walk'.start = n /\ walk'.state = st
    BY <1>1, <2>1, <2>2, <2>3 DEF CaseWalk
  <2> QED  BY <2>2, <2>4
<1>10. walk'.state = "open" => \A c \in walk'.present : c \in walk'.listed \/ walk'.start <= Catalog!Place(c)'
  BY <1>2, <1>6, <1>9
<1>11. Catalog!WalkIsComplete'
  BY <1>7, <1>9 DEF Catalog!WalkIsComplete
<1>12. QED
  BY <1>1, <1>2, <1>9, <1>10, <1>11 DEF WalkInv

LEMMA CaseListStep ==
  ASSUME WalkInv, Catalog!CaseListNext \/ UNCHANGED <<cases, walk>>
  PROVE  WalkInv'
<1>1. CASE Catalog!StartWalk
  <2>1. /\ cases \in Seq(CaseIds) /\ IsFiniteSet(Catalog!Existing) /\ cases' = cases
        /\ walk' = [state |-> "open", start |-> 0, listed |-> {}, present |-> Catalog!Existing]
    BY <1>1 DEF Catalog!StartWalk, WalkInv
  <2>2. Catalog!Existing' = Catalog!Existing /\ Catalog!Existing \subseteq CaseIds /\ CaseIds \subseteq Nat
    BY <2>1, ExistingAreCases DEF Catalog!Existing
  <2>3. \A c \in Catalog!Existing : 0 <= Catalog!Place(c)'
    <3>1. \A c \in Catalog!Existing : Cardinality(Smaller(Catalog!Existing, c)) \in Nat
      BY <2>1, <2>2, CountsGrow
    <3>2. \A c : Catalog!Place(c)' = Catalog!Place(c)
      BY <2>2 DEF Catalog!Place
    <3> QED  BY <3>1, <3>2, PlaceIsCount
  <2> QED  BY <2>1, <2>2, <2>3 DEF WalkInv, CaseWalk, Catalog!WalkIsComplete
<1>2. CASE UNCHANGED <<cases, walk>>
  BY <1>2 DEF WalkInv, Catalog!Existing, Catalog!Place, Catalog!WalkIsComplete
<1>3. QED
  BY <1>1, <1>2, WalkPageKeeps, CaseKeeps DEF Catalog!CaseListNext
-----------------------------------------------------------------------------
(* CatalogScan: the feed.                                                  *)

Poller == [allowed : SUBSET Catalog!Actions, cursor : Nat, read : Seq(SUBSET Nat)]

FeedInv ==
  /\ events \in Seq(Catalog!Actions) /\ poll \in Poller /\ poll.cursor <= Len(events)
  /\ Catalog!FeedIsExact

Rowids == Nat
Less == {p \in Rowids \X Rowids : p[1] < p[2]}

LEMMA HasLast ==
  ASSUME NEW S \in SUBSET Rowids, IsFiniteSet(S), S # {}
  PROVE  \E k \in S : \A j \in S : j <= k
<1>1. \A a, b \in Rowids : (<<a, b>> \in Less <=> a < b) /\ (a = b \/ a < b \/ b < a)
  BY DEF Less, Rowids
<1>2. \A a, b, c \in Rowids : ~(a < a) /\ (a < b /\ b < c => a < c) /\ (a = b \/ a < b => a <= b)
  BY DEF Rowids
<1>3. /\ \A a \in S : <<a, a>> \notin Less
      /\ \A a, b, c \in S : <<a, b>> \in Less /\ <<b, c>> \in Less => <<a, c>> \in Less
      /\ \A a, b \in S : a = b \/ <<a, b>> \in Less \/ <<b, a>> \in Less
  BY <1>1, <1>2
<1>4. \E k \in S : \A j \in S : j = k \/ <<j, k>> \in Less
  BY <1>3, HasGreatest
<1>5. QED
  BY <1>1, <1>2, <1>4

\* Of a finite set of rowids a page takes the first, and what follows the page's
\* last rowid is what it left out.
LEMMA FirstRowidsArePrefix ==
  ASSUME NEW S \in SUBSET Nat, IsFiniteSet(S), NEW n \in Nat, NEW cursor,
         Catalog!FirstRowids(S, n) # {}
  PROVE  LET page == Catalog!FirstRowids(S, n)
             final == Catalog!LastRowid(page, cursor)
         IN  page \subseteq S /\ final \in page /\ \A r \in S : r \in page <=> r <= final
<1> DEFINE page == Catalog!FirstRowids(S, n)
           final == Catalog!LastRowid(page, cursor)
<1>1. page = {r \in S : Cardinality(Smaller(S, r)) < n}
  BY Zenon DEF Catalog!FirstRowids, Smaller, Catalog!Cardinality, Cardinality
<1>2. page \in SUBSET S /\ page # {}
  BY <1>1
<1>3. IsFiniteSet(page)
  BY <1>2, FS_Subset
<1>4. \E k \in page : \A j \in page : j <= k
  <2> HIDE DEF page
  <2> QED  BY <1>2, <1>3, HasLast DEF Rowids
<1>5. final \in page /\ \A j \in page : j <= final
  <2> HIDE DEF page
  <2> QED  BY <1>2, <1>4 DEF Catalog!LastRowid
<1>6. ASSUME NEW r \in S, r <= final PROVE r \in page
  <2>1. Cardinality(Smaller(S, final)) < n /\ final \in S
    BY <1>1, <1>5
  <2>2. Smaller(S, r) \in SUBSET Smaller(S, final) /\ Smaller(S, final) \in SUBSET S /\ Smaller(S, r) \in SUBSET S
    <3> HIDE DEF page, final
    <3>1. \A d \in Smaller(S, r) : d \in S /\ d \in Nat /\ d < r
      BY DEF Smaller
    <3>2. r \in Nat /\ final \in Nat
      BY <2>1
    <3>3. \A d \in Smaller(S, r) : d \in Smaller(S, final)
      BY <1>6, <3>1, <3>2 DEF Smaller
    <3>4. Smaller(S, final) \in SUBSET S
      BY DEF Smaller
    <3> QED  BY <3>1, <3>3, <3>4
  <2> HIDE DEF final
  <2>3. IsFiniteSet(Smaller(S, final)) /\ IsFiniteSet(Smaller(S, r))
        /\ Cardinality(Smaller(S, r)) <= Cardinality(Smaller(S, final))
    BY <2>2, FS_Subset
  <2>4. Cardinality(Smaller(S, r)) < n
    BY <2>1, <2>3, FS_CardinalityType
  <2> QED  BY <1>1, <2>4
<1>7. QED
  <2> HIDE DEF page, final
  <2>1. page \subseteq S /\ final \in page /\ \A r \in S : r \in page <=> r <= final
    BY <1>2, <1>5, <1>6
  <2> QED  BY <2>1 DEF page, final

LEMMA EventKeeps ==
  ASSUME FeedInv, NEW a \in Catalog!Actions, Catalog!AppendEvent(a)
  PROVE  FeedInv'
<1>1. /\ events \in Seq(Catalog!Actions) /\ poll \in Poller /\ poll.cursor <= Len(events)
      /\ Catalog!FeedIsExact /\ events' = Append(events, a) /\ poll' = poll
  BY DEF FeedInv, Catalog!AppendEvent
<1>2. /\ events' \in Seq(Catalog!Actions) /\ Len(events) \in Nat /\ Len(events') = Len(events) + 1
      /\ DOMAIN events = 1..Len(events) /\ DOMAIN events' = 1..(Len(events) + 1)
      /\ \A i \in 1..Len(events) : events'[i] = events[i]
  BY <1>1
<1>3. poll.cursor \in Nat
  BY <1>1 DEF Poller
<1>4. {r \in DOMAIN events' : r <= poll.cursor /\ events'[r] \in poll.allowed}
        = {r \in DOMAIN events : r <= poll.cursor /\ events[r] \in poll.allowed}
  BY <1>1, <1>2, <1>3
<1>5. Catalog!FeedIsExact'
  BY <1>1, <1>4, SameAllOf DEF Catalog!FeedIsExact
<1>6. QED
  BY <1>1, <1>2, <1>3, <1>5 DEF FeedInv

LEMMA PollKeeps ==
  ASSUME FeedInv, NEW limit \in Nat, Catalog!Poll(limit)
  PROVE  FeedInv'
<1> DEFINE rows == Catalog!MatchingAfter(poll.allowed, poll.cursor)
           page == Catalog!FirstRowids(rows, Catalog!PageLimit(limit))
           final == Catalog!LastRowid(page, poll.cursor)
<1>1. /\ events \in Seq(Catalog!Actions) /\ poll \in Poller /\ poll.cursor <= Len(events)
      /\ Catalog!FeedIsExact /\ events' = events
  BY DEF FeedInv, Catalog!Poll
<1>2. poll' = [poll EXCEPT !.read = IF page = {} THEN poll.read ELSE Append(poll.read, page), !.cursor = final]
  BY <1>1 DEF Catalog!Poll, Poller
<1>3. DOMAIN events = 1..Len(events) /\ Len(events) \in Nat /\ poll.cursor \in Nat
      /\ poll.read \in Seq(SUBSET Nat)
  BY <1>1 DEF Poller
<1>4. rows \in SUBSET Nat /\ IsFiniteSet(rows)
      /\ \A r : r \in rows <=> r \in 1..Len(events) /\ r > poll.cursor /\ events[r] \in poll.allowed
  <2>1. rows \in SUBSET (1..Len(events))
        /\ \A r : r \in rows <=> r \in 1..Len(events) /\ r > poll.cursor /\ events[r] \in poll.allowed
    BY <1>3 DEF Catalog!MatchingAfter
  <2>2. IsFiniteSet(1..Len(events))
    BY <1>3, FS_Interval
  <2> HIDE DEF rows
  <2> QED  BY <1>3, <2>1, <2>2, FS_Subset
<1>5. page # {} => page \subseteq rows /\ final \in page /\ \A r \in rows : r \in page <=> r <= final
  <2>1. Catalog!PageLimit(limit) \in Nat
    BY ApiAssumption DEF Catalog!PageLimit, Catalog!ScanBounds
  <2> HIDE DEF rows
  <2> QED  BY <1>4, <2>1, FirstRowidsArePrefix
<1>6. page = {} => final = poll.cursor
  BY DEF Catalog!LastRowid
<1> HIDE DEF rows, page, final
<1>7. CASE page = {}
  <2>1. poll' = poll
    BY <1>1, <1>2, <1>6, <1>7 DEF Poller
  <2> QED  BY <1>1, <2>1 DEF FeedInv, Catalog!FeedIsExact
<1>8. CASE page # {}
  <2>1. /\ final \in Nat /\ final <= Len(events) /\ final > poll.cursor
        /\ page \in SUBSET Nat /\ \A r \in page : r > poll.cursor
    BY <1>3, <1>4, <1>5, <1>8
  <2>2. PICK more : more = Append(poll.read, page)
    OBVIOUS
  <2>3. more \in Seq(SUBSET Nat) /\ AllOf(more) = AllOf(poll.read) \cup page
    <3>1. PICK T : T = Nat
      OBVIOUS
    <3>2. poll.read \in Seq(SUBSET T) /\ page \in SUBSET T
      BY <1>3, <2>1, <3>1
    <3>3. more \in Seq(SUBSET T) /\ AllOf(more) = AllOf(poll.read) \cup page
      BY ZenonT(30), <2>2, <3>2, OnePageMore
    <3> QED  BY <3>1, <3>3
  <2>4. poll' = [[poll EXCEPT !.read = more] EXCEPT !.cursor = final]
    BY <1>2, <1>8, <2>2
  <2>5. poll' \in Poller /\ poll'.read = more /\ poll'.cursor = final /\ poll'.allowed = poll.allowed
    BY <1>1, <2>1, <2>3, <2>4 DEF Poller
  <2>6. AllOf(poll.read) = {r \in DOMAIN events : r <= poll.cursor /\ events[r] \in poll.allowed}
    BY <1>1, SameAllOf DEF Catalog!FeedIsExact
  <2>7. AllOf(more) = {r \in DOMAIN events : r <= final /\ events[r] \in poll.allowed}
    <3>1. ASSUME NEW r, r \in AllOf(poll.read) \cup page PROVE r \in DOMAIN events /\ r <= final /\ events[r] \in poll.allowed
      <4>1. CASE r \in AllOf(poll.read)
        <5>1. r \in DOMAIN events /\ r <= poll.cursor /\ events[r] \in poll.allowed
          BY <2>6, <4>1
        <5> QED  BY <1>3, <2>1, <5>1
      <4>2. CASE r \in page
        BY <1>3, <1>4, <1>5, <1>8, <4>2
      <4> QED  BY <3>1, <4>1, <4>2
    <3>2. ASSUME NEW r \in DOMAIN events, r <= final, events[r] \in poll.allowed PROVE r \in AllOf(poll.read) \cup page
      <4>1. CASE r <= poll.cursor
        BY <2>6, <3>2, <4>1
      <4>2. CASE ~(r <= poll.cursor)
        <5>1. r \in rows
          BY <1>3, <1>4, <3>2, <4>2
        <5> QED  BY <1>5, <1>8, <3>2, <5>1
      <4> QED  BY <4>1, <4>2
    <3> QED  BY <2>3, <3>1, <3>2
  <2>8. \A r \in AllOf(poll.read), q \in page : r < q
    BY <1>3, <2>1, <2>6
  <2>9. \A i, j \in DOMAIN more : i < j => \A r \in more[i], q \in more[j] : r < q
    <3> DEFINE n == Len(poll.read)
    <3>1. /\ n \in Nat /\ DOMAIN poll.read = 1..n /\ DOMAIN more = 1..(n + 1) /\ more[n + 1] = page
          /\ \A i \in 1..n : more[i] = poll.read[i]
      BY <1>3, <2>1, <2>2
    <3> HIDE DEF n
    <3>2. \A i \in 1..n : poll.read[i] \in SUBSET AllOf(poll.read)
      BY <3>1 DEF AllOf
    <3>3. \A i, j \in 1..n : i < j => \A r \in poll.read[i], q \in poll.read[j] : r < q
      BY <1>1, <3>1 DEF Catalog!FeedIsExact
    <3>4. ASSUME NEW i \in 1..(n + 1), NEW j \in 1..(n + 1), i < j, NEW r \in more[i], NEW q \in more[j]
          PROVE  r < q
      <4>1. i \in 1..n /\ (j \in 1..n \/ j = n + 1)
        BY <3>1, <3>4
      <4>2. CASE j \in 1..n
        BY <3>1, <3>3, <3>4, <4>1, <4>2
      <4>3. CASE j = n + 1
        BY <2>8, <3>1, <3>2, <3>4, <4>1, <4>3
      <4> QED  BY <4>1, <4>2, <4>3
    <3> QED  BY <3>1, <3>4
  <2>10. Catalog!FeedIsExact'
    BY <1>1, <2>5, <2>7, <2>9, SameAllOf DEF Catalog!FeedIsExact
  <2> QED  BY <1>1, <2>1, <2>5, <2>10 DEF FeedInv
<1>9. QED
  BY <1>7, <1>8

LEMMA FeedStep ==
  ASSUME FeedInv, Catalog!FeedNext \/ UNCHANGED <<events, poll>>
  PROVE  FeedInv'
<1>1. CASE UNCHANGED <<events, poll>>
  BY <1>1 DEF FeedInv, Catalog!FeedIsExact
<1>2. QED
  <2>1. \A limit \in 0..(MaxLimit + 1) : limit \in Nat
    BY ApiAssumption DEF Catalog!ScanBounds
  <2> QED  BY <1>1, <2>1, EventKeeps, PollKeeps DEF Catalog!FeedNext

-----------------------------------------------------------------------------
(* CatalogScan: the three walks together.                                  *)

ListsInv == ScanInv /\ WalkInv /\ FeedInv

LEMMA ListsStart == Catalog!ScanInit => ListsInv
<1> SUFFICES ASSUME Catalog!ScanInit PROVE ListsInv
  OBVIOUS
<1>1. DOMAIN <<>> = {} /\ \A T : <<>> \in Seq(T)
  OBVIOUS
<1>2. ScanInv
  <2>1. /\ catalogClock = 0 /\ dumps = [k \in {} |-> "receiving"]
        /\ scan = [state |-> "idle", filter |-> "all", after |-> Catalog!NoCursor, listed |-> <<>>,
                   steady |-> {}, arrived |-> {}]
    BY DEF Catalog!ScanInit
  <2>2. DOMAIN dumps = {} /\ IsFiniteSet(DOMAIN dumps)
    BY <2>1, FS_EmptySet
  <2>3. scan \in Scan
    BY <1>1, <2>1 DEF Scan, Catalog!Filters
  <2>4. scan.state = "idle" /\ scan.listed = <<>> /\ scan.steady = {}
    BY <2>1
  <2> QED  BY <1>1, <2>1, <2>2, <2>3, <2>4, AllOfNothing DEF ScanInv, ScanSound, Catalog!ScanIsExact
<1>3. WalkInv
  <2>1. cases = <<>> /\ walk = [state |-> "idle", start |-> 0, listed |-> {}, present |-> {}]
    BY DEF Catalog!ScanInit
  <2>2. Catalog!Existing = {}
    BY <1>1, <2>1 DEF Catalog!Existing
  <2> QED  BY <1>1, <2>1, <2>2, FS_EmptySet DEF WalkInv, CaseWalk, Catalog!WalkIsComplete
<1>4. FeedInv
  <2>1. PICK a \in SUBSET Catalog!Actions : poll = [allowed |-> a, cursor |-> 0, read |-> <<>>]
    BY DEF Catalog!ScanInit
  <2>2. events = <<>> /\ Len(events) = 0
    BY DEF Catalog!ScanInit
  <2>3. poll \in Poller
    BY <1>1, <2>1 DEF Poller
  <2>4. Catalog!FeedIsExact
    BY <1>1, <2>1, <2>2, AllOfNothing, SameAllOf DEF Catalog!FeedIsExact
  <2> QED  BY <1>1, <2>1, <2>2, <2>3, <2>4 DEF FeedInv
<1>5. QED
  BY <1>2, <1>3, <1>4 DEF ListsInv

\* Each of the three collections has its own steps, which leave the other two alone.
LEMMA ListsStep ==
  ASSUME ListsInv, [Catalog!ScanNext]_(Catalog!catalogVars)
  PROVE  ListsInv'
<1>1. Catalog!CatalogNext \/ UNCHANGED <<catalogClock, dumps, scan>>
  BY DEF Catalog!ScanNext, Catalog!catalogVars, Catalog!CaseListNext, Catalog!FeedNext,
    Catalog!StartWalk, Catalog!WalkPage, Catalog!CreateCase, Catalog!AppendEvent, Catalog!Poll
<1>2. Catalog!CaseListNext \/ UNCHANGED <<cases, walk>>
  BY DEF Catalog!ScanNext, Catalog!catalogVars, Catalog!CatalogNext, Catalog!FeedNext, Catalog!Tick,
    Catalog!BeginUpload, Catalog!ChangePhase, Catalog!StartScan, Catalog!ScanPage, Catalog!AppendEvent, Catalog!Poll
<1>3. Catalog!FeedNext \/ UNCHANGED <<events, poll>>
  BY DEF Catalog!ScanNext, Catalog!catalogVars, Catalog!CatalogNext, Catalog!CaseListNext, Catalog!Tick,
    Catalog!BeginUpload, Catalog!ChangePhase, Catalog!StartScan, Catalog!ScanPage,
    Catalog!StartWalk, Catalog!WalkPage, Catalog!CreateCase
<1>4. QED
  BY <1>1, <1>2, <1>3, CatalogStep, CaseListStep, FeedStep DEF ListsInv

\* The three walks keep, all along, what makes them exact at their end.
THEOREM ListsInvariant == Catalog!ScanSpec => []ListsInv
<1>1. ListsInv /\ [Catalog!ScanNext]_(Catalog!catalogVars) => ListsInv'
  BY ListsStep
<1>2. QED
  BY <1>1, ListsStart, PTL DEF Catalog!ScanSpec

\* However many rows arrive or change between two pages, and whatever the size of
\* a page: a walk of the catalog lists in order, none twice, all that was there
\* and matched throughout; a walk of the cases lists all that were there; and the
\* poller has read, once and in order, what its filter allows up to its cursor.
THEOREM ListsAreExactAlways == Catalog!ScanSpec => []ListsAreExact
<1>1. ListsInv => ListsAreExact
  BY DEF ListsInv, ScanInv, WalkInv, FeedInv, ListsAreExact, Catalog!WalksAreExact
<1>2. QED
  BY <1>1, ListsInvariant, PTL
=============================================================================
