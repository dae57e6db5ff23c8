---------------------------- MODULE OperatorShell ----------------------------
(***************************************************************************)
(* The operator shell of one browser tab: SessionProvider, OperatorGuard,  *)
(* the login page and the sign-out button, over the HTTP client.           *)
(*                                                                         *)
(* The session cookie belongs to the browser and is sent with a request;   *)
(* the CSRF token belongs to the tab.  Nothing cancels a session request,  *)
(* so answers come back in any order.  Another tab of the browser may sign *)
(* in or out, and the server may drop a session.                           *)
(***************************************************************************)
EXTENDS Integers, Sequences, SequencesExt

CONSTANTS
  Sessions,   \* sessions the server can make: numbers
  MaxActs     \* bound on what the operator does

\* What the constants are taken to be.
ShellBounds == Sessions \subseteq Nat \ {0} /\ MaxActs \in Nat

VARIABLES
  live,          \* server: the sessions it honours
  made,          \* server: the sessions it has made
  cookie,        \* browser: the session its cookie names, 0 for none
  acts,          \* what the operator has done so far
  route,         \* tab: "operator" or "login"
  session,       \* tab: SessionState
  restoreError,  \* tab: the guard shows its error and the retry button
  pending,       \* tab: sign-in or sign-out under way
  requests,      \* requests under way, oldest first
  crossed        \* "tab": another tab signed in; "overtook": the answer of a sign-in came while another session request was out

shellVars == <<live, made, cookie, acts, route, session, restoreError, pending, requests, crossed>>

Checking == [status |-> "checking", token |-> 0]
Anonymous == [status |-> "anonymous", token |-> 0]
Authenticated(token) == [status |-> "authenticated", token |-> token]

-----------------------------------------------------------------------------
(* Routes: the guard and the login page redirect.                          *)

Redirected(state, r) ==
  CASE state.status = "anonymous"     -> "login"
    [] state.status = "authenticated" -> "operator"
    [] OTHER                          -> r

\* setSession, the token's ref, and the render that follows.
SetSession(state) == session' = state /\ route' = Redirected(state, route)

Request(kind) == [kind |-> kind, cookie |-> cookie, token |-> session.token, answer |-> "none", new |-> 0, cancelled |-> FALSE]
Send(kind) == Append(requests, Request(kind))

\* The guard, the login form or the header is unmounted: what it waits for is
\* not reported any more.
Cancelled == [i \in DOMAIN requests |-> [requests[i] EXCEPT !.cancelled = TRUE]]

Act == acts < MaxActs /\ acts' = acts + 1 /\ UNCHANGED <<live, made, cookie>>

\* The guard's effect, on its mount and again for a new attempt.
Attempt == requests' = Append(Cancelled, Request("bootstrap"))

\* The browser's history, or a link; a guard that mounts while the session is
\* being checked asks for it.
Enter(r) ==
  /\ Act /\ r # route
  /\ route' = Redirected(session, r)
  /\ IF r = "operator" /\ session.status = "checking" THEN Attempt
     ELSE requests' = Cancelled
  /\ restoreError' = FALSE /\ pending' = "none"
  /\ UNCHANGED <<session, crossed>>

RetryRestore ==
  /\ Act /\ route = "operator" /\ session.status = "checking" /\ restoreError
  /\ restoreError' = FALSE /\ Attempt
  /\ UNCHANGED <<route, session, pending, crossed>>

HandleSubmit ==
  /\ Act /\ route = "login" /\ pending = "none"
  /\ pending' = "signIn" /\ requests' = Send("signIn")
  /\ UNCHANGED <<route, session, restoreError, crossed>>

HandleSignOut ==
  /\ Act /\ session.status = "authenticated" /\ pending = "none"
  /\ pending' = "signOut" /\ requests' = Send("signOut")
  /\ UNCHANGED <<route, session, restoreError, crossed>>

\* A page's query or mutation.
UsePage(kind) ==
  /\ Act /\ session.status = "authenticated" /\ requests' = Send(kind)
  /\ UNCHANGED <<route, session, restoreError, pending, crossed>>

-----------------------------------------------------------------------------
(* The server, as the session routes and the guards answer.                *)

\* A bootstrap without a session is answered 200 with authenticated FALSE, which
\* the tab takes as it takes a 401.
Guarded(request) ==
  CASE request.cookie \notin live                                          -> "401"
    [] request.kind \in {"signOut", "mutation"} /\ request.token # request.cookie -> "403"
    [] OTHER                                                               -> "ok"

Answer(i) ==
  LET request == requests[i] IN
  /\ request.answer = "none"
  /\ \/ /\ request.kind # "signIn"
        /\ requests' = [requests EXCEPT ![i].answer = Guarded(request), ![i].new = request.cookie]
        /\ IF request.kind = "signOut" /\ Guarded(request) = "ok"
           THEN live' = live \ {request.cookie} /\ cookie' = 0
           ELSE UNCHANGED <<live, cookie>>
        /\ UNCHANGED made
     \/ /\ request.kind = "signIn"
        /\ \E s \in Sessions \ made :
             /\ \A t \in made : t < s
             /\ made' = made \cup {s} /\ live' = live \cup {s} /\ cookie' = s
             /\ requests' = [requests EXCEPT ![i].answer = "ok", ![i].new = s]
     \/ /\ request.kind = "signIn" /\ requests' = [requests EXCEPT ![i].answer = "401"]   \* wrong password
        /\ UNCHANGED <<live, made, cookie>>
     \/ /\ requests' = [requests EXCEPT ![i].answer = "failed"]         \* no connection, 429, 5xx
        /\ UNCHANGED <<live, made, cookie>>
  /\ UNCHANGED <<acts, route, session, restoreError, pending, crossed>>

\* Expiry, a restart, another tab.
Elsewhere ==
  /\ \/ \E s \in live : live' = live \ {s} /\ UNCHANGED <<made, cookie, crossed>>
     \/ \E s \in Sessions \ made :
          /\ \A t \in made : t < s
          /\ made' = made \cup {s} /\ live' = live \cup {s} /\ cookie' = s /\ crossed' = crossed \cup {"tab"}
  /\ UNCHANGED <<acts, route, session, restoreError, pending, requests>>

-----------------------------------------------------------------------------
(* The answers.                                                            *)

\* What bootstrap, signIn, signOut and handleUnauthenticated make of an answer.
Told(request) ==
  CASE request.answer = "401"                                             -> Anonymous
    [] request.answer = "ok" /\ request.kind \in {"bootstrap", "signIn"}  -> Authenticated(request.new)
    [] request.answer = "ok" /\ request.kind = "signOut"                  -> Anonymous
    [] OTHER                                                              -> session

\* The answer of a sign-in is here, and another session request is still out:
\* what that one says of the session may be about the cookie before the sign-in.
Overtakes(i) ==
  /\ requests[i].kind = "signIn" /\ requests[i].answer = "ok"
  /\ \E j \in DOMAIN requests \ {i} : requests[j].kind \in {"bootstrap", "signIn", "signOut"}

\* Seeded fault: the login form is freed only by a success.
FinallyOnSuccess(request) ==
  IF request.kind \in {"signIn", "signOut"} /\ ~request.cancelled /\ request.answer = "ok" THEN "none" ELSE pending

\* The finally of handleSubmit and handleSignOut.
Finally(request) == IF request.kind \in {"signIn", "signOut"} /\ ~request.cancelled THEN "none" ELSE pending

Deliver(i) ==
  LET request == requests[i] IN
  /\ request.answer # "none"
  /\ IF Told(request) = session THEN UNCHANGED <<session, route>> ELSE SetSession(Told(request))
  /\ requests' = RemoveAt(IF route' = route THEN requests ELSE Cancelled, i)
  /\ pending' = IF route' = route THEN Finally(request) ELSE "none"
  /\ restoreError' = (restoreError \/ (request.kind = "bootstrap" /\ request.answer = "failed" /\ ~request.cancelled))
  /\ crossed' = IF Overtakes(i) THEN crossed \cup {"overtook"} ELSE crossed
  /\ UNCHANGED <<live, made, cookie, acts>>

-----------------------------------------------------------------------------
\* The page is opened with the cookie of an earlier visit, or with none; an
\* operator route asks for the session.
ShellInit ==
  /\ \E old \in {{}, {1}} : made = old /\ live = old /\ cookie = IF old = {} THEN 0 ELSE 1
  /\ acts = 0 /\ session = Checking /\ restoreError = FALSE /\ pending = "none" /\ crossed = {}
  /\ \/ route = "login" /\ requests = <<>>
     \/ route = "operator" /\ requests = <<Request("bootstrap")>>

AnswerSome == \E i \in DOMAIN requests : Answer(i)
DeliverSome == \E i \in DOMAIN requests : Deliver(i)

ShellNext ==
  \/ (\E r \in {"operator", "login"} : Enter(r)) \/ RetryRestore \/ HandleSubmit \/ HandleSignOut
  \/ UsePage("query") \/ UsePage("mutation") \/ AnswerSome \/ DeliverSome \/ Elsewhere

ShellSpec ==
  /\ ShellInit /\ [][ShellNext]_shellVars
  /\ WF_shellVars(AnswerSome) /\ WF_shellVars(DeliverSome)

-----------------------------------------------------------------------------
(* Properties.                                                             *)

\* At rest the token the tab sends is the one of the browser's session, or
\* that session is dead: the next mutation is accepted or answered 401, never
\* 403.  This is whatever session requests were out at once and in whatever
\* order they were answered and their answers came, with two exceptions, where
\* the code does hold an old token: another tab signed in, or the answer of a
\* sign-in came before that of another session request that was out.
TokenCurrent ==
  (requests = <<>> /\ crossed = {} /\ session.status = "authenticated")
    => session.token = cookie \/ cookie \notin live

\* A guard that is checking the session waits for an answer or offers to ask
\* again, however often it was left, entered and retried.
CheckingHasAWay ==
  (route = "operator" /\ session.status = "checking")
    => restoreError \/ \E i \in DOMAIN requests : requests[i].kind = "bootstrap"

\* Signing in or out comes to an end.
PendingEnds == pending # "none" ~> pending = "none"

\* "When the session is absent the guard redirects to /login": it sends nobody
\* away from a session that the tab holds, the browser's cookie names and the
\* server honours.
RedirectsWhenAbsent ==
  [][(session = Authenticated(cookie) /\ cookie \in live) => route' # "login"]_shellVars

\* The shell's token is current and its guard never gets stuck.
SessionIsCurrent == TokenCurrent /\ CheckingHasAWay
=============================================================================
