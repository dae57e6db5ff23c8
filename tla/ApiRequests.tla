---------------------------- MODULE ApiRequests ----------------------------
(***************************************************************************)
(* The mutations of the HTTP API: what a route answers and what it has     *)
(* done to the ledger by then.                                             *)
(*                                                                         *)
(* A handler runs to its end without another one in between.  It checks    *)
(* the caller, decodes the body, parses the identifier, reads the clock    *)
(* or the rows a check needs, runs one engine command or one statement of  *)
(* the webhook storage, and reads the row back; a fault may strike the     *)
(* clock, either read or the command.  An answer may be lost and the       *)
(* request sent again.  The purge of a dump runs on its own.               *)
(***************************************************************************)
EXTENDS Integers, Sequences, FiniteSets

CONSTANTS
  Identities,    \* (analyzer, version, kind, sha256) of reports on one dump
  MaxAnalyses,   \* MAX_ANALYSES_PER_DUMP
  MaxRows        \* bound on the rows added per table

Transitions == {"StartInvestigation", "WaitForCustomer", "ResumeInvestigation", "ResolveCase", "CloseCase"}
Statuses == {"new", "investigating", "waiting-for-customer", "resolved", "closed"}
OnCase == Transitions \cup {"IssueGrant"}
OnDump == {"SetRetention", "RecordAnalysis", "RecordRichAnalysis"}
Routes == OnCase \cup OnDump \cup {"CreateCustomer", "CreateCase", "RevokeGrant", "CreateWebhook", "DeleteWebhook"}

(* A rich report carries the compact one; "other" has the same identity    *)
(* and another content, "foreign" names a digest that is not the dump's.   *)
Reports == {"RecordAnalysis", "RecordRichAnalysis"}
\* What a route does not look at has one value.
Request(routes, evidence, bodies, ids, identities, contents) ==
  [route : routes, evidence : evidence, body : bodies, id : ids, identity : identities, content : contents]
Bodies == {"ok", "malformed"}
Ids == {"known", "unknown", "malformed"}
Some == {CHOOSE i \in Identities : TRUE}
Requests ==
  Request(Routes, {"noCsrf", "none"}, {"ok"}, {"known"}, Some, {"first"})
  \cup Request(Routes \ Reports, {"full"}, Bodies, Ids, Some, {"first"})
  \cup Request(Reports, {"full"}, Bodies, Ids, Identities, {"first", "other", "foreign"})
Faults == {"none", "clock", "lookup", "command", "readback"}

\* What the constants are taken to be.
ApiBounds == MaxAnalyses \in Nat \ {0} /\ MaxRows \in Nat

VARIABLES
  rows,   \* the ledger: one case, its latest grant, one dump, and counts
  last    \* the answer to the request in hand and the fault it met

apiVars == <<rows, last>>

NoRequest == [code |-> "none", fault |-> "none"]

-----------------------------------------------------------------------------
(* The ledger's side.                                                      *)

Expected(action) ==
  CASE action = "StartInvestigation"  -> {"new"}
    [] action = "WaitForCustomer"     -> {"investigating"}
    [] action = "ResumeInvestigation" -> {"waiting-for-customer", "resolved", "closed"}
    [] action = "ResolveCase"         -> {"investigating", "waiting-for-customer"}
    [] action = "CloseCase"           -> {"resolved"}

Target(action) ==
  CASE action = "WaitForCustomer" -> "waiting-for-customer"
    [] action = "ResolveCase"     -> "resolved"
    [] action = "CloseCase"       -> "closed"
    [] OTHER                      -> "investigating"

Stored == {i \in Identities : rows.analyses[i] # "none"}

\* recordAnalysis of the application: the cap is for new identities, and the
\* digest is part of the identity.
AtCap(r) ==
  /\ Cardinality(Stored) >= MaxAnalyses
  /\ r.identity \notin Stored \/ r.content = "foreign"

\* What the table holds for the identity afterwards: a stored report stays,
\* except that a compact one is completed by the rich report it announced.
ReportAfter(r) ==
  LET held == rows.analyses[r.identity]
  IN  IF r.route = "RecordAnalysis" THEN (IF held = "none" THEN "compact" ELSE held)
      ELSE IF held = "compact" THEN "first" ELSE IF held = "none" THEN r.content ELSE held

Conflicts(r) ==
  /\ r.route = "RecordRichAnalysis"
  /\ rows.analyses[r.identity] \notin {"none", r.content}
  /\ ~(rows.analyses[r.identity] = "compact" /\ r.content = "first")

\* A dump nobody has has no reports, so the cap does not speak for it.
RecordCode(r) ==
  CASE r.id = "unknown"                      -> "not_found"
    [] AtCap(r) \/ rows.phase # "available"  -> "invalid_transition"
    [] r.content = "foreign"                 -> "invalid_input"
    [] Conflicts(r)                          -> "invalid_transition"
    [] OTHER                                 -> "ok"

\* The engine's code, or the webhook storage's.  Both CreateCase and
\* CreateWebhook of a well-formed id that nothing has fail on the foreign key;
\* only the webhook storage knows that failure for what it is.
Execute(r) ==
  CASE r.route = "CreateCustomer" -> "ok"
    [] r.route = "CreateCase"     -> IF r.id = "known" THEN "ok" ELSE "storage_unavailable"
    [] r.route = "CreateWebhook"  -> IF r.id = "known" THEN "ok" ELSE "invalid_input"
    [] r.route = "DeleteWebhook"  -> IF r.id = "known" /\ rows.webhooks > 0 THEN "ok" ELSE "not_found"
    [] r.route \in Reports -> RecordCode(r)
    [] r.id = "unknown" \/ (r.route = "RevokeGrant" /\ rows.grants = 0) -> "not_found"
    [] r.route \in Transitions    -> IF rows.status \in Expected(r.route) THEN "ok" ELSE "invalid_transition"
    [] r.route = "IssueGrant"     -> IF rows.status # "closed" THEN "ok" ELSE "invalid_transition"
    [] r.route = "RevokeGrant"    -> IF rows.grant = "issued" THEN "ok" ELSE "invalid_transition"
    [] r.route = "SetRetention"   -> IF rows.phase \in {"available", "rejected"} THEN "ok" ELSE "invalid_transition"

Committed(r) ==
  CASE r.route \in {"CreateCustomer", "CreateCase"} -> [rows EXCEPT !.created = @ + 1]
    [] r.route = "CreateWebhook"  -> [rows EXCEPT !.webhooks = @ + 1]
    [] r.route = "DeleteWebhook"  -> [rows EXCEPT !.webhooks = @ - 1]
    [] r.route \in Reports ->
         [rows EXCEPT !.analyses[r.identity] = ReportAfter(r)]
    [] r.route \in Transitions    ->
         [rows EXCEPT !.status = Target(r.route),
                      !.grant = IF r.route = "CloseCase" /\ @ = "issued" THEN "revoked" ELSE @]
    [] r.route = "IssueGrant"     -> [rows EXCEPT !.grant = "issued", !.grants = @ + 1]
    [] r.route = "RevokeGrant"    -> [rows EXCEPT !.grant = "revoked"]
    [] r.route = "SetRetention"   -> [rows EXCEPT !.purgeAt = "set"]

-----------------------------------------------------------------------------
(* The application and the routes.                                         *)

\* An identifier that does not parse never reaches the engine.
MalformedId(r) ==
  CASE r.route = "CreateCase"    -> "customer_not_found"
    [] r.route \in OnCase        -> "case_not_found"
    [] r.route = "RevokeGrant"   -> "grant_invalid"
    [] r.route = "SetRetention"  -> "not_found"
    [] r.route \in OnDump        -> "dump_not_found"
    [] r.route = "DeleteWebhook" -> "not_found"
    [] r.route = "CreateWebhook" -> "invalid_input"

ContractErrorFor(code) ==
  CASE code = "invalid_input" -> "invalid_request"
    [] code \in {"customer_not_found", "case_not_found", "dump_not_found", "not_found"} -> "not_found"
    [] code \in {"grant_invalid", "grant_expired", "grant_consumed", "grant_unavailable"} -> "grant_unavailable"
    [] code \in {"invalid_transition", "upload_too_large", "upload_busy", "rate_limited",
                 "storage_unavailable", "integrity_failure"} -> code
    [] OTHER -> "internal_error"

Retryable == {"rate_limited", "upload_busy", "storage_unavailable"}

HasBody == Routes \ {"RevokeGrant", "DeleteWebhook"}
ReadsClock == {"IssueGrant", "SetRetention"}
Webhooks == {"CreateWebhook", "DeleteWebhook"}
\* What is read before the command (the reports of the dump, the live edge of
\* the feed), and what is read after it.
LooksUp == Reports \cup {"CreateWebhook"}
ReadsBack == {"CreateCase", "IssueGrant", "RevokeGrant", "RecordRichAnalysis", "CreateWebhook"} \cup Transitions

\* The answer of the checks before the command, or "ok".
Checked(r, fault) ==
  CASE r.evidence = "none"                             -> "unauthenticated"
    [] r.evidence = "noCsrf"                           -> "forbidden"
    [] r.route \in HasBody /\ r.body = "malformed"     -> "invalid_request"
    [] fault = "clock" /\ r.route = "IssueGrant"       -> "internal_error"
    [] fault = "clock" /\ r.route = "SetRetention"     -> "storage_unavailable"
    [] r.id = "malformed" /\ r.route # "CreateCustomer" -> ContractErrorFor(MalformedId(r))
    [] OTHER                                           -> "ok"

\* Seeded fault: a read that fails after the commit is reported as storage
\* being away.
ReadFailedRetryable(r) == "storage_unavailable"

\* The read that follows the commit throws: the framework's own error.
ReadFailed(r) == "internal_error"

\* 200 answers a replay, 201 what was created.
Success(r) ==
  IF r.route \in Reports /\ rows.analyses[r.identity] = ReportAfter(r)
  THEN "replayed" ELSE "done"

\* A failed command is a code of the engine; a failed read of the application,
\* or statement of the webhook storage, is an error nobody maps.
Outcome(r, fault) ==
  CASE fault = "lookup" /\ r.route \in LooksUp   -> "internal_error"
    [] fault = "command" /\ r.route \in Webhooks -> "internal_error"
    [] fault = "command"                         -> "storage_unavailable"
    [] OTHER                                     -> Execute(r)

Handle(r, fault) ==
  LET checked == Checked(r, fault)
      code == Outcome(r, fault)
      commits == checked = "ok" /\ code = "ok"
      answer == IF checked # "ok" THEN checked
                ELSE IF code # "ok" THEN ContractErrorFor(code)
                ELSE IF fault = "readback" /\ r.route \in ReadsBack THEN ReadFailed(r)
                ELSE Success(r)
  IN  /\ last = NoRequest
      /\ rows' = IF commits THEN Committed(r) ELSE rows
      /\ \A n \in {"created", "webhooks", "grants"} : rows'[n] <= MaxRows
      /\ last' = [code |-> answer, fault |-> fault]

\* The answer arrives, or is lost; the next request may be the same again.
Answered == last # NoRequest /\ last' = NoRequest /\ UNCHANGED rows

\* allowedActionsFor: the buttons of the case page.
AllowedActionsFor(status) ==
  CASE status = "new"                  -> {"StartInvestigation"}
    [] status = "investigating"        -> {"WaitForCustomer", "ResolveCase"}
    [] status = "waiting-for-customer" -> {"ResumeInvestigation", "ResolveCase"}
    [] status = "resolved"             -> {"ResumeInvestigation", "CloseCase"}
    [] status = "closed"               -> {"ResumeInvestigation"}

\* The retention job: both commands, the second deletes the reports.
Purge ==
  /\ last = NoRequest
  /\ rows.phase = "available" /\ rows.purgeAt = "set"
  /\ rows' = [rows EXCEPT !.phase = "deleted", !.analyses = [i \in Identities |-> "none"]]
  /\ UNCHANGED last

ApiInit ==
  /\ rows = [created |-> 0, webhooks |-> 0, grants |-> 0, status |-> "new", grant |-> "none",
             phase |-> "available", purgeAt |-> "none", analyses |-> [i \in Identities |-> "none"]]
  /\ last = NoRequest

ApiNext == Purge \/ Answered \/ \E r \in Requests, fault \in Faults : Handle(r, fault)

ApiSpec == ApiInit /\ [][ApiNext]_apiVars

-----------------------------------------------------------------------------
(* Properties.                                                             *)

Refusals == Retryable \cup {"unauthenticated", "forbidden", "invalid_request", "not_found",
                            "grant_unavailable", "invalid_transition"}

\* A route that answers with a refusal, or that says the request may be
\* repeated, has changed no row, whichever step the fault struck: only
\* internal errors leave the caller in doubt (the JSON routes).
RefusedKeepsRows == last'.code \in Refusals => rows' = rows

\* A report once stored keeps its content until the dump is purged, however
\* often and in whichever form it is sent again, and an answer that calls it
\* a replay has written nothing (recordAnalysis, recordRichAnalysis).
ReportsKept ==
  /\ \A i \in Identities :
       \/ rows'.analyses[i] = rows.analyses[i]
       \/ rows.analyses[i] = "none"
       \/ rows.analyses[i] = "compact" /\ rows'.analyses[i] = "first"
       \/ rows'.phase = "deleted"
  /\ last'.code = "replayed" => rows' = rows

\* A report that is stored is accepted again while its dump is available,
\* also at the cap: the retry of an answer that was lost is not turned away.
RetryIsAdmitted ==
  \A i \in Stored : rows.phase = "available" =>
    RecordCode([route |-> "RecordAnalysis", id |-> "known", identity |-> i, content |-> "first"]) = "ok"

\* The case page offers exactly the transitions the ledger would accept.
GuidanceIsExact ==
  AllowedActionsFor(rows.status) = {a \in Transitions : Execute([route |-> a, id |-> "known"]) = "ok"}

\* "retryable tells the caller whether repeating the same request may
\* succeed": a retryable answer had a passing fault as its cause.
RetryableIsTransient == last.code \in Retryable => last.fault # "none"

\* What the API tells the caller to do next is possible.
AdviceIsGood == RetryIsAdmitted /\ GuidanceIsExact
=============================================================================
