---------------------------- MODULE WireContracts ----------------------------
(***************************************************************************)
(* The HTTP contracts package between the two sides that use it: what a    *)
(* request decoder lets through the engine must take, and what the engine  *)
(* stores, shaped and encoded by the server, a response decoder must read. *)
(*                                                                         *)
(* A text is its length and the worst character in it.  Identifiers,       *)
(* timestamps and digests are made in the form the decoders ask for and    *)
(* are left out, except where an absent one is told from a present one.    *)
(* A list is its number of items and one of them.                          *)
(***************************************************************************)
EXTENDS Integers, FiniteSetsExt

CONSTANTS
  Lengths,    \* lengths of texts tried
  Counts,     \* lengths of lists tried
  MaxWrites   \* bound on the writes

\* What the constants are taken to be.
WireBounds == Lengths \subseteq Nat /\ Counts \subseteq Nat /\ MaxWrites \in Nat

VARIABLES
  ledger,     \* one row of each table, the one last written
  rows,       \* how many rows each table, or list in a row, has
  imported,   \* some row came from a bundle
  asked,      \* the upload slots the last grant was asked for with
  refused,    \* who refused the last write: "no", "decoder" or "engine"
  writes      \* writes so far

wireVars == <<ledger, rows, imported, asked, refused, writes>>

-----------------------------------------------------------------------------
(* Values.                                                                 *)

Text(n, c) == [t |-> "text", n |-> n, c |-> c]
Num(n) == [t |-> "int", n |-> n]
Bytes(n) == [t |-> "json", n |-> n]
Null == [t |-> "null"]
Row(fields) == [t |-> "row", fields |-> fields]
List(n, item) == [t |-> "list", n |-> n, item |-> item]

Plain == Text(8, "plain")
\* Lengths and characters are checked apart from each other.
Texts == {Text(n, "plain") : n \in Lengths} \cup {Text(8, c) : c \in {"space", "control", "nul"}}

(* Decoders: decode.ts.                                                    *)

text(min, max) == [d |-> "text", min |-> min, max |-> max]
identifierField == [d |-> "identifier", min |-> 1, max |-> 128]
integerField(min, max) == [d |-> "int", min |-> min, max |-> max]
counterField == [d |-> "counter"]
jsonObject(max) == [d |-> "json", max |-> max]
nullableField(of) == [d |-> "nullable", of |-> of]
optional(of) == [d |-> "optional", of |-> of]
arrayOf(of, max) == [d |-> "array", of |-> of, max |-> max]
object(shape) == [d |-> "object", shape |-> shape]

Clean(v) == v.c \notin {"control", "nul"}

RECURSIVE Accepts(_, _)
Accepts(d, v) ==
  \/ d.d = "text" /\ v.t = "text" /\ v.n >= d.min /\ v.n <= d.max /\ Clean(v)
  \/ d.d = "identifier" /\ v.t = "text" /\ v.n >= d.min /\ v.n <= d.max /\ v.c = "plain"
  \/ d.d = "int" /\ v.t = "int" /\ v.n >= d.min /\ v.n <= d.max
  \/ d.d = "counter" /\ v.t = "int" /\ v.n >= 0
  \/ d.d = "json" /\ v.t = "json" /\ v.n <= d.max
  \/ d.d = "nullable" /\ (v.t = "null" \/ Accepts(d.of, v))
  \/ d.d = "optional" /\ Accepts(d.of, v)
  \/ d.d = "array" /\ v.t = "list" /\ v.n <= d.max /\ (v.n = 0 \/ Accepts(d.of, v.item))
  \/ /\ d.d = "object" /\ v.t = "row" /\ DOMAIN v.fields \subseteq DOMAIN d.shape
     /\ \A key \in DOMAIN d.shape : IF key \in DOMAIN v.fields THEN Accepts(d.shape[key], v.fields[key])
                                    ELSE d.shape[key].d = "optional"

\* Keys that are left out of an encoded object.
Without(fields, keys) == [key \in DOMAIN fields \ keys |-> fields[key]]

-----------------------------------------------------------------------------
(* The contracts.                                                          *)

decodeCustomerSummary == object([displayName |-> text(1, 200), customerNo |-> counterField])
decodeCustomerDetailResponse(case) ==
  object([customer |-> decodeCustomerSummary, cases |-> arrayOf(case, 200)])
decodeCreateCustomerRequest == object([displayName |-> text(1, 200)])

decodeCaseSummary == object([title |-> text(1, 300)])
decodeCreateCaseRequest == object([title |-> text(1, 300)])
decodeCaseSearchResponse == object([cases |-> arrayOf(decodeCaseSummary, 200), nextCursor |-> optional(text(1, 256))])
decodeDashboardResponse ==
  object([counts |-> object([customers |-> counterField, activeCases |-> counterField]),
          customers |-> arrayOf(decodeCustomerSummary, 100), recentCases |-> arrayOf(decodeCaseSummary, 20)])

decodeActivityItem == object([action |-> text(1, 64), outcome |-> optional(text(1, 256))])
decodeCaseGrantSummary == object([maxUploads |-> optional(integerField(1, 128)), uploadsUsed |-> optional(integerField(0, 128))])
decodeCaseDumpSummary == object([originalName |-> text(1, 1024)])
decodeMissingSymbolIdentity == object([debugFile |-> text(1, 255), dumpIds |-> arrayOf(identifierField, 4096)])
decodeCaseDetailResponse ==
  object([title |-> text(1, 300), customer |-> decodeCustomerSummary,
          grants |-> arrayOf(decodeCaseGrantSummary, 200), dumps |-> arrayOf(decodeCaseDumpSummary, 200),
          missingSymbols |-> arrayOf(decodeMissingSymbolIdentity, 4096), activity |-> arrayOf(decodeActivityItem, 200)])

decodeCreateGrantRequest == object([maxUploads |-> optional(integerField(1, 128))])

decodeModuleSymbolCoverage ==
  object([name |-> nullableField(text(1, 1024)), debugFile |-> nullableField(text(1, 255)),
          debugId |-> nullableField(text(1, 64)), artifactId |-> nullableField(identifierField)])
decodeDumpDetailResponse ==
  object([case |-> object([title |-> text(1, 300)]), originalName |-> text(1, 1024),
          inspectionError |-> nullableField(text(1, 2000)),
          symbolCoverage |-> arrayOf(decodeModuleSymbolCoverage, 4096), activity |-> arrayOf(decodeActivityItem, 200)])
decodeDumpCatalogEntry ==
  object([originalName |-> text(1, 1024), architecture |-> optional(text(1, 64)),
          symbolCoverage |-> object([present |-> counterField, missing |-> counterField, unidentified |-> counterField])])

symbolIdentityShape ==
  [debugFile |-> optional(nullableField(identifierField)), codeFile |-> optional(nullableField(identifierField))]
decodeSymbolRecord ==
  object([debugFile |-> symbolIdentityShape.debugFile, codeFile |-> symbolIdentityShape.codeFile,
          product |-> optional(text(1, 200))])
\* requireKindIdentity
CarriesIdentity(v) == v.fields.debugFile.t # "null" \/ v.fields.codeFile.t # "null"

analysisFieldsShape ==
  [name |-> text(1, 128), version |-> text(1, 64), kind |-> text(1, 64), summary |-> text(0, 2000),
   facts |-> optional(jsonObject(4096)), duplicateOf |-> optional(nullableField(identifierField))]
decodeRecordAnalysisRequest == object(analysisFieldsShape)
decodeAnalysisReport == object(analysisFieldsShape)

decodeEventFeedEntry == object([action |-> text(1, 64), dumpId |-> nullableField(identifierField), detail |-> jsonObject(4096)])
decodeEventFeedResponse == object([events |-> arrayOf(decodeEventFeedEntry, 4096), nextCursor |-> text(1, 256)])

decodeOperationsResponse ==
  object([errorCount |-> counterField, errors |-> arrayOf(text(1, 500), 50)])
decodeExportSummary == object([error |-> nullableField(text(1, 2000))])

\* A url or an action has no white space in it.
wordField(max) == [d |-> "identifier", min |-> 1, max |-> max]
decodeCreateWebhookParams == object([url |-> wordField(2048), actions |-> optional(arrayOf(wordField(64), 32))])
decodeWebhookSubscription == object([url |-> wordField(2048), actions |-> nullableField(arrayOf(wordField(64), 32))])

CaseActions == {"StartInvestigation", "WaitForCustomer", "ResumeInvestigation", "ResolveCase", "CloseCase"}
decodeTransitionResponse(v) ==
  /\ v.action \in CaseActions /\ \A summary \in v.revokedGrants : summary.count = summary.grantIds
  /\ (v.action = "CloseCase") <=> (v.revokedGrants # {})

-----------------------------------------------------------------------------
(* The engine's own bounds.                                                *)

assertText(v, max) == v.t = "text" /\ v.n \in 1..max /\ v.c # "nul"
assertAnalysisText(v, min, max) == v.t = "text" /\ v.n >= min /\ v.n <= max /\ Clean(v)

AssertTitle(v) == assertText(v, 500)

-----------------------------------------------------------------------------
(* What the server makes of the rows.                                      *)

Sliced(table, max) == Min({rows[table], max})
Cut(v, max) == [v EXCEPT !.n = Min({@, max})]

\* Seeded fault: the detail is passed on as it is stored.
UnboundedEventDetail(detail) == detail

boundedEventDetail(detail) == IF detail.n > 4096 THEN Bytes(2) ELSE detail

activityItemOf(event) ==
  Row(Without([action |-> Cut(event.action, 64), outcome |-> Cut(event.outcome, 256)],
              IF event.outcome.n = 0 THEN {"outcome"} ELSE {}))

factText(v, max) == IF v.n = 0 \/ v.n > max \/ ~Clean(v) THEN Null ELSE v

moduleSymbolFacts(module) == [name |-> factText(module.name, 1024), debugFile |-> factText(module.debugFile, 255)]

CustomerRow == Row([displayName |-> ledger.customer.displayName, customerNo |-> Num(1)])
CaseRow == Row([title |-> ledger.case.title])
Activity == List(Sliced("events", 200), activityItemOf(ledger.event))

customerDetail == Row([customer |-> CustomerRow, cases |-> List(Sliced("cases", 200), CaseRow)])
searchCases == Row(Without([cases |-> List(Sliced("cases", 200), CaseRow), nextCursor |-> Text(36, "plain")],
                           IF rows["cases"] > 200 THEN {} ELSE {"nextCursor"}))
dashboard == Row([counts |-> Row([customers |-> Num(rows["customers"]), activeCases |-> Num(rows["cases"])]),
                  customers |-> List(Sliced("customers", 100), CustomerRow),
                  recentCases |-> List(Sliced("cases", 20), CaseRow)])
caseDetail ==
  Row([title |-> ledger.case.title, customer |-> CustomerRow,
       grants |-> List(Sliced("grants", 200), Row([maxUploads |-> Num(ledger.grant.maxUploads), uploadsUsed |-> Num(0)])),
       dumps |-> List(Sliced("dumps", 200), Row([originalName |-> ledger.dump.originalName])),
       \* The aggregate is not truncated; here one identity at most.
       missingSymbols |-> LET file == moduleSymbolFacts(ledger.module).debugFile IN
                          List(IF file.t = "null" THEN 0 ELSE 1,
                               Row([debugFile |-> file, dumpIds |-> List(1, Text(37, "plain"))])),
       activity |-> Activity])
dumpDetail ==
  Row([case |-> Row([title |-> ledger.case.title]), originalName |-> ledger.dump.originalName,
       inspectionError |-> ledger.dump.inspectionError,
       symbolCoverage |-> LET facts == moduleSymbolFacts(ledger.module) IN
                          List(rows["modules"], Row([name |-> facts.name, debugFile |-> facts.debugFile,
                                                    debugId |-> Text(33, "plain"), artifactId |-> Null])),
       activity |-> Activity])
catalogEntryOf ==
  Row([originalName |-> ledger.dump.originalName, architecture |-> Text(5, "plain"),
       symbolCoverage |-> Row([present |-> Num(0), missing |-> Num(rows["modules"]), unidentified |-> Num(0)])])
symbolRecord ==
  Row(Without([debugFile |-> ledger.symbol.debugFile, codeFile |-> ledger.symbol.codeFile, product |-> Null], {"product"}))
analysisReportOf == Row(Without(ledger.analysis, IF ledger.analysis.facts.t = "null" THEN {"facts"} ELSE {}))
eventFeed ==
  Row([events |-> List(Sliced("events", 500), Row([action |-> ledger.event.action, dumpId |-> Null,
                                                  detail |-> boundedEventDetail(ledger.event.detail)])),
       nextCursor |-> Text(16, "plain")])
operations ==
  Row([errorCount |-> Num(Sliced("errors", 50)),
       errors |-> List(Sliced("errors", 50), Cut(ledger.error, 500))])
exportSummary == Row([error |-> Cut(ledger.error, 2000)])
webhookSubscriptionOf == Row([url |-> ledger.webhook.url, actions |-> ledger.webhook.actions])
\* The receipt of CloseCase, and no other, names the grants it revoked.
transitionCase(action) ==
  IF action = "CloseCase" THEN [action |-> action, revokedGrants |-> {[count |-> rows["grants"], grantIds |-> rows["grants"]]}]
  ELSE [action |-> action, revokedGrants |-> {}]

-----------------------------------------------------------------------------
(* Writes.                                                                 *)

Write == writes < MaxWrites /\ writes' = writes + 1

\* A request is refused by its decoder, else by the engine, else it is stored.
Requested(decoded, engine, stored) ==
  /\ Write /\ UNCHANGED imported
  /\ refused' = IF ~decoded THEN "decoder" ELSE IF ~engine THEN "engine" ELSE "no"
  /\ ledger' = IF decoded /\ engine THEN stored ELSE ledger

CreateCustomer(v) ==
  /\ Requested(Accepts(decodeCreateCustomerRequest, Row([displayName |-> v])), assertText(v, 200),
               [ledger EXCEPT !.customer.displayName = v])
  /\ UNCHANGED <<rows, asked>>

CreateCase(v) ==
  /\ Requested(Accepts(decodeCreateCaseRequest, Row([title |-> v])), AssertTitle(v),
               [ledger EXCEPT !.case.title = v])
  /\ UNCHANGED <<rows, asked>>

encodeCreateGrantRequest(slots) == Row(Without([maxUploads |-> Num(slots)], IF slots = 1 THEN {"maxUploads"} ELSE {}))

IssueGrant(slots) ==
  LET body == encodeCreateGrantRequest(slots)
      got == IF "maxUploads" \in DOMAIN body.fields THEN body.fields.maxUploads.n ELSE 1
  IN  /\ Requested(Accepts(decodeCreateGrantRequest, body), got \in 1..128, [ledger EXCEPT !.grant.maxUploads = got])
      /\ asked' = IF refused' = "no" THEN slots ELSE asked
      /\ UNCHANGED rows

\* decodeFilenameBase64url, then the engine.
BeginUpload(v) ==
  /\ Requested(Accepts(text(1, 1024), v), assertText(v, 1024), [ledger EXCEPT !.dump.originalName = v])
  /\ UNCHANGED <<rows, asked>>

\* A report with every column at its bound, and a short one.
Report(name, version, kind, summary, facts) ==
  [name |-> Text(name, "plain"), version |-> Text(version, "plain"), kind |-> Text(kind, "plain"),
   summary |-> Text(summary, "plain"), facts |-> facts]
ShortReport == Report(8, 8, 8, 8, Null)
LongReport == Report(128, 64, 64, 2000, Bytes(4096))

\* A report with v in one column.
RecordAnalysis(report, column, v) ==
  LET request == [report EXCEPT ![column] = v]
      fields == Without(request, IF request.facts.t = "null" THEN {"facts"} ELSE {})
  IN  /\ Requested(Accepts(decodeRecordAnalysisRequest, Row(fields)),
                   /\ assertAnalysisText(request.name, 1, 128) /\ assertAnalysisText(request.version, 1, 64)
                   /\ assertAnalysisText(request.kind, 1, 64) /\ assertAnalysisText(request.summary, 0, 2000)
                   /\ (request.facts.t = "null" \/ request.facts.n <= 4096),
                   [ledger EXCEPT !.analysis = request])
      /\ UNCHANGED <<rows, asked>>

\* The inspector's facts, as they are stored; its messages fit.
Inspect(column, v) ==
  /\ Write /\ v.c # "nul" /\ ledger' = [ledger EXCEPT !.module[column] = v]
  /\ refused' = "no" /\ UNCHANGED <<rows, asked, imported>>

\* A symbol's name is what its bytes or the upload say, a segment of the store.
IngestSymbol(kind, v) ==
  /\ Write /\ v.n \in 1..255 /\ Clean(v)
  /\ ledger' = [ledger EXCEPT !.symbol = IF kind = "pdb" THEN [debugFile |-> v, codeFile |-> Null]
                                         ELSE [debugFile |-> Null, codeFile |-> v]]
  /\ refused' = "no" /\ UNCHANGED <<rows, asked, imported>>

RegisterWebhook(url, actions) ==
  LET filter == IF actions = 0 THEN Null ELSE List(actions, Plain)
      body == Without([url |-> url, actions |-> filter], IF actions = 0 THEN {"actions"} ELSE {})
  IN  /\ Requested(Accepts(decodeCreateWebhookParams, Row(body)), TRUE,
                   [ledger EXCEPT !.webhook = [url |-> url, actions |-> filter]])
      /\ UNCHANGED <<rows, asked>>

\* What an integrity check or a transfer failed with.
Fails(v) ==
  /\ Write /\ v.n > 0 /\ Clean(v) /\ ledger' = [ledger EXCEPT !.error = v]
  /\ refused' = "no" /\ UNCHANGED <<rows, asked, imported>>

\* An audit event of the engine: its detail may hold any number of identifiers.
Audit(n, outcome) ==
  /\ Write /\ ledger' = [ledger EXCEPT !.event.detail = Bytes(n), !.event.outcome = Text(outcome, "plain")]
  /\ refused' = "no" /\ UNCHANGED <<rows, asked, imported>>

\* A bundle's rows have only the engine's bounds.
ImportRow(table, v) ==
  /\ Write
  /\ \/ table = "customer" /\ assertText(v, 200) /\ ledger' = [ledger EXCEPT !.customer.displayName = v]
     \/ table = "case" /\ AssertTitle(v) /\ ledger' = [ledger EXCEPT !.case.title = v]
     \/ table = "dump" /\ assertText(v, 1024) /\ ledger' = [ledger EXCEPT !.dump.originalName = v]
     \/ table = "event" /\ assertText(v, 64) /\ ledger' = [ledger EXCEPT !.event.action = v]
  /\ imported' = TRUE /\ refused' = "no" /\ UNCHANGED <<rows, asked>>

Capped(table, n) == (table = "modules" => n <= 4096) /\ (table = "analyses" => n <= 64)

Grow(table, n) ==
  /\ Write /\ Capped(table, n) /\ rows' = [rows EXCEPT ![table] = n]
  /\ refused' = "no" /\ UNCHANGED <<ledger, asked, imported>>

-----------------------------------------------------------------------------
Tables == {"customers", "cases", "grants", "dumps", "events", "modules", "analyses", "errors"}

WireInit ==
  /\ ledger = [customer |-> [displayName |-> Plain], case |-> [title |-> Plain], grant |-> [maxUploads |-> 1],
               dump |-> [originalName |-> Plain, inspectionError |-> Null], error |-> Plain,
               webhook |-> [url |-> Plain, actions |-> Null],
               module |-> [name |-> Plain, debugFile |-> Plain],
               symbol |-> [debugFile |-> Plain, codeFile |-> Null],
               analysis |-> ShortReport,
               event |-> [action |-> Plain, outcome |-> Text(0, "plain"), detail |-> Bytes(2)]]
  /\ rows = [table \in Tables |-> 1] /\ imported = FALSE /\ asked = 1 /\ refused = "no" /\ writes = 0

WireNext ==
  \/ \E v \in Texts : \/ CreateCustomer(v) \/ CreateCase(v) \/ BeginUpload(v) \/ Fails(v)
                      \/ \E column \in {"name", "version", "kind", "summary"}, report \in {ShortReport, LongReport} :
                           RecordAnalysis(report, column, v)
                      \/ \E column \in {"name", "debugFile"} : Inspect(column, v)
                      \/ \E kind \in {"pdb", "exe"} : IngestSymbol(kind, v)
                      \/ \E table \in {"customer", "case", "dump", "event"} : ImportRow(table, v)
  \/ \E n \in Lengths, actions \in {0, 1, 32, 33} : RegisterWebhook(Text(n, "plain"), actions)
  \/ \E slots \in {0, 1, 2, 128, 129} : IssueGrant(slots)
  \/ \E n \in Counts : RecordAnalysis(LongReport, "facts", Bytes(n)) \/ \E outcome \in Lengths : Audit(n, outcome)
  \/ \E table \in Tables, n \in Counts : Grow(table, n)

WireSpec == WireInit /\ [][WireNext]_wireVars

-----------------------------------------------------------------------------
(* Properties.                                                             *)

\* The bounds of the engine are no tighter than the contract's: a request that
\* passed its decoder is not an invalid command.
EngineTakesIt == refused # "engine"

\* The grant has the slots the form asked for, though one is never sent.
GrantAsAsked == ledger.grant.maxUploads = asked

\* Whatever was written through the API, and however many rows there are, the
\* customer and case pages can be read.
PagesReadable ==
  ~imported =>
    /\ Accepts(decodeCustomerDetailResponse(decodeCaseSummary), customerDetail)
    /\ Accepts(decodeCaseSearchResponse, searchCases) /\ Accepts(decodeDashboardResponse, dashboard)
    /\ Accepts(decodeCaseDetailResponse, caseDetail)
    /\ \A action \in CaseActions : decodeTransitionResponse(transitionCase(action))

\* So can the dump page and the catalog, whatever the inspector found in the dump.
DumpReadable ==
  ~imported => Accepts(decodeDumpDetailResponse, dumpDetail) /\ Accepts(decodeDumpCatalogEntry, catalogEntryOf)

\* "must not fail the whole feed": a large detail does not; and the operations
\* page, its exports and the webhooks can be read, whatever went wrong.
FeedReadable ==
  /\ Clean(ledger.event.action) => Accepts(decodeEventFeedResponse, eventFeed)
  /\ Accepts(decodeOperationsResponse, operations) /\ Accepts(decodeExportSummary, exportSummary)
  /\ Accepts(decodeWebhookSubscription, webhookSubscriptionOf)

\* The reports of a dump can be read one by one and all together: a response
\* has at most 1048576 characters, a text at most doubles when it is encoded.
AnalysesReadable ==
  LET a == ledger.analysis
      size == 2 * (a.name.n + a.version.n + a.kind.n + a.summary.n) + (IF a.facts.t = "null" THEN 0 ELSE a.facts.n) + 400
  IN  Accepts(decodeAnalysisReport, analysisReportOf) /\ size * rows["analyses"] <= 1048576

\* "Names are basenames of at most 255 code points": an artifact the store
\* took can be shown.
SymbolReadable == Accepts(decodeSymbolRecord, symbolRecord) /\ CarriesIdentity(symbolRecord)

\* "nonempty, at most 300 characters": the title of any case, if there are no
\* control characters in it, can be shown.
TitleReadable == Clean(ledger.case.title) => Accepts(decodeCaseSummary, CaseRow)

\* Encoders, engine and decoders agree on every bound: what is asked for is
\* taken as asked, and what is stored can be read.
ContractsAgree ==
  EngineTakesIt /\ GrantAsAsked /\ PagesReadable /\ DumpReadable /\ FeedReadable /\ AnalysesReadable
=============================================================================
