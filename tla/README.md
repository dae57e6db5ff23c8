# TLA+ verification of DumpLedger

DumpLedger takes crash dumps in over HTTP, keeps them in a vault under a
retention policy, records in a SQLite ledger what has become of each, serves
them and the symbols they need to analyzers, and moves whole instances by
export bundles; operators and visitors use it through a web frontend. This
directory holds TLA+ modules that model it part by part, TLC configurations
that check small instances, and TLAPS proofs that hold for all instances of its
core and of the parts around it that keep state. Paths below are relative to the repository root; `PROJECT.json` maps each
definition to the lines it models.

## 1. Inventory

### 1.1 Components, state, operations

| component | source | state it keeps | operations |
|---|---|---|---|
| Lifecycle engine | `src/engine` | none of its own; order of vault and ledger effects | one `execute` for every command |
| SQLite ledger | `src/ledger` | cases, upload grants, dumps, analyses, symbols, imports, audit log, customers, webhooks | one transaction per command; catalogue queries |
| Filesystem vault | `src/vault` | `staging/<id>.part`, `vault/<id>/original.dmp`, open descriptors, symbol objects | create, append, sync and close, promote, remove, scan, read |
| Minidump inspector | `src/inspection` | none | verdict on the bytes of one object |
| Upload intake | `src/intake/upload-session.ts`, `upload-admission.ts` | lease counter, hash and size of each running stream | acquire/release, receive, seal or fail, first processing attempt |
| Post-processing queue | `src/intake/post-processing-queue.ts` | pending items with attempts, one timer, exhausted items | enqueue, drain, close |
| Startup reconciliation | `src/recovery/reconcile.ts` | none | a repair for every phase and every state of the files |
| Retention job | `src/recovery/retention.ts` | none | begin and finish due purges, resume interrupted ones |
| Process lifecycle | `src/main.ts` | signal state | start, serve, shut down |
| HTTP application and routes | `src/http` | none durable | maps routes to commands and projections, pages lists, streams downloads |
| Webhook dispatcher | `src/webhooks` | subscription rows with a cursor, delivery rows with attempts and next attempt, one timer | tick, page, POST, record, advance; create and delete a subscription |
| Symbol store | `src/symbols` and its part of engine, ledger and vault | symbol rows and files | ingest, identify, seal, fail, purge, serve |
| Export and import | `src/transfer` | one claim, job tables, exports directory, staged bundle, import markers | snapshot, backup, write, seal; check, stage, replay, finish |
| Sessions, tokens, rate limiter | `src/auth` | session table, windows per client | login, check, logout, expire, evict |
| Web frontend | `frontend/src` | state of a browser tab | load, search, mutate, poll, upload |
| HTTP contracts | `packages/http-contracts` | none | encoders and decoders of both sides |
| Generated mirrors, memory vault, model-based test harness | see `PROJECT.json` | none durable | test doubles |

### 1.2 How they interact

Every durable change is an engine command. A command that concerns bytes calls
the vault **first** and the ledger **second**; the two share no transaction.
Four parties send commands on dumps: an upload request (begin, append, seal or
fail, promote, quarantine, inspect), the post-processing queue (the last three
again, later), the retention job (begin and finish a purge), and startup
reconciliation (any of them, for what a previous process left). The transfer
manager runs one export or import at a time; an export reads the ledger twice,
an import sends one command for every row it brings. Operator and analyzer
requests send the rest. All run on one JavaScript thread: a handler keeps the
thread between two awaits, and engine commands are synchronous. A browser tab
is a thread of its own: what it knows is what the last answers said, and they
arrive late, out of order or not at all.

### 1.3 What is hard

- **Crashes and refused transactions between the two halves of a command**, in
  any handler and inside recovery itself; the same for an import, which is
  hundreds of commands, and for a purge of symbols, which nothing repairs.
- **Commands repeated by somebody else**: the request promotes, the queue
  promotes again, and so does recovery. An analyzer repeats a report.
- **Ownership**: a dump on its way in must always be somebody's, although the
  request may fail twice, the queue may be full and attempts run out; the claim
  on the transfer manager must come back from every failing job.
- **Shared counters**: upload slots of a grant, admission leases, the attempts
  and the single timer of the queue, a bounded table of clients.
- **State read, then used**: a grant checked before the staging file is
  created, a snapshot taken before the backup it belongs to, a cursor of a list
  that grows, a quota asked before the files are chosen.
- **Records behind their effects**: a POST has left before its row says so, and
  the row is settled before the cursor moves; shutdown does not wait for it.
- **Foreign bytes**: minidumps, PDBs, images, archives and names are read with
  offsets and sizes that come from the file itself.
- **Answers out of order**: effects, promises and timers of a page interleave.
- **Files changed from outside**: recovery meets missing and surplus objects.

`PROJECT.json` lists them as hazards at their lines.

### 1.4 What makes each component correct

- Engine, ledger, vault: rows and files agree at every point a crash can hit;
  only inspected bytes are downloadable; vault bytes do not change; slots are
  counted exactly; a closed case accepts nothing; final states are final.
- Intake and queue: leases come back, each dump has one owner, the timer is
  never lost, the digest is that of the bytes, every transfer is settled or
  given up openly.
- Recovery and retention: a completed startup leaves nothing half-done; startup
  cannot block for ever; only due dumps are purged, and due dumps are purged.
- Webhooks: a receiver sees what it subscribed to, in feed order and at least
  once, within a bound on repetitions; nothing is skipped, nothing is sent for
  a deleted subscription, every event is settled in the end.
- Transfer: a sealed bundle holds what its manifest lists; an imported dump is
  available only with verified bytes; two imports do not mix; a bundle that
  does not agree with itself is refused.
- Symbols: what is served under an identity is the file registered under it,
  for good; the identity is the file's own.
- Readers of bytes: what is accepted holds what it declares, what is sound is
  accepted, and neither costs more than a bound.
- API: a request passes exactly when its caller is entitled; a refusal has
  changed nothing; a walk of a list misses nothing that was there; a complete
  body is the whole dump.
- Frontend: what a page says of a request is true; at rest it is current; it
  comes to rest.

## 2. Modules

Dump custody:

| module | models | source |
|---|---|---|
| `DumpCustody` | abstract: what a reader of a dump may see | |
| `DumpEngine` | engine commands, ledger rows and vault files, under arbitrary callers | `src/engine`, `src/ledger`, `src/vault` |
| `DumpService` (extends `DumpEngine`) | upload requests, queue, retention, recovery, shutdown, crash: who sends which command | `src/intake`, `src/recovery`, `src/main.ts` |
| `EventTap` | abstract: what a webhook receiver may see | |
| `WebhookDispatcher` | the dispatcher's tick, its rows, the requests and failures beside it | `src/webhooks` |
| `DumpEngineProofs`, `DumpServiceProofs`, `WebhookDispatcherProofs` | the theorems about them | |

Files of the service's own, and foreign bytes (run together by `MCStores`):

| module | models | source |
|---|---|---|
| `TransferBundle` | what an export selects and what an import demands, as operators on ledgers | `src/transfer/manifest.ts`, the selection and the gates of both sessions |
| `BundleExport` | the export job beside live commands, failures, crash and the scan of the exports directory | `src/transfer/export-session.ts`, `manager.ts` |
| `BundleImport` | the import, command by command, with failures, crash, restart and reconciliation, over a used vault | `src/transfer/import-session.ts`, `manager.ts` |
| `TarCodec` | writer and strict reader of the archive | `src/transfer/tar.ts` |
| `SymbolStore` | ingest, deduplication, seal, failure, purge, crash, and the read route | its commands, its part of ledger and vault, the symbol routes |
| `PdbIdentity`, `PeIdentity` | the identity walks | `src/symbols/identity.ts` |
| `FilenameCodec` | names through header, decoder and store path | `packages/http-contracts/src/uploads.ts`, `src/symbols/identity.ts` |
| `MinidumpInspector` | every check of the walk in its order, budget, read failures | `src/inspection` |
| `AcceptedFiles` (extends `SymbolStore`) | the symbol store and the inspector side by side | |
| `TransferProofs` (export and import), `AcceptedFilesProofs` (store and inspector) | the theorems about them | |

Requests (run together by `MCApi`):

| module | models | source |
|---|---|---|
| `OperatorAccess` | sessions, CSRF token, bearer tokens, guards | `src/auth`, `src/http/contracts/json.ts` |
| `RateLimiter` | fixed windows in a table that evicts | `src/auth/rate-limiter.ts` |
| `ApiRequests` | every mutation: guards, command, read-back, answer, faults | `src/http/routes`, `application.ts` |
| `CatalogScan` | walks of dumps, cases and events while rows arrive | `src/ledger`, `application.ts` |
| `SymbolCoverage` | the three views of missing symbols | `application.ts`, `src/ledger` |
| `DumpDownload` | streaming a dump while it is purged | `application.ts`, `src/http/routes`, `src/vault` |
| `WireContracts` | bounds of decoders against bounds of the engine, in both directions | `packages/http-contracts`, `src/http` |
| `ApiModels` (extends `OperatorAccess`, `RateLimiter`, `DumpDownload`) | those three, `ApiRequests` and `CatalogScan` side by side | |
| `RequestProofs` | the theorems about `ApiModels` | |

Pages (put together by `Pages`, run by `MCPages`):

| module | models | source under `frontend/src` |
|---|---|---|
| `UploadPage` | the public upload page and the server behind it | `features/uploads` |
| `DetailPage` | a detail page: `useResource` and its forms | `features/shared-use-resource.tsx`, `features/cases`, `features/dumps` |
| `CaseSearch` | the case list | `features/cases/CasesPage.tsx` |
| `OperatorShell` | session, guard, login, sign-out in one tab of several | `app` |
| `OperationsPanel` | summary polling and export panel | `features/operations`, `features/transfer` |
| `ImportProgress` | import panel and its polling | `features/transfer` |
| `SymbolQueue` | symbols page: ingest queue, list, purge | `features/symbols` |
| `Pages` (extends `UploadPage`) | the seven of them, one of which is open | |
| `UploadPageProofs`, `PageProofs` | the theorems about `UploadPage`, and about `Pages` | |

The MC modules `MCDumpEngine`, `MCDumpService` and `MCWebhookDispatcher` hold
symmetry sets and filters, `MCPages` a list of cases. `MCStores`, `MCApi` and
`Pages` each put several modules side by side: a variable (`part`, `topic`,
`page`) is chosen in the initial state and never changes, its module takes the
steps, the others stay in an initial state. What theorems speak about is put
together outside the MC modules (`ApiModels`, `AcceptedFiles`, `Pages`), under
constants that are still open. The modules of a group share no variable and none of them reads
another's, so a behaviour of the group projects to a behaviour of the chosen
module and each behaviour of a module appears: what holds of the group under
`part = "tar"` holds of `TarCodec`, and what fails of it fails there. Where the
modules do interact in the program, the interaction is inside a module:
`BundleImport` meets bundles that `TransferBundle` selected, `SymbolStore` asks
for identities, `DumpDownload` runs beside the purge, every page has its server.

### 2.1 `DumpEngine`

The state is one variable per table (`caseStatus`, `grants`, `dumps`,
`analyses`) and per place for files (`staging`, `vault`, `descriptors`). A row
is a record of the columns the code branches on. A file is the number of chunks
in it, or `None`; a digest is the number of chunks that went into the hash, so
that a digest over other bytes than the stored ones is visible. A deadline
column is `"unset"`, `"future"` or `"due"`; `GrantDeadlinePasses` and
`PurgeDeadlinePasses` are the clock. An identifier that was never used has the
phase `"absent"`.

A command is one action when it is one transaction. A command that changes
files first has a second action `...Interrupted`: the files were changed and
then the process died or the storage refused the transaction. A refused
command changes nothing and is not an action, apart from those interruptions.
`TransitionDump` is the guarded UPDATE all dump commands share, and the
`...Row` operators are its SET clauses.

`disturbed` is a history variable: the dumps whose files something outside the
program removed or brought back (`FilesVanish`, `FilesReappear`). It lets the
invariants say exactly which dumps they do not speak about, while recovery
still has to cope with them. `dumps[d].grant` is no column: it is the grant
named by the audit row of the same transaction.

### 2.2 `DumpCustody`

Each dump has a `view` (none, inbound, published, refused, withdrawn) and is
`readable` or not. It comes in once, is published or refused once, is withdrawn
for good, and becomes readable only when it is published. The refinement
mapping takes the phases to views and `AuthorizeDownload`, which looks at row
and file, to `readable`.

### 2.3 `DumpService`

`loop` names the handler that has the thread, the dump it is at and the dumps
it still has to visit; a new handler starts only when it is `Idle`. Each engine
command of a handler is a step of its own, because the process can die between
two commands. `session`, `hashed` and `active` are the upload requests and
their leases, `queue` and `timer` the post-processing queue, `mode` the main
program. `stranded` collects dumps this process has openly given up: attempts
exhausted, answered 202 recovery-required because the queue was full, answered
500 because seal and fail both failed.

A command that fails half-way and a crash in the middle of that command leave
the same files and rows; the crash is therefore the failure followed by
`Crash`. The queue, the retention job and reconciliation visit their dumps in
list order in the code and in any order in the model, which only adds
behaviours. The inspector refuses well-formed bytes only when reading them
fails, so that step counts as a fault.

### 2.4 `WebhookDispatcher` and `EventTap`

`events` is the last rowid of the audit feed, `subs` and `deliveries` are the
two webhook tables, `tick` holds the locals of the running tick: where it is,
the subscription and event in hand, the attempts read before the POST, the rest
of the page and the subscriptions still to visit. A filter is the set of rowids
it selects (`Wants`). `next_attempt_at` is `"due"` or `"later"`, and `RetryDue`
is the clock. Each database statement is a step, so a crash or a failed
statement can fall between the settled row and the cursor. Requests run only
when no tick runs or its POST is in flight (`Serving`). `posts` is a history
variable that counts what left for the receiver.

`Close` is the last turn of `close()` in `src/main.ts`: the dispatcher and the
database are closed without waiting for a POST, and `AnswerAfterClose` is the
answer that can no longer be recorded. The code visits subscriptions in creation
order, the model in any order; they share no rows.

`EventTap` offers the first unsettled event of each open subscription, any
number of times, until it is settled. The mapping takes POSTs to offers and the
delivered and exhausted rows to settled events. Module `DumpService` leaves the
dispatcher out: it only reads the audit log there and writes its own two tables.

### 2.5 `TransferBundle`, `BundleExport`, `BundleImport`, `TarCodec`

A ledger is a record of the tables a bundle carries; bytes are named by the
dump they belong to. `Select` is what the exporter lists in its manifest, and
the gates of `openImportSession` are operators on a bundle. In `BundleExport`
the snapshot is taken in the turn of the request, and any command
(`CommandBeside`: of customers, cases and grants, of dumps and of symbols) may
run while the backup is awaited; the copy in the bundle is the ledger as the
backup ends. A transition of a case is its event and, for `CloseCase`, the
grants it revokes: the bundle's gates tell no more apart. `ExportSlots` are the
slot counts grants are issued with. `active` is the one claim of the manager,
`disk` and `bundles` are the export's directory, which `ScanExportsDir` reads
after a crash.

`BundleImport` runs in one turn, but each command in it is a transaction:
`SessionStep` is the next of them, `StepFails` its failure, `Crash` the end of
the process, `Boot` and `Reconcile` the next startup. `WipeLedger` is an
operator who starts again with an empty database over the same vault. The
bundles are what a small ledger exports, under this instance's grant key and
under another, what may become of it on the way, and the bundle of an instance
that had no rows yet, which can be imported first and leaves room for another.
`BundlesAreFiles` says of a bundle that its copy is a ledger and its manifest
lists phases; everything else about it is what the gates have to find out.

`TarCodec` writes an archive entry by entry, lets it be cut, extended or
damaged (`Transit`), and reads it. The size field has its two encodings with the
limit between them at two octal digits instead of eleven.

### 2.6 `SymbolStore` and the identities

Staging file, object and row of an artifact are three variables, because no
transaction spans them and nothing reconciles them. The part of a request after
its last await is one action; a failure inside it is one of its own
(`SealInterrupted`, `PurgeInterrupted`). `acked` and `torn` are history: what
the callers were told, and which artifacts a half-done purge left behind.

`PdbIdentity` is the walk from the superblock over block map and directory to
stream 1, on files laid out in every order and then cut or changed.
`PeIdentity` is the walk over an image given by the fields it reads.
`FilenameCodec` takes a name from UTF-16 to a header and back, and into a store
path; the other scenario are bytes that no browser made.

### 2.7 `MinidumpInspector`

One action for each function of the walk in its order; `budget` is the
metadata budget, `outcome` the verdict or the code of the rejection. Words are
scaled down and additions checked against `UInt64Max`. Every read and the close
may fail. A dump is laid out soundly and then cut or damaged in one field, one
operator for each part of the file (`DamagedDirectory`, `DamagedName`, ...).
`DumpService` keeps only the verdict.

### 2.8 Requests

`OperatorAccess`: a request is what the guards look at (cookie, CSRF header,
bearer header, origin, fetch site); `Handle` puts each guard's verdict beside it. `born` and
`revoked` are history. `RateLimiter` keeps every call and its answer as history;
its table is a function on addresses, and of several entries seen longest ago
any one may make room, where the code takes the one inserted first.
`ApiRequests`: a handler runs to its end without another in between; `Handle`
is one request with the fault it meets (clock, the read before the command, the
command, the read after it), and `Outcome` is what the handler makes of it: a
failed command has a code of the engine, while a failed lookup or statement of
the webhook storage has none and is answered as an internal error. An answer may
be lost and the request sent again. `CatalogScan` has three walks that share
only their form: a walk is the sequence of its pages, a page the set of its rows,
cut out of the order by counting (`Limited`, `Place`, `FirstRowids`). `SymbolCoverage` computes three views from the same rows.
`DumpDownload` reads a body chunk by chunk while the purge unlinks the file.
`WireContracts`: a text is its length and the worst character in it, a list its
length and one item; a write goes through decoder and engine, and every read
through shaping, encoder and the client's decoder.

### 2.9 Pages

A page's variables are its React state, its refs and its requests under way,
the oldest first; an `Answer...` action is the server's turn, a `Deliver...`
action the page's. A commit and its effect are two steps where a promise can
settle in between. The server's side is as much of a row as the page can tell
apart: a version, a list of identifiers, a status. Aborting a request does not
take it back: what other operators do (`CreatedElsewhere`, `DeletedElsewhere`,
`StartedElsewhere`) stands for what such a request may still do as well.
`SymbolQueue` gives an artifact that is ingested again another identifier, so
that a purge whose dialog was opened before the record left the list finds
nothing; a reload there settles the load before it, as `useResource` does.
`OperatorShell` notes in `crossed` that another tab signed in, and that the
answer of a sign-in came while another session request was out. The list of `CaseSearch` is
the sequence of its pages, each a set that the page shows in the order it came;
a query is empty, or some query that `Matching` answers.

## 3. Runs

| run | configuration | shows |
|---|---|---|
| `engine_dumps` | one two-slot grant, two dumps, one chunk | rows and files agree, downloads are proven, slots counted, vault immutable |
| `engine_cases` | two cases, two grants, a dump of two chunks, one analysis | closed cases are sealed off, final grants, analyses live with the bytes, refinement of `DumpCustody` |
| `service_uploads` | two dumps, two leases, queue of one, two attempts, three faults, no restart | leases, timer, one owner for each dump |
| `service_recovery` | one dump, two restarts, three faults | digest, complete recovery, purge only when due, implements the engine; service comes back, uploads settle, purges finish |
| `webhook_delivery` | two subscriptions, one with a filter, two events, two attempts, one crash, one shutdown, one failed statement | cursor, bound on POSTs, refinement of `EventTap`; every wanted event is settled |
| `stores` | section 2.5 to 2.7, bounds below | transfers, symbol store, readers of bytes |
| `api` | section 2.8 | guards, answers, lists, downloads, wire |
| `pages` | section 2.9 | what pages say is true, and current at rest |
| `pages_progress` | the same with smaller bounds, under fairness | whatever a page waits for ends |
| `webhook_close`, `export_slots`, `import_interrupted` | as the runs above | documented claims that fail (section 3.3) |

### 3.1 Properties made of named parts

Many properties are conjunctions; their parts are definitions of the
component's module with a comment each. One question about a component is one
property, so that a run reports on all its parts.

| property | parts |
|---|---|
| `CaseIsolation` | a closed case has no live grant; a dump is in the case of its grant |
| `ServiceAccounted` | types, leases match running uploads, the timer is armed while there is work |
| `ImportIsSound` | available means verified bytes; grants of another key are dead; a finished import is whole; imports do not mix; a dump between two phases is always accounted for |
| `BundleIsSound` | sealed bundles keep their manifest; registry and disk agree; skew between snapshot and copy is caught by the importer; an undisturbed export opens unless the importer cannot read a slot count in it |
| `SymbolsAreServed` | an identity serves its own file; what was answered 201 is served unless a purge was interrupted; nothing leaks without a failure or a refused seal |
| `FormatsRoundTrip` | an accepted archive is the one written, intact ones are accepted, nothing follows the end; names arrive, decoding is strict, an ingested name can be served |
| `IdentityIsExact` | an intact file has its own identity, a cut one its own or none (with one exception, section 3.3), allocations are bounded; distinct stamps give distinct ids |
| `VerdictIsSound` | captured memory lies in the file, output stays in the budget, a cut costs identities only, a sound dump is refused only for want of budget or after a failed read, one stream decides a fact |
| `ClaimIsReleased` | the transfer manager's claim is given up |
| `StepsAreContained` | served bytes are not replaced; an unreadable record costs its module only |
| `AccessIsSound` | let through exactly when entitled, refused for the right reason |
| `LimiterIsFair` | the limiter's table is bounded, a burst is bounded, a refusal was earned |
| `DownloadIsWhole` | a complete body is the whole dump, readers are closed, a purge cuts no body |
| `ListsAreExact` | each walk of catalog, cases and feed lists what was there, in order and once |
| `ContractsAgree` | what decoders pass the engine takes, what it stores clients can read; a stored report is admitted again; the offered action is the one that works; the views of missing symbols agree |
| `RefusalsChangeNothing` | a refusal changed no row and ended no session; stored reports keep their content |
| `UploadIsTrue` | what the upload page says of a file is what happened to it, no file is stored twice, a selection fits the link |
| `PagesAreCurrent` | at rest a page shows its own route and query; a case list at its end misses none, unless a page of it failed to load; the token is that of the browser's session, with the two exceptions below; the import panel shows the import it follows; a symbol called done is stored |
| `NeverGoesBack`, `PagesComeToRest` | by page, see `Pages` |

Two behaviours of the shell are outside `TokenCurrent`, because the program does
keep an old token in them: another tab of the browser signed in, or the answer
of a sign-in came while another session request was out, whose own answer then
overwrites the session (`RedirectsWhenAbsent` in section 3.3). In every other
order of sign-ins, sign-outs and bootstraps the token is current.

### 3.2 Bounds

- Two dumps and two slots let uploads race for the last slot; two cases and
  two grants let a grant meet a case that is not its own, and a case be closed
  and reopened while another lives on.
- A queue of one with two dumps reaches the full queue. Two attempts separate
  the first retry from the last. Three faults are what it takes to fail a seal
  and its cleanup and still hit a processing attempt of another dump, or to
  exhaust one dump's attempts.
- Two restarts allow a crash inside the recovery from a crash; three faults
  allow an interrupted command in each.
- Recovery and liveness are checked with one dump. Reconciliation treats dumps
  one after another and a dump's repair reads and writes only its own row and
  files, so several dumps add little but states. The case of one dump's failure
  aborting the repair of another is covered by the restart that follows.
- Two events are what an order needs; a page of two lets a deletion or a retry
  fall inside a page. With two subscriptions one can be deleted or blocked while
  the tick is at the other.
- An export meets two commands of any kind in its window, one crash and one
  failing file operation, from every phase of one dump beside another that is not
  there yet or available, and a tombstone; the commands in the window move them on.
  Two imports, two crashes, a failing step and a wipe let a second import follow
  what the first left behind.
- Three artifacts of four contents let two builds of one PDB race. Two failures
  hit an ingest and a purge.
- Files are laid out so that each field ends one unit before, at and after the
  end of a block or of the file; names and bytes are on the edges of the ranges
  of UTF-16 and UTF-8; texts and lists have each bound of a decoder or of the
  engine and one more.
- More clients than the limiter's table has room for; two windows.
- Four rows and pages of one or two make every walk span several pages and meet
  a row that sorts before, at and after its cursor.
- Pages: two routes, three or four things an operator does, two or three
  requests out at once, three files for fewer slots. That is what it takes for
  an answer to meet a page that has moved on twice.

`MaxUploads`, `MaxChunks`, `Capacity`, `MaxPending`, `MaxAttempts`, `BatchSize`,
`MaxAnalyses`, page and window sizes are parameters of the program; `MaxRestarts`,
`MaxFaults`, `MaxCrashes`, `MaxStops`, `MaxCommands`, `MaxWipes`, `MaxActs` and the
like bound the model. Liveness with faults unbounded would be false for a
trivial reason: a disk that always fails never lets anything finish.

Dumps, cases and tokens are interchangeable and form symmetry sets where no
liveness is checked. Deadlock is checked for the engine, the service and the
dispatcher, which never stop; a reader of a file, a page whose operator has done
all the model lets him do and a finished walk do stop. Each property has a seeded
fault (operators marked "Seeded fault", listed under `mutants`), a plausible slip
in the code that makes TLC find the property violated.

### 3.3 Disagreements between code and documents

Three have a run that ends in the counterexample:

- `webhook_close`. The comment of `#scheduleFailure`
  (`src/webhooks/dispatcher.ts:261`) says that a failed attempt is "Applied even
  after `close()` because the attempt already reached the receiver and storage
  is durable." `close()` in `src/main.ts:169` closes the database in the same
  turn; the record throws and the tick swallows the error. The attempt is
  repeated uncounted after the restart. What holds is `PostsBounded`, with one
  more POST for each shutdown.
- `export_slots`. A grant has 1 to 128 slots (`CONTEXT.md:60`,
  `src/ledger/sqlite-ledger.ts:14`); `rowSlotCount`
  (`src/transfer/import-session.ts:253`) refuses more than 16. A ledger with a
  17-slot grant is exported without complaint and can be imported nowhere.
  `stores` checks with 16 slots that nothing but a slot count can keep out a
  bundle whose backup ran undisturbed.
- `import_interrupted`. `docs/import-export-design.md:160` says "an interrupted
  import is cleaned up or resumed by the same startup reconciliation";
  `reconcile` never looks at the markers. The instance starts with half a bundle,
  nothing reports it, and every later import is refused. What holds is
  `ImportIsSound`: what is there is verified, and no import mixes with it.

The others were found the same way. Their claims are definitions of the modules
that do not hold, named here; adding one to the configuration of its group
shows the counterexample.

| definition | the document or comment says | the code does |
|---|---|---|
| `DumpEngine!OneUploadPerGrant` | "a grant secret is accepted by at most one successful `beginUpload`" (`docs/architecture.md:91`) | one upload per slot (`src/ledger/sqlite-ledger.ts:431`); intended, see `CONTEXT.md` |
| `BundleExport!ConcurrentUploadStaysOut` | "a concurrent upload simply does not appear in this export" (`docs/import-export-design.md:94`) | an upload begun during the backup is in the copy and not in the manifest; the import refuses the bundle (`src/transfer/export-session.ts:432`) |
| `PdbIdentity!MissingInfoIsUnreadable` | "a missing or unreadable PDB Info stream header is reported as `symbol_identity_unreadable`" (`src/symbols/identity.ts:15`) | the nil size passes the one check of stream 1, and the next stream's block is read (`identity.ts:389`) |
| `PdbIdentity!CutIsNoticed` | "corrupt input can only degrade to `undefined` or to a `symbol_identity_unreadable` domain error" (`src/symbols/identity.ts:10`) | when a PDB ends inside an earlier block of its directory, the later blocks move up, the sum of bytes is right, and another block is read as stream 1 (`identity.ts:503`); `IdentityIsExact` holds for every other cut |
| `FilenameCodec!AnyNameArrives` | "Any JS string (including non-ASCII and emoji) round-trips" (`packages/http-contracts/src/uploads.ts:181`) | a lone surrogate arrives as U+FFFD (`uploads.ts:108`) |
| `SymbolStore!RowsHaveObjects` | "Purge removes the vault object and row in one transaction" (`docs/symbols-design.md:188`) | bytes first, row second; interrupted in between, the row deduplicates later ingests while the store serves a miss (`src/engine/dump-ledger-engine.ts:312`) |
| `SymbolStore!StagingIsSwept` | residue "is removed by the ordinary symbol staging discipline at next startup" (`src/transfer/import-session.ts:610`) | no startup code looks there |
| `SymbolStore!OneIngestAtATime` | "a new `symbols_ingest_in_progress` guard bounds concurrent ingests to 1" (`docs/symbols-design.md:130`) | there is none (`src/http/routes/symbol-admin-routes.ts:142`) |
| `CatalogScan!ArrivalsAreListed` | "dumps arriving mid-scan appear on a later page" (`docs/analyzer-guide.md:64`) | not one of the cursor's millisecond with a smaller random id (`src/ledger/sqlite-ledger.ts:257`) |
| `CatalogScan!RecentCasesAreRecent` | "Recent cases" (`frontend/src/features/dashboard/DashboardPage.tsx:78`) | the last ones by random identifier (`src/http/application.ts:343`) |
| `ApiRequests!RetryableIsTransient` | "`retryable` tells the caller whether repeating the same request may succeed" (`packages/http-contracts/src/errors.ts:8`) | a case for an unknown customer is answered with a retryable 503 for ever (`src/ledger/sqlite-ledger.ts:387`) |
| `DumpDownload!NotFoundIsGone` | 404: "Unknown dump id (or purged content) — drop from your worklist" (`docs/analyzer-guide.md:213`) | any failed command or open is a 404 (`src/http/application.ts:296`) |
| `UploadPage!RetryConsumedNothing` | "The request never started, so no slot was consumed" (`frontend/src/features/uploads/UploadPage.tsx:284`) | a failure after `BeginUpload` is answered retryable as well (`src/http/routes/upload-routes.ts:130`) |
| `UploadPage!QuotaCanBeAsked` | "Retryable failures offer a manual re-check only." (`UploadPage.tsx:117`) | choosing files removes the notice that offers it (`UploadPage.tsx:183`) |
| `DetailPage!ResultSurvivesRefetch` | a reload "keeps the current data on screen while the fresh load runs, so the mutation's focus-moved summary is not unmounted by the refetch" (`frontend/src/features/shared-use-resource.tsx:11`) | a refetch that fails unmounts it, with a link's secret that is shown once (`shared-use-resource.tsx:80`) |
| `DetailPage!ErrorMeansIdle` | "a retry from an error: show the loading state" (`shared-use-resource.tsx:66`) | the error stays until the answer (`shared-use-resource.tsx:90`) |
| `CaseSearch!BeginsAtFirst` | "`search` starts a fresh first page; `loadMore` appends the server's cursor page" (`frontend/src/features/cases/CasesPage.tsx:46`) | the retry of a failed page appends it to nothing (`CasesPage.tsx:105`) |
| `CaseSearch!LatestFirst` | "Latest cases first." (`CasesPage.tsx:216`) | by random identifier (`src/http/application.ts:367`) |
| `OperatorShell!RedirectsWhenAbsent` | "When the session is absent the guard redirects to /login" (`frontend/src/app/OperatorGuard.tsx:5`) | a bootstrap is not cancelled when the guard is left; an answer that is older than a sign-in and comes after it drops the session the cookie names and the server honours (`frontend/src/app/SessionProvider.tsx:124`) |
| `OperationsPanel!CreatedIsListed` | "Show the new running bundle immediately." (`frontend/src/features/transfer/ExportPanel.tsx:164`) | the refresh does nothing while an older list request is out, and no tick follows (`use-export-list.ts:48`) |
| `ImportProgress!NoOverlap` | "a tick never overlaps an outstanding request" (`frontend/src/features/transfer/use-import-progress.ts:10`) | the end of an aborted poll clears the next one's guard (`use-import-progress.ts:63`) |
| `ImportProgress!RetryAfterError` | "A failed poll stops the loop; the operator can retry the import." (`use-import-progress.ts:60`) | the last snapshot says running and keeps the form disabled (`ImportPanel.tsx:76`) |
| `ImportProgress!RunningIsFollowed` | "While the import runs, progress ... polls about once a second and stops on the terminal status." (`ImportPanel.tsx:11`) | one failed summary poll unmounts the panel and forgets the import (`frontend/src/features/operations/OperationsPage.tsx:150`) |
| `WireContracts!SymbolReadable` | "Names are basenames of at most 255 code points, without separators" (`docs/http-api.md:802`) | the clients read them as identifiers of 128 characters without spaces; one longer name makes the whole list unreadable (`packages/http-contracts/src/symbols.ts:90`) |
| `WireContracts!TitleReadable` | a title is "(nonempty, at most 300 characters)" (`docs/http-api.md:231`) | the engine, and so an import, takes 500 (`src/engine/dump-ledger-engine.ts:329`) |

## 4. Fairness

`service_recovery` assumes:

- weak fairness of the handler that has the thread: synchronous code runs on;
- strong fairness of the end of each stream, of the continuation of a sealed
  upload, of the drain and retention timers and of the end of a shutdown: they
  are callbacks, enabled whenever the loop is free and disabled while another
  handler runs, and the event loop serves its queues in order. A stream that
  stalls is ended by its total timeout;
- weak fairness of `Boot`: somebody restarts a stopped process. The repository
  contains no supervisor configuration, so this is an assumption on operation.

`webhook_delivery` assumes weak fairness of the tick's code and timer, of the
answer to a POST (its `AbortController` ends it), of the passing of a retry
time, of the end of a shutdown and of the restart. Weak fairness is enough:
nothing but the tick's own await suspends it.

`stores` assumes weak fairness of the steps of an export job, which runs in the
process whatever else does, and of the scan at the next start. No other part of
it has a fairness condition.

`pages_progress` assumes, for the page that is open, weak fairness of the ends
of requests (a browser ends every request, with an answer or an error), of their
delivery to the page, and of React's effects and the page's timers. For the
export list it also assumes strong fairness of answers that succeed, since a
server that fails every poll never tells the page anything, and that a running
export ends, which is `ClaimIsReleased`; for the import panel that the import
ends. An upload request ends by the server's timeout.

Nothing is assumed of visitors, operators, other tabs, the clock or the disk.

## 5. Proofs

The theorems hold for every value of the constants that meets the assumptions
stated with them, so for any number of dumps, cases, grants, analyses, symbols,
bundles, imports, clients, tokens, files and slots, any limits of the program
and any number of faults, crashes and restarts. The assumptions say that bounds
are numbers, that `None` is no identifier, and what kind of thing a parameter is:

- `DumpEngine`, `DumpService`: `DumpsFinite`, `WellFormedIsDumps`,
  `BoundsAreNat`, `NoneIsFresh`, `ServiceBoundsAreNat`. Dumps are finite because
  slots are counted with `Cardinality`; the other sets need not be;
- `WebhookDispatcher`: `DispatcherBounds`, `WantsAreEvents`, `NoneIsNoSub`;
- `SymbolStore`: `SymbolAssumption`; `AcceptedFiles`: `InspectorAssumption` (a
  shape lists sizes, one record for each name, within the counts the inspector
  allows, and its file has a size of 64 bits: what it takes for a dump to be
  sound, which `VerdictIsSound` says is refused for the budget or a failed read only); `TransferBundle`:
  `RefsAreSymbols`, `SlotLimitIsNat`, `NoneIsNoDump`; `BundleExport`:
  `ExportBounds`; `BundleImport`: `ImportBounds`, `BundlesAreFiles`;
- `OperatorAccess`: `AccessAssumption`; `RateLimiter`: `LimiterAssumption` (what
  its constructor checks); `DumpDownload`: `DownloadBounds`; `ApiModels`:
  `ApiAssumption` (limits and bounds are numbers, a page has room for a row);
- `UploadPage`: `PageBounds`; `Pages`: `PagesAssumption`.

TLC evaluates them in the runs.

| theorem | states |
|---|---|
| `TypeCorrect` | `TypeOK` is an invariant: no slot counter or file passes its limit |
| `CustodyIsSound`, `DownloadsAreProven` | `LedgerMatchesVault` and `DownloadableIsProven` are invariants |
| `VaultImmutable` | the action property `VaultIsImmutable` |
| `SlotsAreAccounted` | `SlotsAccounted` is an invariant |
| `CasesAreIsolated` | `CaseIsolation` is an invariant |
| `TerminalGrantsAreFinal` | the action property `TerminalGrantIsFinal` |
| `AnalysesLiveWithBytes` | `AnalysesFollowBytes` is an invariant |
| `EngineImplementsCustody` | `CustodyKept`: the engine implements `DumpCustody` |
| `ServiceImplementsEngine` | every behaviour of the service is one of the engine |
| `ServiceCustodyIsSound`, `ServiceKeepsPromises` | hence all of the above holds throughout the service |
| `ServiceIsAccounted` | `ServiceAccounted`: leases, limits, the armed timer |
| `DumpsAreOwned` | `NoDumpForgotten` is an invariant |
| `DigestsAreOfBytes` | `DigestIsOfBytes` is an invariant |
| `RecoveriesAreComplete` | the action property `RecoveryIsComplete` |
| `PurgesAreDue` | the action property `PurgeOnlyWhenDue` |
| `DispatcherTypeCorrect` | `DispatcherTypeOK`: attempts stay within `maxAttempts` |
| `NothingIsSkipped` | `CursorSkipsNothing` is an invariant |
| `PostsAreBounded` | `PostsBounded` is an invariant |
| `DispatcherImplementsTap` | `TapKept`: the dispatcher implements `EventTap` |
| `SymbolsServed`, `ServedNeverReplaced` | `SymbolsAreServed` is an invariant, `ServedIsImmutable` holds of every step |
| `InspectionInvariant` | the inspector's walk stays inside the entries and modules in the file |
| `OneStream` | no accepted dump declares two streams of a critical type, a part of `VerdictIsSound` |
| `VerdictSound` | `VerdictIsSound` is an invariant, for dumps of any shape within the limits |
| `StepsContained` | the action property `StepsAreContained`: served bytes stay, an unreadable record costs its module only |
| `BundlesKeepPromises` | the first two parts of `BundleIsSound`: manifest kept, registry and disk agree |
| `QuietExportsOpen` | a bundle whose backup ran undisturbed opens, for instances whose grants have, and are issued with, at most `SlotLimit` slots |
| `SkewsAreCaught` | its third part, `SkewIsCaught` |
| `BundlesAreSound` | `BundleIsSound` is an invariant, for any ledger: its last part is that only a slot count can keep such a bundle out |
| `ImportsAreSound` | `ImportIsSound` is an invariant |
| `AccessSound`, `RefusalsKeepSessions` | `AccessIsSound` is an invariant, `RefusalKeepsSessions` holds of every step |
| `LimitsAreFair` | `LimiterIsFair` is an invariant |
| `DownloadsAreWhole` | `DownloadIsWhole` is an invariant |
| `RefusalsAreHarmless` | the action property `RefusalsChangeNothing` |
| `ListsAreExactAlways` | `ListsAreExact` is an invariant, for any page size and any arrivals |
| `UploadsAreTrue`, `UploadsAreTrueTogether` | `UploadIsTrue` is an invariant of the upload page, alone and among the pages |
| `PagesAreCurrentAlways` | `PagesAreCurrent` is an invariant, with the exceptions section 3.1 names |
| `RecordNeverGoesBack` | the action property `NeverGoesBack` |

### 5.1 Engine

The argument for custody is per dump. `DumpSafe(d)` puts together what
`LedgerMatchesVault` and `DownloadableIsProven` say of `d`. With `TypeOK` it is
inductive, neither property alone is: that a downloadable dump has its bytes
rests on the files the phase promises, and that `AcceptDump` finds bytes rests
on `RowCoherent`. That an absent row is exactly `NoDump` is needed because
`BeginUpload` takes any fresh identifier. A step touches one dump
(`OneDumpStep`), so `SafeElsewhere` settles the others, and each command on `d`
is settled from the fields its row operator sets (the `...Fields` lemmas).

For slots, `GrantSafe(g)` adds to `SlotsAccountedOf(g)` that the row of a grant
never issued is `NoGrant`, counter zero included, so that issuing starts from no
uploads. Only `BeginUpload` gives a dump a grant, to a dump that had
none because its row was absent, so `UploadsOf(g)` grows by exactly one
(`SlotTaken`, from the library's facts on cardinality); every other command keeps
the grant of every dump (`GrantOfDumpKept`). Isolation of cases and analyses use
the same fact: the command that takes a case, a grant or a dump to its last
state is the one that does away with what depends on it.

The refinement of `DumpCustody` follows the phases: a command on `d` moves the
view of `d` along one edge of the abstract machine or leaves it, and `DumpSafe`
says that a dump becomes readable only on the edge to published.

### 5.2 Service

That the service implements the engine goes handler by handler. It needs one
invariant of the service, `HashedOK`: the digest an upload seals with is one
the engine's callers may name.

`ServiceInv` is `ServiceSound`, `LeasesAccounted` and `Armed`. `ServiceSound`
has the types, `DumpSafe` of every dump, `LoopShape` (which locals a handler has
at which point) and for each dump `DumpServed`: `RequestOf` and `DigestOf` tie
an upload request to the phase of its row and its hash to the bytes of its
staging file, `OwnerOf` says who answers for a dump between two phases, and
`ListOf` that a handler's list of dumps to visit holds every dump it is there
for. None of the four is inductive without the others: a failed command hands a
dump from a request to the queue, and the list of reconciliation is what makes
the owner of a dump after a restart. `Armed` says of the moment between two
handlers and of the middle of one: the timer is armed, or a drain runs that will
arm it.

`RecoveryIsComplete` then needs only `ListOf` at the end of reconciliation, when
the list is empty, and `PurgeOnlyWhenDue` that what is on the list of retention
is due.

### 5.3 Dispatcher

`CursorSkipsNothing` is not inductive: the cursor follows
the page, so `DispatcherInv` also says that whatever lies behind an event of the
page and is not in it is settled (`PageOK`; for a fresh page this is
`FirstPageIsPrefix`, from the library's facts on cardinality), that the event in
hand heads the page and what is known of its row at each await (`TickOK`,
`HandOK`). `PostsOK` counts each POST once: in the attempts of its row, as the
delivered one, as in flight, or as lost. The refinement needs three more facts,
`FeedOK`; then `TurnIsKept` says that the event in hand is the one whose turn
the tap says it is.

### 5.4 Foreign files and transfers

`StoreInv` adds to the promises of the store that two rows never have one
identity (`OneRowPerIdentity`, which rests on the second look inside the
transaction, after the await) and that an answered identity has a row
(`AckedHasRow`); `ArtifactSound` follows staging file, object and row of one
artifact.

The inspector reads what a file declares, so its proof begins with the files.
`FileTyped(f, n)` is what cutting or damaging one field leaves of any layout: six
entries, `n` modules, numbers where numbers are read, and a declared count of
modules that is `n` unless the stream's size still is that of `n`. With one
damaged field not both can be wrong; with two the walk would run out of the
model's file, where the code reads on and meets other bytes. `WalkInv` carries the
checks forward: past the header no more streams are declared than there are
entries, at the modules no more modules than there are, and each entry walked is
the first of its critical type. Then a module in hand is a module of the file, its
charges are numbers, and a walk that ends there has failed its name or its budget.

`VerdictIsSound` speaks of sums over lists of any length: of sizes, and of
charges. `Sums` is a recursive function; that it has the values its equations say
(`SumsAre`), that sums grow and that one number more adds itself are proved by
the least number at which they would fail (`LeastNumber`), so no induction over
data is needed. `LayoutIsSound` then places every stream, range and name of a
sound dump inside its file, and `SoundChecks` passes it through every check but
the budget. For any file, `ListAccepted` and `List64Accepted` read the other way:
what the checks of a list passed lies in the file, in `Memory64Check` by the one
check of the sum. Both need that a count above what is there is refused
(`CountFits`), hence `StreamsTyped`, which says of the two lists in a damaged file
what `FileTyped` says of the modules. `VerdictInv` joins where the file came from
(`Given`), the walk, what was captured (`ListsInv`), a sound dump's verdict
(`SoundInv`) and the account of the budget (`ModulesInv`): what the facts so far
cost, one charge for each module still to come and what is left of the budget are
together no more than the whole. That last sum is what makes the account
inductive: the charge of all modules is taken at once, before the first of them.

`ExportInv` says that claim, job and work area come and go together and that a
sealed bundle was selected from one snapshot. Of the importer's gates a bundle
whose backup ran undisturbed then passes each but the one on slot counts
(`OnlySlotsRefuse`). That it passes that one too needs `SlotsInv`, which is
inductive only from ledgers whose grants the importer can read
(`SlotsReadable`), and if no other is issued: the finding `export_slots` is the
counterexample without it.

Skew is caught by counting (`SkewsAreCaught`). `Skew(s, l)` compares a snapshot with the ledger, or
with the copy taken of it: if `l` has no more events of the declared dumps and
no dump row besides, then its customers, cases, grants and declared dumps are those of `s`.
The audit log only grows and every command appends to it, either an event that
the importer counts or the event of a dump that was not there at the snapshot
and now has a row (`SkewGrows`). The gates refuse both. Without the count
of events the property fails (the seeded fault `CheckRowCounts`).

`ImportInv` has an open session tied to one marker, one job and one work area
(`SessionInv`), the place of the bytes by phase (`DumpSound`), the dump in hand
and the reason why any other is not stuck (`HandInv`), which tables are complete
at which point (`RowInv`), and the fate of grants of another key (`GrantInv`).
The proof found the first form of `FinishedImportIsWhole` wrong: it took the
rows of every finished import to stay the rows of the ledger, but a bundle
without rows leaves a ledger empty, so that another import may follow and fail.
The property now speaks of a ledger in which no import is unfinished, and
`stores` has that bundle among its inputs.

### 5.5 Requests and pages

`AccessInv` ties the session map to the history of logins (`EntrySound`), so
that `authenticate` finds exactly the sessions that are alive; the guards are
then a case analysis over the request. `DownloadInv` counts the descriptors as
the cardinality of the bodies under way, which is finite because it grows one by
one: the set of clients need not be.

`LimiterInv` follows what one address was granted in the span from any time on
(`SpanBounded`), while fewer others than the table holds were seen in it: an
entry that began before the span and one that began in it give `Limit` grants
each. An entry that began in the span and is evicted in it would allow a third;
but whoever makes room was seen no later than all others, so they were all seen
since the span began, and there are `MaxKeys` of them. `EntryEarned` ties an
entry to the calls that made it, which is what a refusal rests on. The theorem
bounds every span, for any number of addresses and calls.

`UploadInv` says what is noted of each file against what the server did
(`FileSound`), the same of the answer on its way (`RequestSound`), and
`OnlyFirstBegun`: a file put back after a retryable answer may have been begun,
but it is the first of those still open. The queue is sent in order of choice, so
that file is sent first, and a file marked "not attempted" has really not been:
with another order the property fails (the seeded fault `LastFirst`). That a
queue has a first file for any number of files is the least-number principle
(`LeastNumber`, from the library's `WFMin`). The proof also found that two
arms of `Told` overlapped, which leaves the choice open in TLA+; they no longer do.

`RefusalsChangeNothing` needs of the mutations only that rows keep their types
(`ApiInv`); the rest is a case analysis over what a handler has done when it
answers, with each fault (`MutationFacts`). That a report keeps its content is the
arm in which the identity is already stored.

`ListsInv` has one invariant per walk. For the catalog (`ScanSound`): nothing
listed lies after the cursor, and a row that matched all along is listed or lies
after it. A page takes the first rows after the cursor and leaves its last row as
the next cursor. That a finite set of keys has a last one is again the
least-number principle: it is the key with the fewest above it (`HasGreatest`). For the cases (`WalkInv`): a case's place only grows, since cases
are never removed, so a case not listed yet is at the next offset or after it.
For the feed, what was read is exactly what the filter allows up to the cursor.

For the pages one invariant each, joined in `PagesInv`. What most of them are about is the request that is listened to, and that its
answer is still of the page that gets it.

- `DetailInv`: that request is for the committed route and, once answered, no
  older than what the page was told or shows (`ListenedIsCurrent`); this is what
  keeps the record from going back.
- `SearchInv`: with the cases shown and those still to come from `next` on, the
  list is as it was when it was begun (`ListSound`); an answer on its way keeps
  that (`SearchSound`), because a case's place only grows.
- `ShellInv`: short of the two exceptions, the session the tab holds, and each
  that a request still out will give it, is the browser's, or the browser's is
  dead, or the answer of the sign-in that made the browser's is still to come
  (`Fresh`).
- `QueueInv`: unless a drain will load it again, the list of symbols that is
  shown, or that the load listened to brings, has what the page registered and
  lacks what it purged (`ListFresh`).
- `ImportInv`: a poll brings an end only once it has come, and is of the import
  the panel follows if it is listened to (`PollSound`).

### 5.6 Only model-checked

- The liveness properties `RecoveryHappens`, `UploadsSettle`, `PurgesFinish`,
  `EventsSettle`, `ClaimIsReleased`, `PagesComeToRest`: fairness and `ENABLED`
  are out of the prover's reach.
- What folds and recursive operators compute over a whole file or table needs
  an induction over data: `FormatsRoundTrip` and `IdentityIsExact` (walks over
  blocks and bytes) and `ContractsAgree` (a recursive codec, and symbol views that
  fold over rows).

## 6. Not modelled

- Migrations, the integrity check of the database, fsync and the renames inside
  one promotion. Power loss that reorders writes: a crash here keeps what the
  process wrote.
- The contents of the audit log except for what a transition or a reader uses:
  the grant of an upload, the length, the order and the names of dumps.
- Cryptography: password hashing, random tokens, webhook signatures, the MAC of
  grant secrets. They appear as "matches" or "does not".
- JSON syntax, the rich report's own schema, the syntax of identifiers,
  timestamps and digests: one verdict each.
- TLS, static files, configuration, the wiring of the server.
- Layout, theme, formatting and the field checks of the frontend's forms; the
  pages without a protocol of their own (dashboard, customers, dump catalogue
  view), which load once through the `useResource` of `DetailPage`.
- The values of facts in a minidump that no check depends on.
- Generated mirrors, memory vault and the model-based test harness: test
  doubles and generated code, not part of the running service.
- A clock that goes backwards.
- Files that change in the instant between two commands of one dump's
  reconciliation, which reads their presence once; at any other time they may.
- Parts that share no state are not run against each other: the sum runs let one
  of them move. A crash during an import, an export or an ingest is in the
  module of each; its effect on dumps is that of the same commands in
  `DumpEngine`, which any caller may send in any order.

A staging file without a row is removed by startup only when it is old enough;
the models let each startup remove it or leave it.

## 7. Plan

Done: the modules of section 2 with their runs, and the theorems of section 5;
every safety and action property that a passing run checks is a theorem, except
the three of section 5.6. What is left are those: the folds in `SymbolCoverage`
could be stated as functions on the naturals and proved by the least-number
principle, as the sums of `MinidumpInspector` are; the codecs of `WireContracts`,
`TarCodec` and the identity walks stay with TLC.
