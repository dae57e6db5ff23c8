-------------------------------- MODULE Pages --------------------------------
(***************************************************************************)
(* The pages of the web frontend, together.  Each has a protocol of its    *)
(* own with the server, and no two share state: a behaviour follows one    *)
(* page, chosen at the start, and the others rest.                         *)
(***************************************************************************)
EXTENDS UploadPage

CONSTANTS
  Routes, Flows,      \* detail page: see DetailPage
  MaxVersion,         \* detail page: bound on the versions of a record
  Ids, Matching, PageSize, Opened,   \* case list: see CaseSearch
  Sessions,           \* shell: sessions the server can make
  MaxActs,            \* detail page, case list, shell: bound on what the operator does
  MaxPanelActs,       \* operations page: the same
  MaxImports, MaxPolls, MaxHides,    \* import panel: see ImportProgress
  Artifacts, QueueFiles,             \* symbols page: identities, bound on the files added
  MaxPurges           \* symbols page: bound on the purges

VARIABLES
  page,                                                              \* the page that is open
  records, told, detailActs, detailRoute, due, gen, keepStale,       \* DetailPage
    shown, detailLoads, flows, confirming,
  cases, searchActs, query, cursor, searchPhase, loadingMore,        \* CaseSearch
    searches, first, missed,
  live, made, cookie, shellActs, shellRoute, session, restoreError,  \* OperatorShell
    pending, shellRequests, crossed,
  bundle, owned, panelActs, panelHidden, summary, exports, create, delete,  \* OperationsPanel
  imports, importHidden, hides, importMounted, start, active,        \* ImportProgress
    progress, failed, busy, terminal, polls,
  store, ever, queueMounted, files, picker, draining, any, upload,   \* SymbolQueue
    artifacts, queueLoad, purge, purges, mine, gone

Detail == INSTANCE DetailPage WITH
  server <- records, acts <- detailActs, route <- detailRoute, loads <- detailLoads

Search == INSTANCE CaseSearch WITH
  acts <- searchActs, phase <- searchPhase, requests <- searches

Shell == INSTANCE OperatorShell WITH
  acts <- shellActs, route <- shellRoute, requests <- shellRequests

Panel == INSTANCE OperationsPanel WITH
  MaxActs <- MaxPanelActs, acts <- panelActs, hidden <- panelHidden, list <- exports

Import == INSTANCE ImportProgress WITH
  hidden <- importHidden, mounted <- importMounted

Queue == INSTANCE SymbolQueue WITH
  MaxFiles <- QueueFiles,
  mounted <- queueMounted, entries <- files, list <- artifacts, load <- queueLoad

ASSUME PagesAssumption ==
  /\ Detail!PageFlows /\ Search!SearchBounds /\ Shell!ShellBounds
  /\ Panel!PanelBounds /\ Import!ImportBounds /\ Queue!QueueBounds

-----------------------------------------------------------------------------
(* One of them moves.                                                      *)

detailVars == <<records, told, detailActs, detailRoute, due, gen, keepStale, shown, detailLoads, flows, confirming>>
searchVars == <<cases, searchActs, query, cursor, searchPhase, loadingMore, searches, first, missed>>
shellVars == <<live, made, cookie, shellActs, shellRoute, session, restoreError, pending, shellRequests, crossed>>
panelVars == <<bundle, owned, panelActs, panelHidden, summary, exports, create, delete>>
importVars == <<imports, importHidden, hides, importMounted, start, active, progress, failed, busy, terminal, polls>>
queueVars == <<store, ever, queueMounted, files, picker, draining, any, upload, artifacts, queueLoad, purge, purges, mine, gone>>
listVars == <<detailVars, searchVars, shellVars>>
transferVars == <<panelVars, importVars, queueVars>>
pagesVars == <<page, pageVars, listVars, transferVars>>

AllPages == {"upload", "detail", "cases", "shell", "operations", "import", "symbols"}

PagesInit ==
  /\ page \in AllPages
  /\ PageInit
  /\ Detail!DetailInit /\ (page # "detail" => detailRoute = CHOOSE a \in Routes : TRUE)
  /\ Search!SearchInit
  /\ Shell!ShellInit /\ (page # "shell" => made = {} /\ shellRoute = "login")
  /\ Panel!PanelInit /\ Import!ImportInit /\ Queue!QueueInit

On(p) == page = p /\ UNCHANGED page

PagesNext ==
  \/ On("upload") /\ PageNext /\ UNCHANGED <<listVars, transferVars>>
  \/ On("detail") /\ Detail!DetailNext /\ UNCHANGED <<pageVars, searchVars, shellVars, transferVars>>
  \/ On("cases") /\ Search!SearchNext /\ UNCHANGED <<pageVars, detailVars, shellVars, transferVars>>
  \/ On("shell") /\ Shell!ShellNext /\ UNCHANGED <<pageVars, detailVars, searchVars, transferVars>>
  \/ On("operations") /\ Panel!PanelNext /\ UNCHANGED <<pageVars, listVars, importVars, queueVars>>
  \/ On("import") /\ Import!ImportNext /\ UNCHANGED <<pageVars, listVars, panelVars, queueVars>>
  \/ On("symbols") /\ Queue!QueueNext /\ UNCHANGED <<pageVars, listVars, panelVars, importVars>>

\* The fairness of the page that is open; a page that rests asks for none.
UploadFair ==
  /\ WF_pageVars(page = "upload" /\ Begin)
  /\ WF_pageVars(page = "upload" /\ Receive)
  /\ WF_pageVars(page = "upload" /\ Settle)
DetailFair ==
  /\ WF_detailVars(page = "detail" /\ Detail!RunEffect)
  /\ WF_detailVars(page = "detail" /\ Detail!CommitReload)
  /\ WF_detailVars(page = "detail" /\ Detail!AnswerSome)
  /\ WF_detailVars(page = "detail" /\ Detail!DeliverSome)
SearchFair ==
  /\ WF_searchVars(page = "cases" /\ Search!AnswerSome)
  /\ WF_searchVars(page = "cases" /\ Search!DeliverSome)
ShellFair ==
  /\ WF_shellVars(page = "shell" /\ Shell!AnswerSome)
  /\ WF_shellVars(page = "shell" /\ Shell!DeliverSome)
PanelFair ==
  /\ WF_panelVars(page = "operations" /\ Panel!TickList)
  /\ WF_panelVars(page = "operations" /\ Panel!DeliverList)
  /\ SF_panelVars(page = "operations" /\ Panel!AnswerListOk)
  /\ WF_panelVars(page = "operations" /\ Panel!ExportEnds)
ImportFair ==
  /\ WF_importVars(page = "import" /\ Import!ProgressSome)
  /\ WF_importVars(page = "import" /\ Import!AnswerSome)
  /\ WF_importVars(page = "import" /\ Import!DeliverSome)
  /\ WF_importVars(page = "import" /\ Import!Poll)
QueueFair ==
  /\ WF_queueVars(page = "symbols" /\ Queue!AnswerUpload)
  /\ WF_queueVars(page = "symbols" /\ Queue!DeliverUpload)

PagesSafety == PagesInit /\ [][PagesNext]_pagesVars

PagesSpec ==
  /\ PagesSafety
  /\ UploadFair /\ DetailFair /\ SearchFair /\ ShellFair /\ PanelFair /\ ImportFair /\ QueueFair

-----------------------------------------------------------------------------
(* The properties, by what they are about.                                 *)

\* At rest a page shows its own route and query, no older than what it did
\* itself (useResource, useCaseSearch, OperatorSymbolsPage), a case list at its
\* end is complete unless a page of it failed to load, and the tab sends the
\* token of the browser's session, with the two exceptions TokenCurrent names
\* (SessionProvider); the import panel shows the import it follows, and a symbol
\* it calls done is stored (useImportProgress, SymbolIngestQueue).
PagesAreCurrent ==
  /\ page = "import" => Import!ShownIsActive
  /\ page = "detail" => Detail!RestsOnCurrent
  /\ page = "cases" => Search!CaseListIsTrue
  /\ page = "shell" => Shell!SessionIsCurrent
  /\ page = "symbols" => Queue!DoneWasStored /\ Queue!ListKeepsUp

\* The record on the screen never goes back to an older version (useResource).
NeverGoesBack == [][page = "detail" => Detail!KeepsUp]_pagesVars

\* Whatever a page waits for comes to an end, through requests that fail and
\* answers that are ignored: a batch of uploads, a first load, "Load more",
\* signing in, a running export, a busy list, a started import, a queued file.
PagesComeToRest ==
  /\ BatchEnds
  /\ (page = "detail" /\ shown.status = "loading") ~> shown.status # "loading"
  /\ Search!MoreComesBack
  /\ Shell!PendingEnds
  /\ Panel!EndIsShown /\ Panel!ListComesBack
  /\ Import!EndReported
  /\ Queue!QueueDrains
=============================================================================
