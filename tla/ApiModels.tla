------------------------------ MODULE ApiModels ------------------------------
(***************************************************************************)
(* The requests of the API side by side: the sessions and guards of        *)
(* OperatorAccess, the limiter, the downloads, the mutations of            *)
(* ApiRequests with what a refusal leaves as it was, and the walks of      *)
(* CatalogScan.  They share no state.                                      *)
(***************************************************************************)
EXTENDS OperatorAccess, RateLimiter, DumpDownload

CONSTANTS
  Identities,    \* of reports on one dump
  MaxAnalyses,   \* MAX_ANALYSES_PER_DUMP
  MaxRows,       \* bound on the rows added per table
  DumpIds, CaseIds, MaxTime, MaxEvents,         \* see CatalogScan
  PageSize, RecentCases, MaxLimit

VARIABLES
  ledgerRows, last,                                     \* ApiRequests
  catalogClock, dumps, scan, cases, walk, events, poll  \* CatalogScan

Api == INSTANCE ApiRequests WITH rows <- ledgerRows
Catalog == INSTANCE CatalogScan WITH clock <- catalogClock

ASSUME ApiAssumption == Api!ApiBounds /\ Catalog!ScanBounds

mutationVars == <<ledgerRows, last>>
listVars == <<catalogClock, dumps, scan, cases, walk, events, poll>>

\* A refusal has changed no row and ended no session, and a stored report keeps
\* its content (the JSON routes, authenticate, recordAnalysis).
RefusalsChangeNothing ==
  [][Api!RefusedKeepsRows /\ Api!ReportsKept /\ SessionsKept]_<<mutationVars, accessVars>>

\* Walks of the catalog, the cases and the feed list what was there, in order
\* and once, while rows arrive and change (searchDumps, searchCases,
\* readAuditEvents).
ListsAreExact == Catalog!WalksAreExact
=============================================================================
