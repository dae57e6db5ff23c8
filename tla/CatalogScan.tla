---------------------------- MODULE CatalogScan ----------------------------
(***************************************************************************)
(* Reading the ledger page by page while it grows.                         *)
(*                                                                         *)
(* Three readers walk three collections: an analyzer the dump catalog by   *)
(* keyset cursor (receivedAt, dumpId), an operator the cases by page       *)
(* offset, a poller the audit feed by rowid.  Each page is one request and *)
(* reads the ledger as it is then; between pages uploads begin, dumps      *)
(* change phase, cases are created and events are appended.  Identifiers   *)
(* are random, so a new row may sort anywhere among rows of its timestamp. *)
(* A walk is the sequence of its pages, a page the set of its rows.        *)
(***************************************************************************)
EXTENDS Integers, Sequences, FiniteSets

CONSTANTS
  DumpIds,      \* numbers, in the order of the identifiers
  MaxTime,      \* last value of the clock
  PageSize,     \* MAX_CATALOG_PAGE and MAX_CASE_LIST_ITEMS
  CaseIds,      \* numbers, in the order of the identifiers
  RecentCases,  \* MAX_DASHBOARD_RECENT_CASES
  MaxEvents,    \* events appended
  MaxLimit      \* MAX_AUDIT_FEED_PAGE

Actions == {"AcceptDump", "RejectDump"}
Filters == {"all", "available"}
NoCursor == <<>>

\* What the constants are taken to be.
ScanBounds ==
  /\ {MaxTime, RecentCases, MaxEvents} \subseteq Nat /\ {PageSize, MaxLimit} \subseteq Nat \ {0}
  /\ DumpIds \subseteq Nat /\ CaseIds \subseteq Nat

VARIABLES
  clock,     \* the engine's clock
  dumps,     \* rows of the catalog: <<receivedAt, dumpId>> -> phase
  scan,      \* the analyzer's walk
  cases,     \* the cases in the order they were created
  walk,      \* the operator's walk
  events,    \* the audit trail; the rowid is the index
  poll       \* the poller

catalogVars == <<clock, dumps, scan, cases, walk, events, poll>>

-----------------------------------------------------------------------------
(* The catalog.                                                            *)

Earlier(a, b) == a[1] < b[1] \/ (a[1] = b[1] /\ a[2] < b[2])
Matches(filter, phase) == filter = "all" \/ phase = filter

\* Seeded fault: the cursor is compared by its timestamp alone.
AfterTime(key, after) == after = NoCursor \/ key[1] > after[1]

\* catalogWhere: the rows after the cursor.
After(key, after) == after = NoCursor \/ Earlier(after, key)

\* LIMIT: the first rows of an order.
Limited(keys, size) == {k \in keys : Cardinality({j \in keys : Earlier(j, k)}) < size}
Latest(keys) == CHOOSE k \in keys : \A j \in keys : j = k \/ Earlier(j, k)

More(keys) == Cardinality(keys) > PageSize

\* searchDumps: PageSize + 1 rows are read, to know whether there are more.
SearchDumps(filter, after) ==
  LET keys == {k \in DOMAIN dumps : Matches(filter, dumps[k]) /\ After(k, after)}
      page == Limited(keys, PageSize)
  IN  [rows |-> page, next |-> IF More(keys) THEN Latest(page) ELSE NoCursor]

BeginUpload(d) ==
  /\ \A k \in DOMAIN dumps : k[2] # d
  /\ dumps' = [k \in DOMAIN dumps \cup {<<clock, d>>} |->
                IF k \in DOMAIN dumps THEN dumps[k] ELSE "receiving"]
  /\ scan' = [scan EXCEPT !.arrived = IF scan.state = "open" /\ scan.filter = "all"
                                      THEN @ \cup {<<clock, d>>} ELSE @]
  /\ UNCHANGED <<clock, cases, walk, events, poll>>

\* A dump goes through its phases; rows are never deleted.
ChangePhase(k) ==
  /\ \E p \in {"available", "deleted"} :
       /\ <<dumps[k], p>> \in {<<"receiving", "available">>, <<"available", "deleted">>}
       /\ dumps' = [dumps EXCEPT ![k] = p]
       /\ scan' = [scan EXCEPT !.steady = IF Matches(scan.filter, p) THEN @ ELSE @ \ {k}]
  /\ UNCHANGED <<clock, cases, walk, events, poll>>

Tick == clock < MaxTime /\ clock' = clock + 1 /\ UNCHANGED <<dumps, scan, cases, walk, events, poll>>

StartScan ==
  /\ scan.state = "idle"
  /\ \E f \in Filters :
       scan' = [state |-> "open", filter |-> f, after |-> NoCursor, listed |-> <<>>,
                steady |-> {k \in DOMAIN dumps : Matches(f, dumps[k])}, arrived |-> {}]
  /\ UNCHANGED <<clock, dumps, cases, walk, events, poll>>

\* One page; without a next cursor the walk is over.
ScanPage ==
  /\ scan.state = "open"
  /\ LET page == SearchDumps(scan.filter, scan.after)
     IN  scan' = [scan EXCEPT !.listed = Append(@, page.rows), !.after = page.next,
                              !.state = IF page.next = NoCursor THEN "done" ELSE "open"]
  /\ UNCHANGED <<clock, dumps, cases, walk, events, poll>>

-----------------------------------------------------------------------------
(* The cases.                                                              *)

Existing == {cases[i] : i \in DOMAIN cases}

\* The place of a case in the order of the snapshot, from 0 on.
Place(c) == Cardinality({d \in Existing : d < c})

NextOffset(start) == start + PageSize

\* searchCases: a slice of the ordered cases; a page before the last is full.
SearchCases(start) ==
  [cases |-> {c \in Existing : start <= Place(c) /\ Place(c) < start + PageSize},
   next |-> NextOffset(start), last |-> start + PageSize >= Cardinality(Existing)]

CreateCase(c) ==
  /\ c \notin Existing /\ cases' = Append(cases, c)
  /\ UNCHANGED <<clock, dumps, scan, walk, events, poll>>

StartWalk ==
  /\ walk.state = "idle"
  /\ walk' = [state |-> "open", start |-> 0, listed |-> {}, present |-> Existing]
  /\ UNCHANGED <<clock, dumps, scan, cases, events, poll>>

WalkPage ==
  /\ walk.state = "open"
  /\ LET page == SearchCases(walk.start)
     IN  walk' = [walk EXCEPT !.listed = @ \cup page.cases, !.start = page.next,
                              !.state = IF page.last THEN "done" ELSE "open"]
  /\ UNCHANGED <<clock, dumps, scan, cases, events, poll>>

\* dashboard: the last cases of the snapshot.
DashboardRecent == {c \in Existing : Cardinality({d \in Existing : d > c}) < RecentCases}

-----------------------------------------------------------------------------
(* The feed.                                                               *)

AppendEvent(a) ==
  /\ Len(events) < MaxEvents /\ events' = Append(events, a)
  /\ UNCHANGED <<clock, dumps, scan, cases, walk, poll>>

\* auditFeedPageSize: into 1..MaxLimit.
PageLimit(limit) == IF limit < 1 THEN 1 ELSE IF limit > MaxLimit THEN MaxLimit ELSE limit

MatchingAfter(allowed, cursor) == {r \in DOMAIN events : r > cursor /\ events[r] \in allowed}

\* readAuditEvents: the first rowids, and the last of them or the cursor of the
\* request.
FirstRowids(rows, size) == {r \in rows : Cardinality({s \in rows : s < r}) < size}
LastRowid(page, cursor) ==
  IF page = {} THEN cursor ELSE CHOOSE r \in page : \A s \in page : s <= r

Poll(limit) ==
  /\ LET page == FirstRowids(MatchingAfter(poll.allowed, poll.cursor), PageLimit(limit))
     IN  poll' = [poll EXCEPT !.read = IF page = {} THEN @ ELSE Append(@, page), !.cursor = LastRowid(page, @)]
  /\ UNCHANGED <<clock, dumps, scan, cases, walk, events>>

-----------------------------------------------------------------------------
ScanInit ==
  /\ clock = 0 /\ dumps = [k \in {} |-> "receiving"] /\ cases = <<>> /\ events = <<>>
  /\ scan = [state |-> "idle", filter |-> "all", after |-> NoCursor, listed |-> <<>>,
             steady |-> {}, arrived |-> {}]
  /\ walk = [state |-> "idle", start |-> 0, listed |-> {}, present |-> {}]
  /\ poll \in {[allowed |-> a, cursor |-> 0, read |-> <<>>] : a \in SUBSET Actions}

\* The three collections share nothing.
CatalogNext ==
  \/ Tick
  \/ \E d \in DumpIds : BeginUpload(d)
  \/ \E k \in DOMAIN dumps : ChangePhase(k)
  \/ StartScan \/ ScanPage
CaseListNext == StartWalk \/ WalkPage \/ \E c \in CaseIds : CreateCase(c)
FeedNext ==
  \/ \E a \in Actions : AppendEvent(a)
  \/ \E limit \in 0..(MaxLimit + 1) : Poll(limit)

ScanNext == CatalogNext \/ CaseListNext \/ FeedNext

ScanSpec == ScanInit /\ [][ScanNext]_catalogVars

-----------------------------------------------------------------------------
(* Properties.                                                             *)

AllOf(pages) == UNION {pages[i] : i \in DOMAIN pages}

\* A walk of the catalog lists its dumps in order and none twice, and when it
\* has ended it listed every dump that was there when it began and matched its
\* filter all along, whatever arrived or changed between two pages (searchDumps,
\* the keyset cursor).
ScanIsExact ==
  /\ \A i, j \in DOMAIN scan.listed :
       i < j => \A k \in scan.listed[i], l \in scan.listed[j] : Earlier(k, l)
  /\ scan.state = "done" => scan.steady \subseteq AllOf(scan.listed)

\* A walk of the cases lists every case that was there when it began: cases
\* are never deleted, so an insertion can only push rows to later pages
\* (searchCases, the offset cursor).
WalkIsComplete == walk.state = "done" => walk.present \subseteq walk.listed

\* The poller has read each event its filter allows exactly once and in
\* order, up to its cursor, for any limit it asks for (readAuditEvents).
FeedIsExact ==
  /\ AllOf(poll.read) = {r \in DOMAIN events : r <= poll.cursor /\ events[r] \in poll.allowed}
  /\ \A i, j \in DOMAIN poll.read : i < j => \A r \in poll.read[i], s \in poll.read[j] : r < s

\* "dumps arriving mid-scan appear on a later page": a dump that arrived
\* between two pages of a walk is listed when the walk has ended.
ArrivalsAreListed == scan.state = "done" => scan.arrived \subseteq AllOf(scan.listed)

\* The dashboard's recentCases are the cases created last.
RecentCasesAreRecent ==
  DashboardRecent = {cases[i] : i \in {j \in DOMAIN cases : j > Len(cases) - RecentCases}}

\* The three walks list what they should, together.
WalksAreExact == ScanIsExact /\ WalkIsComplete /\ FeedIsExact
=============================================================================
