--------------------------- MODULE OperationsPanel ---------------------------
(***************************************************************************)
(* The operations page: useOperationsPolling, and the export panel with    *)
(* useExportList on its ready view.                                        *)
(*                                                                         *)
(* Both hooks send one request at a time: a refresh, a tick or a wake-up   *)
(* that finds one outstanding does nothing.  The list is polled only while *)
(* its last answer had a bundle running.  There is one bundle; other       *)
(* operators, and requests whose panel is gone, make and delete it too.    *)
(***************************************************************************)
EXTENDS Integers

CONSTANTS
  MaxActs   \* bound on what operators do

\* What the constants are taken to be.
PanelBounds == MaxActs \in Nat

VARIABLES
  bundle,    \* server: "none", "running", "sealed" or "failed"
  owned,     \* the bundle is the one the panel's create was told of
  acts,      \* what operators have done so far
  hidden,    \* document.hidden
  summary,   \* useOperationsPolling: phase, busy and the request
  list,      \* useExportList: phase, the bundle shown, busy, runningRef, the request
  create,    \* the create flow
  delete     \* the row's delete flow

panelVars == <<bundle, owned, acts, hidden, summary, list, create, delete>>

NoRequest == [at |-> "none", bundle |-> "none"]
Sent == [at |-> "sent", bundle |-> "none"]
NoFlow == [at |-> "idle", result |-> "none"]
NewList == [phase |-> "loading", shown |-> "none", busy |-> TRUE, running |-> FALSE, request |-> Sent]
GoneList == [phase |-> "gone", shown |-> "none", busy |-> FALSE, running |-> FALSE, request |-> NoRequest]

Mounted == list.phase # "gone"

-----------------------------------------------------------------------------
(* fetchOnce of the two hooks.                                             *)

FetchSummary == IF summary.busy THEN summary ELSE [summary EXCEPT !.busy = TRUE, !.request = Sent]

FetchList == IF list.busy THEN list ELSE [list EXCEPT !.busy = TRUE, !.request = Sent]

Act == acts < MaxActs /\ acts' = acts + 1

\* The page's "Refresh", and ResourceError's retry.
Refresh ==
  /\ Act /\ ~summary.busy /\ summary' = FetchSummary
  /\ UNCHANGED <<bundle, owned, hidden, list, create, delete>>

RefreshList ==
  /\ Act /\ Mounted /\ ~list.busy /\ list' = FetchList
  /\ UNCHANGED <<bundle, owned, hidden, summary, create, delete>>

\* The intervals.
TickSummary ==
  /\ ~hidden /\ ~summary.busy /\ summary' = FetchSummary
  /\ UNCHANGED <<bundle, owned, acts, hidden, list, create, delete>>

TickList ==
  /\ Mounted /\ ~hidden /\ ~list.busy /\ list.running /\ list' = FetchList
  /\ UNCHANGED <<bundle, owned, acts, hidden, summary, create, delete>>

\* visibilitychange wakes both hooks, the list only for a running bundle.
Visibility ==
  /\ Act /\ hidden' = ~hidden
  /\ summary' = IF hidden THEN FetchSummary ELSE summary
  /\ list' = IF hidden /\ Mounted /\ list.running THEN FetchList ELSE list
  /\ UNCHANGED <<bundle, owned, create, delete>>

-----------------------------------------------------------------------------
(* The answers.                                                            *)

AnswerSummary ==
  /\ summary.request.at = "sent"
  /\ \E at \in {"ready", "error"} : summary' = [summary EXCEPT !.request.at = at]
  /\ UNCHANGED <<bundle, owned, acts, hidden, list, create, delete>>

AnswerListOk ==
  /\ list.request.at = "sent" /\ list' = [list EXCEPT !.request = [at |-> "ready", bundle |-> bundle]]
  /\ UNCHANGED <<bundle, owned, acts, hidden, summary, create, delete>>

AnswerListFails ==
  /\ list.request.at = "sent" /\ list' = [list EXCEPT !.request.at = "error"]
  /\ UNCHANGED <<bundle, owned, acts, hidden, summary, create, delete>>

\* The ready view, with the panel and its flows, comes and goes with the phase.
DeliverSummary ==
  /\ summary.request.at \in {"ready", "error"}
  /\ summary' = [phase |-> summary.request.at, busy |-> FALSE, request |-> NoRequest]
  /\ IF summary'.phase = "error" THEN list' = GoneList /\ create' = NoFlow /\ delete' = NoFlow
     ELSE list' = (IF Mounted THEN list ELSE NewList) /\ UNCHANGED <<create, delete>>
  /\ UNCHANGED <<bundle, owned, acts, hidden>>

\* The catch: runningRef is left as it was.
Failed == [list EXCEPT !.phase = "error", !.shown = "none", !.busy = FALSE, !.request = NoRequest]

DeliverList ==
  /\ list.request.at \in {"ready", "error"}
  /\ list' = IF list.request.at = "error" THEN Failed
             ELSE [phase |-> "ready", shown |-> list.request.bundle, busy |-> FALSE,
                   running |-> list.request.bundle = "running", request |-> NoRequest]
  \* A row that is not listed any more takes its delete flow with it.
  /\ delete' = IF list'.shown = "none" THEN NoFlow ELSE delete
  /\ UNCHANGED <<bundle, owned, acts, hidden, summary, create>>

-----------------------------------------------------------------------------
(* ExportPanel.                                                            *)

HandleCreate ==
  /\ Act /\ Mounted /\ create.at = "idle" /\ list.shown # "running"
  /\ create' = [at |-> "sent", result |-> "none"]
  /\ UNCHANGED <<bundle, owned, hidden, summary, list, delete>>

\* The server writes one bundle at a time, here one at all; its answer may be
\* lost.
AnswerCreate ==
  /\ create.at = "sent"
  /\ \/ /\ bundle = "none" /\ bundle' = "running"
        /\ \E at \in {"created", "refused"} : create' = [create EXCEPT !.at = at]
        /\ owned' = (create'.at = "created")
     \/ create' = [create EXCEPT !.at = "refused"] /\ UNCHANGED <<bundle, owned>>
  /\ UNCHANGED <<acts, hidden, summary, list, delete>>

\* Another operator's create, or one that was under way when the panel went.
CreatedElsewhere ==
  /\ Act /\ bundle = "none" /\ bundle' = "running" /\ owned' = FALSE
  /\ UNCHANGED <<hidden, summary, list, create, delete>>

DeliverCreate ==
  /\ create.at \in {"created", "refused"}
  /\ create' = [at |-> "idle", result |-> create.at]
  /\ list' = IF create.at = "created" THEN FetchList ELSE list
  /\ UNCHANGED <<bundle, owned, acts, hidden, summary, delete>>

\* ExportRow: a confirmed delete of a bundle that is not running.
HandleConfirmDelete ==
  /\ Act /\ list.shown \in {"sealed", "failed"} /\ delete.at = "idle"
  /\ delete' = [at |-> "sent", result |-> "none"]
  /\ UNCHANGED <<bundle, owned, hidden, summary, list, create>>

AnswerDelete ==
  /\ delete.at = "sent"
  /\ \/ /\ bundle \in {"sealed", "failed"} /\ bundle' = "none"
        /\ \E at \in {"deleted", "refused"} : delete' = [delete EXCEPT !.at = at]
     \/ delete' = [delete EXCEPT !.at = "refused"] /\ UNCHANGED bundle
  /\ UNCHANGED <<owned, acts, hidden, summary, list, create>>

\* Likewise a delete, which leaves the row's own nothing to delete.
DeletedElsewhere ==
  /\ Act /\ bundle \in {"sealed", "failed"} /\ bundle' = "none"
  /\ delete' = IF delete.at = "sent" THEN [delete EXCEPT !.at = "refused"] ELSE delete
  /\ UNCHANGED <<owned, hidden, summary, list, create>>

DeliverDelete ==
  /\ delete.at \in {"deleted", "refused"}
  /\ delete' = [at |-> "idle", result |-> delete.at]
  /\ list' = IF delete.at = "deleted" THEN FetchList ELSE list
  /\ UNCHANGED <<bundle, owned, acts, hidden, summary, create>>

ExportEnds ==
  /\ bundle = "running" /\ \E end \in {"sealed", "failed"} : bundle' = end
  /\ UNCHANGED <<owned, acts, hidden, summary, list, create, delete>>

-----------------------------------------------------------------------------
PanelInit ==
  /\ bundle = "none" /\ owned = FALSE /\ acts = 0 /\ hidden = FALSE
  /\ summary = [phase |-> "loading", busy |-> TRUE, request |-> Sent] /\ list = GoneList
  /\ create = NoFlow /\ delete = NoFlow

PanelNext ==
  \/ Refresh \/ RefreshList \/ TickSummary \/ TickList \/ Visibility
  \/ AnswerSummary \/ AnswerListOk \/ AnswerListFails \/ DeliverSummary \/ DeliverList
  \/ HandleCreate \/ AnswerCreate \/ DeliverCreate \/ HandleConfirmDelete \/ AnswerDelete \/ DeliverDelete \/ ExportEnds
  \/ CreatedElsewhere \/ DeletedElsewhere

\* The timers run, exports and requests end; of the requests for the list
\* some succeed if it is asked for again and again.
PanelSpec ==
  /\ PanelInit /\ [][PanelNext]_panelVars
  /\ WF_panelVars(TickList) /\ WF_panelVars(DeliverList) /\ SF_panelVars(AnswerListOk) /\ WF_panelVars(ExportEnds)

-----------------------------------------------------------------------------
(* Properties.                                                             *)

\* A bundle that was seen running is followed to its end, through failed
\* polls, while the panel is on a visible page.
EndIsShown ==
  (list.running /\ ~hidden) ~> ((list.phase = "ready" /\ list.shown # "running") \/ hidden \/ ~Mounted)

\* The guard of the list is always given back: a request that is lost, or one
\* that fails, does not stop the panel's refreshes for good.
ListComesBack == list.busy ~> ~list.busy

\* "Show the new running bundle immediately": after the answer to the create
\* and the load that follows it, the bundle is on the list.
CreatedIsListed ==
  (owned /\ create.result = "created" /\ list.phase = "ready" /\ ~list.busy /\ bundle # "none") => list.shown # "none"
=============================================================================
