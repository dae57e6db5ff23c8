----------------------------- MODULE DetailPage -----------------------------
(***************************************************************************)
(* An operator's detail page (case or dump): useResource loads what the    *)
(* route names, useMutationFlow runs the forms of the page, and a mutation *)
(* that succeeds reloads.                                                  *)
(*                                                                         *)
(* React separates three things the page's code writes as one: a route or  *)
(* a generation is committed, its effect runs later, and a promise may     *)
(* settle in between.  The server's record of a route is its version,      *)
(* which any mutation moves on, this page's or another operator's.         *)
(***************************************************************************)
EXTENDS Integers, Sequences, SequencesExt

CONSTANTS
  Routes,       \* the cases (or dumps) the page is opened on
  Flows,        \* the forms on the page
  MaxVersion,   \* bound on the versions of a record
  MaxActs       \* bound on what the operator does

\* What the constants are taken to be.
PageFlows == Flows \subseteq {"workflow", "link", "revoke", "retention"}

VARIABLES
  server,      \* the version of each record
  told,        \* the newest version of each record a mutation's answer told the page of
  acts,        \* what the operator has done so far
  route,       \* the committed route
  due,         \* the effect of the last commit has still to run
  gen,         \* a reload's generation has still to be committed
  keepStale,   \* keepStaleRef
  shown,       \* what is on the screen
  loads,       \* requests for the record, oldest first
  flows,       \* state of each form
  confirming   \* the dialog that is open

detailVars == <<server, told, acts, route, due, gen, keepStale, shown, loads, flows, confirming>>

Loading == [status |-> "loading", of |-> "none", version |-> 0]
IdleFlow == [at |-> "idle", result |-> "none", of |-> "none", version |-> 0]

\* The forms live inside the ready page: without it they are unmounted, which
\* aborts their requests and forgets their results.
Show(screen) ==
  /\ shown' = screen
  /\ flows' = IF screen.status = "ready" THEN flows ELSE [o \in Flows |-> IdleFlow]
  /\ confirming' = IF screen.status = "ready" THEN confirming ELSE "none"

-----------------------------------------------------------------------------
(* useResource.                                                            *)

\* Seeded fault: only a change of route ignores the earlier requests.
SupersededByRoute(list) ==
  [i \in DOMAIN list |-> IF list[i].of = route THEN list[i] ELSE [list[i] EXCEPT !.settled = TRUE]]

\* The cleanup of the previous effect.
Superseded(list) == [i \in DOMAIN list |-> [list[i] EXCEPT !.settled = TRUE]]

\* The effect of a commit: abort, show the loading state or keep what is on
\* the screen, send.
RunEffect ==
  /\ due /\ due' = FALSE
  /\ keepStale' = FALSE
  /\ IF keepStale THEN UNCHANGED <<shown, flows, confirming>> ELSE Show(Loading)
  /\ loads' = Append(Superseded(loads), [of |-> route, at |-> "sent", version |-> 0, settled |-> FALSE])
  /\ UNCHANGED <<server, told, acts, route, gen>>

\* React runs the effects of one commit before it renders the next.
CommitReload ==
  /\ gen /\ ~due
  /\ gen' = FALSE /\ due' = TRUE
  /\ UNCHANGED <<server, told, acts, route, keepStale, shown, loads, flows, confirming>>

Reload == keepStale' = TRUE /\ gen' = TRUE

\* RouterProvider commits a navigation as a transition, after any reload.
Navigate(r) ==
  /\ acts < MaxActs /\ acts' = acts + 1
  /\ r # route /\ ~due /\ ~gen
  /\ route' = r /\ due' = TRUE
  /\ UNCHANGED <<server, told, gen, keepStale, shown, loads, flows, confirming>>

\* ResourceError's button.
Retry ==
  /\ acts < MaxActs /\ acts' = acts + 1
  /\ shown.status = "error" /\ Reload
  /\ UNCHANGED <<server, told, route, due, shown, loads, flows, confirming>>

\* The server answers a load, or it fails.
AnswerLoad(i) ==
  /\ loads[i].at = "sent"
  /\ \/ loads' = [loads EXCEPT ![i].at = "ready", ![i].version = server[loads[i].of]]
     \/ loads' = [loads EXCEPT ![i].at = "error"]
  /\ UNCHANGED <<server, told, acts, route, due, gen, keepStale, shown, flows, confirming>>

\* Whether an answer reaches the screen.
Settles(load) == ~load.settled

DeliverLoad(i) ==
  /\ loads[i].at # "sent"
  /\ loads' = RemoveAt(loads, i)
  /\ IF Settles(loads[i])
     THEN Show([status |-> loads[i].at, of |-> loads[i].of, version |-> loads[i].version])
     ELSE UNCHANGED <<shown, flows, confirming>>
  /\ UNCHANGED <<server, told, acts, route, due, gen, keepStale>>

-----------------------------------------------------------------------------
(* useMutationFlow and the forms.                                          *)

\* run(): the button is disabled while a request is pending.
Run(o) ==
  /\ o \in Flows /\ acts < MaxActs /\ acts' = acts + 1
  /\ shown.status = "ready" /\ flows[o].at = "idle"
  /\ flows' = [flows EXCEPT ![o] = [at |-> "sent", result |-> "none", of |-> shown.of, version |-> 0]]
  /\ UNCHANGED <<server, told, route, due, gen, keepStale, shown, loads>>

Open(dialog, o) ==
  /\ o \in Flows /\ shown.status = "ready" /\ confirming = "none" /\ flows[o].at = "idle"
  /\ confirming' = dialog
  /\ UNCHANGED <<server, told, acts, route, due, gen, keepStale, shown, loads, flows>>

\* ActionFlowPanel: closing a case is confirmed first, the dialog stays until
\* the answer; the other transitions run at once.
RequestTransition ==
  \/ Open("close", "workflow")
  \/ Run("workflow") /\ (confirming = "none" \/ confirming = "close") /\ UNCHANGED confirming

CreateLink == Run("link") /\ confirming = "none" /\ UNCHANGED confirming

\* GrantRow: the dialog closes as the request leaves.
RevokeGrant ==
  \/ Open("revoke", "revoke")
  \/ confirming = "revoke" /\ Run("revoke") /\ confirming' = "none"

SetRetention == Run("retention") /\ UNCHANGED confirming

\* The dialog's cancel button and Escape, unless a request is pending.
CancelDialog ==
  /\ confirming # "none"
  /\ confirming = "close" => flows["workflow"].at = "idle"
  /\ confirming' = "none"
  /\ UNCHANGED <<server, told, acts, route, due, gen, keepStale, shown, loads, flows>>

\* The server applies the mutation, or refuses it.
AnswerMutation(o) ==
  /\ flows[o].at = "sent"
  /\ \/ /\ server[flows[o].of] < MaxVersion
        /\ server' = [server EXCEPT ![flows[o].of] = @ + 1]
        /\ flows' = [flows EXCEPT ![o].at = "applied", ![o].version = server[flows[o].of] + 1]
     \/ flows' = [flows EXCEPT ![o].at = "refused"] /\ UNCHANGED server
  /\ UNCHANGED <<told, acts, route, due, gen, keepStale, shown, loads, confirming>>

\* onChanged, onCreated, onRevoked.
Changed == Reload

DeliverMutation(o) ==
  LET flow == flows[o] IN
  /\ flow.at \in {"applied", "refused"}
  /\ flows' = [flows EXCEPT ![o].at = "idle", ![o].result = IF flow.at = "applied" THEN "done" ELSE "failed"]
  /\ confirming' = IF o = "workflow" THEN "none" ELSE confirming
  /\ IF flow.at = "applied"
     THEN /\ told' = [told EXCEPT ![flow.of] = IF @ > flow.version THEN @ ELSE flow.version]
          /\ Changed
     ELSE UNCHANGED <<told, gen, keepStale>>
  /\ UNCHANGED <<server, acts, route, due, shown, loads>>

\* Another operator, or a request this page aborted that the server carries out.
Elsewhere(r) ==
  /\ server[r] < MaxVersion
  /\ server' = [server EXCEPT ![r] = @ + 1]
  /\ UNCHANGED <<told, acts, route, due, gen, keepStale, shown, loads, flows, confirming>>

-----------------------------------------------------------------------------
DetailInit ==
  /\ server = [r \in Routes |-> 1] /\ told = [r \in Routes |-> 0] /\ acts = 0
  /\ route \in Routes /\ due = TRUE /\ gen = FALSE /\ keepStale = FALSE
  /\ shown = Loading /\ loads = <<>> /\ flows = [o \in Flows |-> IdleFlow] /\ confirming = "none"

AnswerSome == \E i \in DOMAIN loads : AnswerLoad(i)
DeliverSome == \E i \in DOMAIN loads : DeliverLoad(i)

DetailNext ==
  \/ RunEffect \/ CommitReload \/ (\E r \in Routes : Navigate(r)) \/ Retry \/ AnswerSome \/ DeliverSome
  \/ RequestTransition \/ CreateLink \/ RevokeGrant \/ SetRetention \/ CancelDialog
  \/ (\E o \in Flows : AnswerMutation(o) \/ DeliverMutation(o)) \/ (\E r \in Routes : Elsewhere(r))

\* React runs what it scheduled; loads end, by an answer or by a failure.
DetailSpec ==
  /\ DetailInit /\ [][DetailNext]_detailVars
  /\ WF_detailVars(RunEffect) /\ WF_detailVars(CommitReload)
  /\ WF_detailVars(AnswerSome) /\ WF_detailVars(DeliverSome)

-----------------------------------------------------------------------------
(* Properties.                                                             *)

\* Nothing is scheduled, and no request the page still listens to is out.
AtRest == ~due /\ ~gen /\ \A i \in DOMAIN loads : loads[i].settled

\* At rest the page shows its own route, and nothing older than what its own
\* mutations were told: useResource and the reload after a mutation agree.
RestsOnCurrent ==
  AtRest => /\ shown.status \in {"ready", "error"} /\ shown.of = route
            /\ shown.status = "ready" => shown.version >= told[route]

\* The record on the screen never goes back to an older version: "never lets
\* an older response overwrite newer state".
KeepsUp ==
  (shown.status = "ready" /\ shown'.status = "ready" /\ shown.of = shown'.of)
    => shown'.version >= shown.version

\* The result of a mutation (a link's secret is shown nowhere else) leaves the
\* screen only for another submission or another route.
ResultSurvivesRefetch ==
  [][\A o \in Flows : (flows[o].result = "done" /\ flows'[o].result # "done")
       => flows'[o].at = "sent" \/ shown'.status = "loading"]_detailVars

\* A retry from an error shows the loading state: while the error is on the
\* screen nothing is being loaded.
ErrorMeansIdle == shown.status = "error" => \A i \in DOMAIN loads : loads[i].settled
=============================================================================
