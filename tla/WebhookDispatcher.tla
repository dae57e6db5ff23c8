------------------------- MODULE WebhookDispatcher -------------------------
(***************************************************************************)
(* The webhook dispatcher: a timer that follows the audit feed and POSTs   *)
(* each event to the subscriptions that want it, with the durable rows of  *)
(* subscriptions and deliveries.                                           *)
(*                                                                         *)
(* One tick visits the subscriptions one after another.  It keeps the      *)
(* thread except while a POST is in flight; then other requests may create *)
(* or delete subscriptions and append events.  Every statement on the      *)
(* database is a step of its own, because the process can die after it.    *)
(*                                                                         *)
(* close() of main closes the dispatcher and the database in one turn and  *)
(* waits for no POST; an answer that arrives later finds no database.      *)
(***************************************************************************)
EXTENDS Naturals, FiniteSets

CONSTANTS
  Subs,         \* subscription ids; each is created at most once
  MaxEvents,    \* bound: audit rows in a behaviour
  Wants,        \* Wants[s]: the rowids that pass the filter of s
  MaxAttempts,  \* maxAttempts
  PageSize,     \* pageSize
  MaxCrashes,   \* bound: crashes
  MaxStops,     \* bound: shutdowns
  MaxFaults,    \* bound: failed statements
  None

Events == 1..MaxEvents

ASSUME DispatcherBounds ==
  /\ MaxEvents \in Nat /\ MaxAttempts \in Nat \ {0} /\ PageSize \in Nat \ {0}
  /\ MaxCrashes \in Nat /\ MaxStops \in Nat /\ MaxFaults \in Nat
ASSUME WantsAreEvents == Wants \in [Subs -> SUBSET Events]
ASSUME NoneIsNoSub == None \notin Subs

VARIABLES
  events,      \* auditLiveEdge
  subs,        \* webhook_subscriptions: state, cursor_rowid, and the first cursor
  deliveries,  \* webhook_deliveries, one row or none per subscription and event
  mode,        \* of the process
  tick,        \* the running tick: phase, subscription, event, what is left to do
  posts,       \* posts[s][e]: POSTs of e that left for the receiver of s
  crashes, stops, faults

vars == <<events, subs, deliveries, mode, tick, posts, crashes, stops, faults>>

Statuses == {"none", "pending", "delivered", "exhausted"}
Settled == {"delivered", "exhausted"}

SubRow == [state: {"absent", "active", "deleted"}, cursor: 0..MaxEvents, since: 0..MaxEvents]

\* next: next_attempt_at, null or past, or in the future.
DeliveryRow == [status: Statuses, attempts: 0..MaxAttempts, next: {"due", "later"}]
NoDelivery == [status |-> "none", attempts |-> 0, next |-> "due"]

Phases == {"idle", "list", "page", "post", "waiting", "ok", "failed", "settle"}

\* attempts: those of the delivery row as it was read before the POST.
TickRecord ==
  [phase: Phases, sub: Subs \cup {None}, event: 0..MaxEvents,
   attempts: 0..MaxAttempts, todo: SUBSET Subs, page: SUBSET Events]

Resting == [phase |-> "idle", sub |-> None, event |-> 0, attempts |-> 0, todo |-> {}, page |-> {}]

DispatcherInit ==
  /\ events = 0
  /\ subs = [s \in Subs |-> [state |-> "absent", cursor |-> 0, since |-> 0]]
  /\ deliveries = [s \in Subs |-> [e \in Events |-> NoDelivery]]
  /\ mode = "down"
  /\ tick = Resting
  /\ posts = [s \in Subs |-> [e \in Events |-> 0]]
  /\ crashes = 0 /\ stops = 0 /\ faults = 0

-----------------------------------------------------------------------------
(* Other requests.                                                         *)

\* A request can run: the tick does not hold the thread.
Serving == mode = "up" /\ tick.phase \in {"idle", "waiting"}

\* Any engine command; its audit row gets the next rowid.
AppendEvent ==
  /\ Serving
  /\ events < MaxEvents
  /\ events' = events + 1
  /\ UNCHANGED <<subs, deliveries, mode, tick, posts, crashes, stops, faults>>

CreateWebhook(s) ==
  /\ Serving
  /\ subs[s].state = "absent"
  /\ subs' = [subs EXCEPT ![s] = [state |-> "active", cursor |-> events, since |-> events]]
  /\ UNCHANGED <<events, deliveries, mode, tick, posts, crashes, stops, faults>>

\* The deliveries go with the subscription (ON DELETE CASCADE).
DeleteWebhook(s) ==
  /\ Serving
  /\ subs[s].state = "active"
  /\ subs' = [subs EXCEPT ![s].state = "deleted"]
  /\ deliveries' = [deliveries EXCEPT ![s] = [e \in Events |-> NoDelivery]]
  /\ UNCHANGED <<events, mode, tick, posts, crashes, stops, faults>>

-----------------------------------------------------------------------------
(* The tick.                                                               *)

TickStarts ==
  /\ mode = "up" /\ tick.phase = "idle"
  /\ tick' = [Resting EXCEPT !.phase = "list", !.todo = {s \in Subs : subs[s].state = "active"}]
  /\ UNCHANGED <<events, subs, deliveries, mode, posts, crashes, stops, faults>>

\* readAuditEvents(cursor, filter, pageSize).  The cursor is the one listed
\* when the tick began; nobody else moves it.
FirstPage(s) ==
  LET after == {e \in Wants[s] : subs[s].cursor < e /\ e <= events} IN
  {e \in after : Cardinality({f \in after : f < e}) < PageSize}

\* In creation order in the code; subscriptions share no state.
TakeSubscription(s) ==
  /\ tick.phase = "list"
  /\ s \in tick.todo
  /\ tick' = [tick EXCEPT !.phase = "page", !.sub = s, !.todo = @ \ {s}, !.page = FirstPage(s)]
  /\ UNCHANGED <<events, subs, deliveries, mode, posts, crashes, stops, faults>>

TickEnds ==
  /\ tick.phase = "list"
  /\ tick.todo = {}
  /\ tick' = Resting
  /\ UNCHANGED <<events, subs, deliveries, mode, posts, crashes, stops, faults>>

\* e is the next event of the page of s.
NextEvent(s, e) ==
  /\ tick.phase = "page"
  /\ tick.sub = s
  /\ e \in tick.page
  /\ \A f \in tick.page : e <= f

\* deliverPage returns.
PageOver == [tick EXCEPT !.phase = "list", !.sub = None, !.event = 0, !.attempts = 0, !.page = {}]

PageDrained ==
  /\ tick.phase = "page"
  /\ tick.page = {}
  /\ tick' = PageOver
  /\ UNCHANGED <<events, subs, deliveries, mode, posts, crashes, stops, faults>>

\* advanceCursor: an UPDATE that finds no row when s was deleted.
Advanced(s, e) ==
  [subs EXCEPT ![s] = IF @.state = "active" /\ @.cursor < e THEN [@ EXCEPT !.cursor = e] ELSE @]

\* A row that a crash left settled ahead of the cursor.
SkipSettled(s, e) ==
  /\ NextEvent(s, e)
  /\ deliveries[s][e].status \in Settled
  /\ subs' = Advanced(s, e)
  /\ tick' = [tick EXCEPT !.page = @ \ {e}]
  /\ UNCHANGED <<events, deliveries, mode, posts, crashes, stops, faults>>

\* Seeded fault: an event that waits for its retry lets the later ones pass.
PassBlocked(s, e) ==
  /\ NextEvent(s, e)
  /\ deliveries[s][e].status = "pending" /\ deliveries[s][e].next = "later"
  /\ tick' = [tick EXCEPT !.page = @ \ {e}]
  /\ UNCHANGED <<events, subs, deliveries, mode, posts, crashes, stops, faults>>

\* The retry is not due: the whole page waits.
Blocked(s, e) ==
  /\ NextEvent(s, e)
  /\ deliveries[s][e].status = "pending" /\ deliveries[s][e].next = "later"
  /\ tick' = PageOver
  /\ UNCHANGED <<events, subs, deliveries, mode, posts, crashes, stops, faults>>

\* Seeded fault: a row whose retry is due is held back like one that waits.
RetryHeldBack(s, e) ==
  /\ NextEvent(s, e)
  /\ deliveries[s][e].status = "pending" /\ deliveries[s][e].next = "due"
  /\ tick' = PageOver
  /\ UNCHANGED <<events, subs, deliveries, mode, posts, crashes, stops, faults>>

Retry(s, e) ==
  /\ NextEvent(s, e)
  /\ deliveries[s][e].status = "pending" /\ deliveries[s][e].next = "due"
  /\ tick' = [tick EXCEPT !.phase = "post", !.event = e, !.attempts = deliveries[s][e].attempts]
  /\ UNCHANGED <<events, subs, deliveries, mode, posts, crashes, stops, faults>>

\* Seeded fault: no foreign key stands between a deleted subscription and a POST.
CreateDeliveryUnchecked(s, e) ==
  /\ NextEvent(s, e)
  /\ deliveries[s][e].status = "none"
  /\ deliveries' = [deliveries EXCEPT ![s][e] = [NoDelivery EXCEPT !.status = "pending"]]
  /\ tick' = [tick EXCEPT !.phase = "post", !.event = e, !.attempts = 0]
  /\ UNCHANGED <<events, subs, mode, posts, crashes, stops, faults>>

CreateDelivery(s, e) ==
  /\ NextEvent(s, e)
  /\ deliveries[s][e].status = "none"
  /\ subs[s].state = "active"
  /\ deliveries' = [deliveries EXCEPT ![s][e] = [NoDelivery EXCEPT !.status = "pending"]]
  /\ tick' = [tick EXCEPT !.phase = "post", !.event = e, !.attempts = 0]
  /\ UNCHANGED <<events, subs, mode, posts, crashes, stops, faults>>

\* The subscription was deleted since it was listed: the insert throws.
CreateDeliveryRefused(s, e) ==
  /\ NextEvent(s, e)
  /\ deliveries[s][e].status = "none"
  /\ subs[s].state # "active"
  /\ tick' = PageOver
  /\ UNCHANGED <<events, subs, deliveries, mode, posts, crashes, stops, faults>>

\* fetch sends the request and the handler waits.
Post ==
  /\ tick.phase = "post"
  /\ tick' = [tick EXCEPT !.phase = "waiting"]
  /\ posts' = [posts EXCEPT ![tick.sub][tick.event] = @ + 1]
  /\ UNCHANGED <<events, subs, deliveries, mode, crashes, stops, faults>>

\* 2xx, or anything else: another status, no connection, the timeout.  The
\* receiver may have worked on the event in both cases.
Answer(outcome) ==
  /\ mode = "up"
  /\ tick.phase = "waiting"
  /\ tick' = [tick EXCEPT !.phase = outcome]
  /\ UNCHANGED <<events, subs, deliveries, mode, posts, crashes, stops, faults>>

\* An UPDATE by delivery id; the row may be gone with its subscription.
Update(status, attempts, next) ==
  LET row == [status |-> status, attempts |-> attempts, next |-> next] IN
  deliveries' = [deliveries EXCEPT ![tick.sub][tick.event] = IF @.status = "none" THEN @ ELSE row]

MarkDelivered ==
  /\ tick.phase = "ok"
  /\ Update("delivered", tick.attempts, "due")
  /\ tick' = [tick EXCEPT !.phase = "settle"]
  /\ UNCHANGED <<events, subs, mode, posts, crashes, stops, faults>>

\* The attempts of the row as it was read before the POST, and this one.
Attempts == tick.attempts + 1

\* Seeded fault: the failed attempt is not counted.
MarkRetryUncounted ==
  /\ tick.phase = "failed"
  /\ Attempts < MaxAttempts
  /\ Update("pending", tick.attempts, "later")
  /\ tick' = PageOver
  /\ UNCHANGED <<events, subs, mode, posts, crashes, stops, faults>>

MarkRetryScheduled ==
  /\ tick.phase = "failed"
  /\ Attempts < MaxAttempts
  /\ Update("pending", Attempts, "later")
  /\ tick' = PageOver
  /\ UNCHANGED <<events, subs, mode, posts, crashes, stops, faults>>

MarkExhausted ==
  /\ tick.phase = "failed"
  /\ Attempts >= MaxAttempts
  /\ Update("exhausted", Attempts, "due")
  /\ tick' = [tick EXCEPT !.phase = "settle"]
  /\ UNCHANGED <<events, subs, mode, posts, crashes, stops, faults>>

\* The second statement after markDelivered or markExhausted.
AdvanceCursor ==
  /\ tick.phase = "settle"
  /\ subs' = Advanced(tick.sub, tick.event)
  /\ tick' = [tick EXCEPT !.phase = "page", !.event = 0, !.attempts = 0, !.page = @ \ {tick.event}]
  /\ UNCHANGED <<events, deliveries, mode, posts, crashes, stops, faults>>

\* A statement throws; tick catches it and goes on with the next subscription.
StorageFails ==
  /\ tick.phase \in {"page", "ok", "failed", "settle"}
  /\ faults < MaxFaults
  /\ faults' = faults + 1
  /\ tick' = PageOver
  /\ UNCHANGED <<events, subs, deliveries, mode, posts, crashes, stops>>

\* The clock passes next_attempt_at.
RetryDue(s, e) ==
  /\ deliveries[s][e].next = "later"
  /\ deliveries' = [deliveries EXCEPT ![s][e].next = "due"]
  /\ UNCHANGED <<events, subs, mode, tick, posts, crashes, stops, faults>>

-----------------------------------------------------------------------------
(* The process.                                                            *)

Start ==
  /\ mode = "down"
  /\ mode' = "up"
  /\ UNCHANGED <<events, subs, deliveries, tick, posts, crashes, stops, faults>>

\* webhookDispatcher.close() and engine.close(): the timer is cancelled, and
\* a POST in flight keeps the process alive.
Close ==
  /\ Serving
  /\ stops < MaxStops
  /\ stops' = stops + 1
  /\ mode' = IF tick.phase = "waiting" THEN "closing" ELSE "down"
  /\ UNCHANGED <<events, subs, deliveries, tick, posts, crashes, faults>>

\* The answer comes and cannot be recorded; the tick ends and the process exits.
AnswerAfterClose ==
  /\ mode = "closing"
  /\ mode' = "down"
  /\ tick' = Resting
  /\ UNCHANGED <<events, subs, deliveries, posts, crashes, stops, faults>>

Crash ==
  /\ mode # "down"
  /\ crashes < MaxCrashes
  /\ crashes' = crashes + 1
  /\ mode' = "down"
  /\ tick' = Resting
  /\ UNCHANGED <<events, subs, deliveries, posts, stops, faults>>

-----------------------------------------------------------------------------

TickStep ==
  \/ TickStarts \/ TickEnds \/ PageDrained
  \/ \E s \in Subs : TakeSubscription(s)
  \/ \E s \in Subs, e \in Events :
       \/ SkipSettled(s, e) \/ Blocked(s, e) \/ Retry(s, e)
       \/ CreateDelivery(s, e) \/ CreateDeliveryRefused(s, e)
  \/ Post \/ MarkDelivered \/ MarkRetryScheduled \/ MarkExhausted \/ AdvanceCursor

RequestStep ==
  \/ AppendEvent
  \/ \E s \in Subs : CreateWebhook(s) \/ DeleteWebhook(s)

Answers == Answer("ok") \/ Answer("failed")

DispatcherNext ==
  \/ TickStep \/ RequestStep \/ Answers \/ StorageFails
  \/ \E s \in Subs, e \in Events : RetryDue(s, e)
  \/ Start \/ Close \/ AnswerAfterClose \/ Crash

DispatcherSafety == DispatcherInit /\ [][DispatcherNext]_vars

\* The tick goes on and its timer fires, every POST has a timeout, time
\* passes, and somebody starts a process that stopped.
DispatcherSpec ==
  /\ DispatcherSafety
  /\ WF_vars(TickStep) /\ WF_vars(Answers) /\ WF_vars(AnswerAfterClose)
  /\ \A s \in Subs, e \in Events : WF_vars(RetryDue(s, e))
  /\ WF_vars(Start)

-----------------------------------------------------------------------------
(* Properties.                                                             *)

\* Every column and every local variable of a tick stays in its domain; in
\* particular attempts never passes maxAttempts (scheduleFailure).
DispatcherTypeOK ==
  /\ events \in 0..MaxEvents
  /\ subs \in [Subs -> SubRow]
  /\ deliveries \in [Subs -> [Events -> DeliveryRow]]
  /\ mode \in {"down", "up", "closing"}
  /\ tick \in TickRecord
  /\ posts \in [Subs -> [Events -> Nat]]
  /\ crashes \in 0..MaxCrashes /\ stops \in 0..MaxStops /\ faults \in 0..MaxFaults

\* The cursor never jumps over an event the subscription wants: whatever lies
\* between its creation and the cursor was delivered or given up, with a row
\* that says so, after any crash, failed statement or blocked retry
\* (deliverPage, advanceCursor).
CursorSkipsNothing ==
  \A s \in Subs : subs[s].state = "active" =>
    \A e \in Wants[s] :
      subs[s].since < e /\ e <= subs[s].cursor => deliveries[s][e].status \in Settled

\* One event is POSTed at most maxAttempts times to one receiver, and once more
\* for each crash, shutdown or failed statement that lost the record of a POST
\* (scheduleFailure, tick).
PostsBounded ==
  \A s \in Subs, e \in Events : posts[s][e] <= MaxAttempts + crashes + stops + faults

Tap == INSTANCE EventTap WITH
  edge <- events,
  open <- {s \in Subs : subs[s].state = "active"},
  since <- [s \in Subs |-> subs[s].since],
  offers <- [s \in Subs |-> [e \in Wants[s] |-> posts[s][e]]],
  settled <- [s \in Subs |-> {e \in Wants[s] : deliveries[s][e].status \in Settled}]

\* The receiver sees a tap of the feed: only events after the creation of the
\* subscription, in feed order, the next one only when the one before is
\* settled, none again after it is settled, and none after the subscription
\* was deleted, even by a tick that listed it before (tick, deliverPage).
TapKept == Tap!Spec

\* Every wanted event is delivered or exhausted in the end, unless its
\* subscription is deleted (tick, scheduleNext, scheduleFailure).
EventsSettle ==
  \A s \in Subs : \A e \in Wants[s] :
    (subs[s].state = "active" /\ subs[s].since < e /\ e <= events)
      ~> (subs[s].state = "deleted" \/ deliveries[s][e].status \in Settled)

\* The comment of scheduleFailure: a failed attempt is recorded even when the
\* dispatcher was closed while the POST was in flight.
RecordedAfterClose ==
  [][mode = "closing" /\ mode' = "down" => deliveries' # deliveries]_vars
=============================================================================
