---------------------- MODULE WebhookDispatcherProofs ----------------------
(***************************************************************************)
(* The safety of the webhook dispatcher, for any number of subscriptions   *)
(* and events and any bounds.                                              *)
(*                                                                         *)
(* The inductive invariant relates the locals of a tick to the rows it     *)
(* read: TickOK says what is known of the row in hand at each await,       *)
(* PageOK that nothing unsettled lies behind the page, RowsOK what attempts *)
(* a row can carry, and PostsOK that each POST is counted by its row, is   *)
(* in flight, or was lost with a crash, a shutdown or a failed statement.  *)
(***************************************************************************)
EXTENDS WebhookDispatcher, FiniteSetTheorems, TLAPS

Open == tick.phase \in {"page", "post", "waiting", "ok", "failed", "settle"}
Sending == tick.phase \in {"post", "waiting", "ok", "failed"}
Active(s) == subs[s].state = "active"
Row == deliveries[tick.sub][tick.event]

\* Subscriptions of a tick exist or existed; the event in hand heads the page.
TickOK ==
  /\ \A s \in tick.todo : subs[s].state # "absent"
  /\ mode # "up" => tick.phase \in {"idle", "waiting"}
  /\ Open => tick.sub \in Subs /\ subs[tick.sub].state # "absent" /\ tick.page \subseteq Wants[tick.sub]
  /\ Sending \/ tick.phase = "settle" => tick.event \in tick.page /\ \A f \in tick.page : tick.event <= f
  /\ tick.phase = "post" => Active(tick.sub)

\* What is known of the row in hand.
HandOK ==
  /\ Sending => /\ tick.attempts < MaxAttempts
                /\ Row.status \notin Settled
                /\ Active(tick.sub) => Row.status = "pending" /\ Row.attempts = tick.attempts
  /\ tick.phase = "settle" /\ Active(tick.sub) => Row.status \in Settled

\* Nothing unsettled lies behind the page.
PageOK ==
  Open /\ Active(tick.sub) =>
    \A f \in tick.page, e \in Wants[tick.sub] :
      subs[tick.sub].since < e /\ e < f /\ e \notin tick.page => deliveries[tick.sub][e].status \in Settled

RowOK(s, e) ==
  /\ subs[s].state # "active" => deliveries[s][e] = NoDelivery
  /\ deliveries[s][e].status = "none" => deliveries[s][e].attempts = 0
  /\ deliveries[s][e].status \in {"pending", "delivered"} => deliveries[s][e].attempts < MaxAttempts

RowsOK == \A s \in Subs, e \in Events : RowOK(s, e)

\* A POST whose answer is awaited or not recorded yet.
InFlight(s, e) ==
  mode = "up" /\ tick.sub = s /\ tick.event = e /\ tick.phase \in {"waiting", "ok", "failed"}

Lost == crashes + stops + faults

PostOK(s, e) ==
  /\ subs[s].state = "absent" => posts[s][e] = 0
  /\ subs[s].state = "active" =>
       posts[s][e] <= deliveries[s][e].attempts + Lost
                        + (IF InFlight(s, e) \/ deliveries[s][e].status = "delivered" THEN 1 ELSE 0)
  /\ posts[s][e] <= MaxAttempts + Lost

PostsOK == \A s \in Subs, e \in Events : PostOK(s, e)

DispatcherInv ==
  DispatcherTypeOK /\ TickOK /\ HandOK /\ PageOK /\ RowsOK /\ CursorSkipsNothing /\ PostsOK
-----------------------------------------------------------------------------
(* Frames: what follows from the variables an action leaves alone.         *)

\* Deliveries of live subscriptions that are settled stay settled.
SettledStay ==
  \A s \in Subs, e \in Events :
    Active(s) /\ deliveries[s][e].status \in Settled => deliveries'[s][e].status \in Settled

\* The UPDATE or INSERT of one delivery row.
LEMMA RowWritten ==
  ASSUME NEW d \in [Subs -> [Events -> DeliveryRow]], NEW s \in Subs, NEW e \in Events,
         NEW r \in DeliveryRow, NEW d2, d2 = [d EXCEPT ![s][e] = r]
  PROVE  /\ d2 \in [Subs -> [Events -> DeliveryRow]]
         /\ d2[s][e] = r
         /\ \A t \in Subs, f \in Events : t # s \/ f # e => d2[t][f] = d[t][f]
OBVIOUS

\* The receiver is sent one more POST.
LEMMA PostCounted ==
  ASSUME NEW p \in [Subs -> [Events -> Nat]], NEW s \in Subs, NEW e \in Events,
         NEW p2, p2 = [p EXCEPT ![s][e] = @ + 1]
  PROVE  /\ p2 \in [Subs -> [Events -> Nat]]
         /\ p2[s][e] = p[s][e] + 1
         /\ \A t \in Subs, f \in Events : t # s \/ f # e => p2[t][f] = p[t][f]
OBVIOUS

\* deliverPage returns with a tick that goes on.
LEMMA PageOverTyped ==
  ASSUME tick \in TickRecord
  PROVE  PageOver \in TickRecord /\ PageOver.phase = "list" /\ PageOver.todo = tick.todo
<1>1. 0 \in 0..MaxEvents /\ 0 \in 0..MaxAttempts /\ {} \in SUBSET Events /\ "list" \in Phases
  BY DispatcherBounds DEF Phases
<1> QED  BY <1>1 DEF PageOver, TickRecord

\* The cursor stays behind settled events when rows stay settled.
LEMMA CursorFrame ==
  ASSUME DispatcherTypeOK, CursorSkipsNothing, UNCHANGED subs, SettledStay
  PROVE  CursorSkipsNothing'
BY WantsAreEvents DEF CursorSkipsNothing, SettledStay, Active

\* So does the page, as long as the tick is at the same one.
LEMMA PageFrame ==
  ASSUME DispatcherTypeOK, TickOK, PageOK, UNCHANGED subs, SettledStay,
         Open, tick'.sub = tick.sub, tick'.page = tick.page
  PROVE  PageOK'
BY WantsAreEvents DEF PageOK, SettledStay, Active, TickOK, Open

\* Without a page there is nothing to say of it, nor of a row in hand.
LEMMA NoPage ==
  ASSUME tick'.phase \in {"idle", "list"}
  PROVE  PageOK' /\ HandOK'
BY DEF PageOK, HandOK, Open, Sending

LEMMA RowsFrame ==
  ASSUME RowsOK, UNCHANGED <<subs, deliveries>>
  PROVE  RowsOK' /\ SettledStay
BY DEF RowsOK, RowOK, SettledStay

LEMMA SumIsNat ==
  ASSUME NEW a \in 0..MaxCrashes, NEW b \in 0..MaxStops, NEW c \in 0..MaxFaults
  PROVE  a + b + c \in Nat
BY DispatcherBounds

LEMMA LostIsNat ==
  ASSUME DispatcherTypeOK
  PROVE  Lost \in Nat
BY SumIsNat DEF DispatcherTypeOK, Lost

\* A POST in flight is recorded, still in flight, or counted as lost.
LEMMA PostsFrame ==
  ASSUME DispatcherTypeOK, DispatcherTypeOK', PostsOK, UNCHANGED <<subs, deliveries, posts>>,
         Lost' >= Lost,
         \A s \in Subs, e \in Events : InFlight(s, e) => InFlight(s, e)' \/ Lost' > Lost
  PROVE  PostsOK'
<1> SUFFICES ASSUME NEW s \in Subs, NEW e \in Events
             PROVE  PostOK(s, e)'
  BY DEF PostsOK
<1>1. PostOK(s, e)
  BY DEF PostsOK
<1>2. Lost \in Nat /\ Lost' \in Nat
  <2>1. crashes' \in 0..MaxCrashes /\ stops' \in 0..MaxStops /\ faults' \in 0..MaxFaults
    BY DEF DispatcherTypeOK
  <2>2. Lost' \in Nat
    BY <2>1, SumIsNat DEF Lost
  <2> QED  BY <2>2, LostIsNat
<1>3. posts[s][e] \in Nat /\ deliveries[s][e].attempts \in Nat /\ MaxAttempts \in Nat
  BY DispatcherBounds DEF DispatcherTypeOK, DeliveryRow
<1>4. InFlight(s, e) => InFlight(s, e)' \/ Lost' > Lost
  OBVIOUS
<1> QED  BY <1>1, <1>2, <1>3, <1>4 DEF PostOK

-----------------------------------------------------------------------------
(* Steps of the tick that write no row.                                    *)

\* What these steps have in common: rows, subscriptions and POSTs stay, and so
\* do the counters of losses.
Quiet == UNCHANGED <<events, subs, deliveries, posts, crashes, stops, faults>>

LEMMA QuietStep ==
  ASSUME DispatcherInv, Quiet, tick' \in TickRecord, mode' \in {"down", "up", "closing"},
         TickOK', HandOK', PageOK',
         \A s \in Subs, e \in Events : InFlight(s, e) => InFlight(s, e)'
  PROVE  DispatcherInv'
<1>1. DispatcherTypeOK'
  BY DEF DispatcherInv, DispatcherTypeOK, Quiet
<1>2. RowsOK' /\ CursorSkipsNothing'
  BY RowsFrame, CursorFrame DEF DispatcherInv, Quiet
<1>3. Lost' = Lost /\ Lost \in Nat
  BY LostIsNat DEF Quiet, Lost, DispatcherInv
<1>4. PostsOK'
  BY <1>1, <1>3, PostsFrame DEF DispatcherInv, Quiet
<1> QED  BY <1>1, <1>2, <1>4 DEF DispatcherInv

LEMMA TickStartsStep ==
  ASSUME DispatcherInv, TickStarts
  PROVE  DispatcherInv'
<1>1. tick' \in TickRecord /\ mode' \in {"down", "up", "closing"}
  <2>1. 0 \in 0..MaxEvents /\ 0 \in 0..MaxAttempts /\ {} \in SUBSET Events /\ "list" \in Phases
    BY DispatcherBounds DEF Phases
  <2>2. tick' = [phase |-> "list", sub |-> None, event |-> 0, attempts |-> 0,
                 todo |-> {s \in Subs : subs[s].state = "active"}, page |-> {}]
    BY DEF TickStarts, Resting
  <2>3. tick' \in TickRecord
    BY <2>1, <2>2 DEF TickRecord
  <2> QED  BY <2>3 DEF DispatcherInv, DispatcherTypeOK, TickStarts
<1>2. tick'.phase = "list" /\ \A s \in tick'.todo : subs'[s].state = "active"
  BY DEF TickStarts, Resting
<1>3. TickOK'
  BY <1>2 DEF TickOK, TickStarts, Open, Sending
<1>4. \A s \in Subs, e \in Events : ~InFlight(s, e)
  BY DEF TickStarts, InFlight
<1> QED  BY <1>1, <1>2, <1>3, <1>4, NoPage, QuietStep DEF TickStarts, Quiet

\* The first page holds every wanted event behind each of its events that is
\* ahead of the cursor.
LEMMA FirstPageIsPrefix ==
  ASSUME DispatcherTypeOK, NEW s \in Subs, NEW f \in FirstPage(s), NEW e \in Wants[s],
         subs[s].cursor < e, e < f
  PROVE  e \in FirstPage(s)
<1> DEFINE after == {g \in Wants[s] : subs[s].cursor < g /\ g <= events}
           Before(g) == {h \in after : h < g}
<1>1. /\ f \in after /\ Cardinality(Before(f)) < PageSize
      /\ e \in Nat /\ f \in Nat /\ events \in Nat /\ after \subseteq 1..MaxEvents
  BY WantsAreEvents, DispatcherBounds DEF FirstPage, DispatcherTypeOK, Events
<1>2. e \in after
  BY <1>1
<1>3. Before(e) \subseteq Before(f)
  BY <1>1
<1>4. IsFiniteSet(1..MaxEvents)
  BY FS_Interval, DispatcherBounds
<1>5. IsFiniteSet(Before(f))
  BY <1>1, <1>4, FS_Subset
<1>6. Cardinality(Before(e)) <= Cardinality(Before(f)) /\ IsFiniteSet(Before(e))
  BY <1>3, <1>5, FS_Subset
<1>7. Cardinality(Before(e)) \in Nat /\ Cardinality(Before(f)) \in Nat
  BY <1>5, <1>6, FS_CardinalityType
<1>8. Cardinality(Before(e)) < PageSize
  BY <1>1, <1>6, <1>7, DispatcherBounds
<1> QED  BY <1>2, <1>8 DEF FirstPage

LEMMA TakeSubscriptionStep ==
  ASSUME NEW s \in Subs, DispatcherInv, TakeSubscription(s)
  PROVE  DispatcherInv'
<1>1. /\ tick'.phase = "page" /\ tick'.sub = s /\ tick'.page = FirstPage(s)
      /\ tick'.todo = tick.todo \ {s} /\ tick.phase = "list" /\ s \in tick.todo
      /\ UNCHANGED <<events, subs, deliveries, mode>>
  BY DEF TakeSubscription, DispatcherInv, DispatcherTypeOK, TickRecord
<1>2. FirstPage(s) \subseteq Wants[s] /\ FirstPage(s) \subseteq Events
  BY WantsAreEvents DEF FirstPage
<1>3. tick' \in TickRecord /\ mode' \in {"down", "up", "closing"}
  BY <1>2 DEF DispatcherInv, DispatcherTypeOK, TakeSubscription, TickRecord, Phases
<1>4. TickOK'
  BY <1>1, <1>2 DEF TickOK, DispatcherInv, Open, Sending
<1>5. HandOK'
  BY <1>1 DEF HandOK, Sending
<1>6. PageOK'
  <2> SUFFICES ASSUME Active(s), NEW f \in FirstPage(s), NEW e \in Wants[s],
                      subs[s].since < e, e < f, e \notin FirstPage(s)
               PROVE  deliveries[s][e].status \in Settled
    BY <1>1 DEF PageOK, Active
  <2>1. ~(subs[s].cursor < e)
    BY FirstPageIsPrefix DEF DispatcherInv
  <2>2. subs[s].cursor \in Nat /\ e \in Nat
    BY WantsAreEvents, DispatcherBounds DEF DispatcherInv, DispatcherTypeOK, SubRow, Events
  <2> QED  BY <2>1, <2>2 DEF DispatcherInv, CursorSkipsNothing, Active
<1>7. \A t \in Subs, e \in Events : ~InFlight(t, e)
  BY <1>1 DEF InFlight
<1> QED  BY <1>3, <1>4, <1>5, <1>6, <1>7, QuietStep DEF TakeSubscription, Quiet

\* deliverPage returns with nothing in flight.
LEMMA PageOverStep ==
  ASSUME DispatcherInv, tick.phase = "page", tick' = PageOver, Quiet, UNCHANGED mode
  PROVE  DispatcherInv'
<1>1. /\ tick' \in TickRecord /\ mode' \in {"down", "up", "closing"}
      /\ tick'.phase = "list" /\ tick'.todo = tick.todo
  BY PageOverTyped DEF DispatcherInv, DispatcherTypeOK
<1>2. TickOK'
  BY <1>1 DEF TickOK, DispatcherInv, Open, Sending, Quiet
<1>3. \A s \in Subs, e \in Events : ~InFlight(s, e)
  BY DEF InFlight
<1> QED  BY <1>1, <1>2, <1>3, NoPage, QuietStep

LEMMA TickEndsStep ==
  ASSUME DispatcherInv, TickEnds
  PROVE  DispatcherInv'
<1>1. tick' \in TickRecord /\ mode' \in {"down", "up", "closing"} /\ tick'.phase = "idle" /\ tick'.todo = {}
  BY DispatcherBounds DEF DispatcherInv, DispatcherTypeOK, TickEnds, Resting, TickRecord, Phases
<1>2. TickOK'
  BY <1>1 DEF TickOK, DispatcherInv, Open, Sending
<1>3. \A s \in Subs, e \in Events : ~InFlight(s, e)
  BY DEF InFlight, TickEnds
<1> QED  BY <1>1, <1>2, <1>3, NoPage, QuietStep DEF TickEnds, Quiet

LEMMA RetryStep ==
  ASSUME NEW s \in Subs, NEW e \in Events, DispatcherInv, Retry(s, e)
  PROVE  DispatcherInv'
<1>1. /\ tick'.phase = "post" /\ tick'.sub = s /\ tick'.event = e /\ tick'.page = tick.page
      /\ tick'.attempts = deliveries[s][e].attempts /\ tick'.todo = tick.todo
      /\ tick.phase = "page" /\ tick.sub = s /\ e \in tick.page /\ \A f \in tick.page : e <= f
      /\ deliveries[s][e].status = "pending"
      /\ UNCHANGED <<subs, deliveries, mode>>
  BY DEF Retry, NextEvent, DispatcherInv, DispatcherTypeOK, TickRecord
<1>2. deliveries[s][e].attempts \in 0..MaxAttempts /\ e \in 0..MaxEvents
  BY DispatcherBounds DEF DispatcherInv, DispatcherTypeOK, DeliveryRow, Events
<1>3. tick' \in TickRecord /\ mode' \in {"down", "up", "closing"}
  BY <1>2 DEF DispatcherInv, DispatcherTypeOK, Retry, TickRecord, Phases
<1>4. Active(s) /\ deliveries[s][e].attempts < MaxAttempts
  BY <1>1 DEF DispatcherInv, RowsOK, RowOK, NoDelivery, Active
<1>5. TickOK'
  BY <1>1, <1>4 DEF TickOK, DispatcherInv, Open, Sending, Active
<1>6. HandOK'
  BY <1>1, <1>4 DEF HandOK, Sending, Row, Active, Settled
<1>7. PageOK'
  BY <1>1, RowsFrame, PageFrame DEF DispatcherInv, Open
<1>8. \A t \in Subs, f \in Events : ~InFlight(t, f)
  BY <1>1 DEF InFlight
<1> QED  BY <1>3, <1>5, <1>6, <1>7, <1>8, QuietStep DEF Retry, Quiet

LEMMA AnswerStep ==
  ASSUME NEW outcome \in {"ok", "failed"}, DispatcherInv, Answer(outcome)
  PROVE  DispatcherInv'
<1>1. /\ tick'.phase = outcome /\ tick'.sub = tick.sub /\ tick'.event = tick.event
      /\ tick'.page = tick.page /\ tick'.attempts = tick.attempts /\ tick'.todo = tick.todo
      /\ tick.phase = "waiting" /\ mode = "up" /\ UNCHANGED <<subs, deliveries, mode>>
  BY DEF Answer, DispatcherInv, DispatcherTypeOK, TickRecord
<1>2. tick' \in TickRecord /\ mode' \in {"down", "up", "closing"}
  BY DEF DispatcherInv, DispatcherTypeOK, Answer, TickRecord, Phases
<1>3. TickOK'
  BY <1>1 DEF TickOK, DispatcherInv, Open, Sending, Active
<1>4. HandOK'
  BY <1>1 DEF HandOK, DispatcherInv, Sending, Row, Active
<1>5. PageOK'
  BY <1>1, RowsFrame, PageFrame DEF DispatcherInv, Open
<1>6. \A t \in Subs, f \in Events : InFlight(t, f) => InFlight(t, f)'
  BY <1>1 DEF InFlight
<1> QED  BY <1>2, <1>3, <1>4, <1>5, <1>6, QuietStep DEF Answer, Quiet

-----------------------------------------------------------------------------
(* Steps outside the tick, and steps that lose a POST.                     *)

LEMMA AppendEventStep ==
  ASSUME DispatcherInv, AppendEvent
  PROVE  DispatcherInv'
<1>1. events' \in 0..MaxEvents
  BY DispatcherBounds DEF AppendEvent, DispatcherInv, DispatcherTypeOK
<1>2. UNCHANGED <<subs, deliveries, mode, tick, posts, crashes, stops, faults>>
  BY DEF AppendEvent
<1>3. DispatcherTypeOK'
  BY <1>1, <1>2 DEF DispatcherInv, DispatcherTypeOK
<1>4. TickOK' /\ HandOK' /\ PageOK' /\ RowsOK' /\ CursorSkipsNothing'
  BY <1>2 DEF DispatcherInv, TickOK, HandOK, PageOK, RowsOK, RowOK, CursorSkipsNothing,
              Open, Sending, Active, Row
<1>5. PostsOK'
  BY <1>2 DEF DispatcherInv, PostsOK, PostOK, InFlight, Lost
<1> QED  BY <1>3, <1>4, <1>5 DEF DispatcherInv

LEMMA StartStep ==
  ASSUME DispatcherInv, Start
  PROVE  DispatcherInv'
<1>1. UNCHANGED <<subs, deliveries, tick>> /\ mode = "down" /\ mode' = "up"
  BY DEF Start
<1>2. tick' \in TickRecord
  BY <1>1 DEF DispatcherInv, DispatcherTypeOK
<1>3. TickOK' /\ HandOK' /\ PageOK'
  BY <1>1 DEF DispatcherInv, TickOK, HandOK, PageOK, Open, Sending, Active, Row
<1>4. \A s \in Subs, e \in Events : ~InFlight(s, e)
  BY <1>1 DEF InFlight
<1> QED  BY <1>1, <1>2, <1>3, <1>4, QuietStep DEF Start, Quiet

LEMMA AnswerAfterCloseStep ==
  ASSUME DispatcherInv, AnswerAfterClose
  PROVE  DispatcherInv'
<1>1. tick' \in TickRecord /\ mode' = "down" /\ tick'.phase = "idle" /\ tick'.todo = {}
  BY DispatcherBounds DEF AnswerAfterClose, Resting, TickRecord, Phases
<1>2. TickOK'
  BY <1>1 DEF TickOK, Open, Sending
<1>3. \A s \in Subs, e \in Events : ~InFlight(s, e)
  BY DEF InFlight, AnswerAfterClose
<1> QED  BY <1>1, <1>2, <1>3, NoPage, QuietStep DEF AnswerAfterClose, Quiet

\* A crash, a shutdown or a failed statement: the loss is counted.
LEMMA LossyStep ==
  ASSUME DispatcherInv, UNCHANGED <<events, subs, deliveries, posts>>,
         tick' \in TickRecord, mode' \in {"down", "up", "closing"},
         crashes' \in 0..MaxCrashes, stops' \in 0..MaxStops, faults' \in 0..MaxFaults,
         Lost' > Lost, TickOK', HandOK', PageOK'
  PROVE  DispatcherInv'
<1>1. DispatcherTypeOK'
  BY DEF DispatcherInv, DispatcherTypeOK
<1>2. RowsOK' /\ CursorSkipsNothing'
  BY RowsFrame, CursorFrame DEF DispatcherInv
<1>3. Lost \in Nat /\ Lost' \in Nat
  <2>1. Lost \in Nat
    BY LostIsNat DEF DispatcherInv
  <2>2. Lost' \in Nat
    BY SumIsNat DEF Lost
  <2> QED  BY <2>1, <2>2
<1>4. PostsOK'
  BY <1>1, <1>3, PostsFrame DEF DispatcherInv
<1> QED  BY <1>1, <1>2, <1>4 DEF DispatcherInv

LEMMA StorageFailsStep ==
  ASSUME DispatcherInv, StorageFails
  PROVE  DispatcherInv'
<1>1. /\ tick' \in TickRecord /\ tick'.phase = "list" /\ tick'.todo = tick.todo
      /\ tick.phase # "idle" /\ tick.phase # "waiting"
  BY PageOverTyped DEF DispatcherInv, DispatcherTypeOK, StorageFails
<1>2. TickOK'
  BY <1>1 DEF StorageFails, TickOK, DispatcherInv, Open, Sending
<1>3. /\ crashes' \in 0..MaxCrashes /\ stops' \in 0..MaxStops /\ faults' \in 0..MaxFaults
      /\ mode' \in {"down", "up", "closing"} /\ Lost' > Lost
  BY DispatcherBounds DEF DispatcherInv, DispatcherTypeOK, StorageFails, Lost
<1> QED  BY <1>1, <1>2, <1>3, NoPage, LossyStep DEF StorageFails

LEMMA CloseStep ==
  ASSUME DispatcherInv, Close
  PROVE  DispatcherInv'
<1>1. UNCHANGED <<subs, deliveries, tick>> /\ tick.phase \in {"idle", "waiting"}
  BY DEF Close, Serving
<1>2. TickOK' /\ HandOK' /\ PageOK'
  BY <1>1 DEF DispatcherInv, TickOK, HandOK, PageOK, Open, Sending, Active, Row
<1>3. /\ crashes' \in 0..MaxCrashes /\ stops' \in 0..MaxStops /\ faults' \in 0..MaxFaults
      /\ mode' \in {"down", "up", "closing"} /\ tick' \in TickRecord
  BY DispatcherBounds DEF DispatcherInv, DispatcherTypeOK, Close
<1>4. Lost' > Lost
  BY DispatcherBounds DEF DispatcherInv, DispatcherTypeOK, Close, Lost
<1> QED  BY <1>2, <1>3, <1>4, LossyStep DEF Close

LEMMA CrashStep ==
  ASSUME DispatcherInv, Crash
  PROVE  DispatcherInv'
<1>1. tick' \in TickRecord /\ mode' = "down" /\ tick'.phase = "idle" /\ tick'.todo = {}
  BY DispatcherBounds DEF Crash, Resting, TickRecord, Phases
<1>2. TickOK'
  BY <1>1 DEF TickOK, Open, Sending
<1>3. crashes' \in 0..MaxCrashes /\ stops' \in 0..MaxStops /\ faults' \in 0..MaxFaults
  BY DispatcherBounds DEF DispatcherInv, DispatcherTypeOK, Crash
<1>4. Lost' > Lost
  BY DispatcherBounds DEF DispatcherInv, DispatcherTypeOK, Crash, Lost
<1> QED  BY <1>1, <1>2, <1>3, <1>4, NoPage, LossyStep DEF Crash

LEMMA PostStep ==
  ASSUME DispatcherInv, Post
  PROVE  DispatcherInv'
<1>1. /\ tick'.phase = "waiting" /\ tick'.sub = tick.sub /\ tick'.event = tick.event
      /\ tick'.page = tick.page /\ tick'.attempts = tick.attempts /\ tick'.todo = tick.todo
      /\ tick.phase = "post" /\ UNCHANGED <<events, subs, deliveries, mode, crashes, stops, faults>>
  BY DEF Post, DispatcherInv, DispatcherTypeOK, TickRecord
<1>2. /\ tick.sub \in Subs /\ tick.event \in Events /\ Active(tick.sub) /\ mode = "up"
      /\ Row.status = "pending" /\ Row.attempts < MaxAttempts
  BY <1>1, WantsAreEvents DEF DispatcherInv, TickOK, HandOK, Open, Sending
<1>3. tick' \in TickRecord
  BY DEF DispatcherInv, DispatcherTypeOK, Post, TickRecord, Phases
<1>4. /\ posts' \in [Subs -> [Events -> Nat]]
      /\ posts'[tick.sub][tick.event] = posts[tick.sub][tick.event] + 1
      /\ \A s \in Subs, e \in Events : s # tick.sub \/ e # tick.event => posts'[s][e] = posts[s][e]
  BY <1>2, PostCounted DEF Post, DispatcherInv, DispatcherTypeOK
<1>5. DispatcherTypeOK'
  BY <1>1, <1>3, <1>4 DEF DispatcherInv, DispatcherTypeOK
<1>6. TickOK' /\ HandOK'
  BY <1>1 DEF TickOK, HandOK, DispatcherInv, Open, Sending, Active, Row
<1>7. RowsOK' /\ CursorSkipsNothing' /\ PageOK'
  BY <1>1, RowsFrame, CursorFrame, PageFrame DEF DispatcherInv, Open
<1>8. PostsOK'
  <2> SUFFICES ASSUME NEW s \in Subs, NEW e \in Events
               PROVE  PostOK(s, e)'
    BY DEF PostsOK
  <2>1. /\ PostOK(s, e) /\ Lost' = Lost /\ Lost \in Nat
        /\ posts[s][e] \in Nat /\ deliveries[s][e].attempts \in Nat /\ MaxAttempts \in Nat
    BY <1>1, LostIsNat, DispatcherBounds DEF DispatcherInv, PostsOK, Lost, DispatcherTypeOK, DeliveryRow
  <2>2. CASE s = tick.sub /\ e = tick.event
    <3>1. InFlight(s, e)' /\ ~InFlight(s, e)
      BY <1>1, <1>2, <2>2 DEF InFlight
    <3> QED  BY <1>1, <1>2, <1>4, <2>1, <2>2, <3>1 DEF PostOK, Row, Active
  <2>3. CASE s # tick.sub \/ e # tick.event
    <3>1. ~InFlight(s, e)' /\ ~InFlight(s, e)
      BY <1>1, <2>3 DEF InFlight
    <3> QED  BY <1>1, <1>4, <2>1, <2>3, <3>1 DEF PostOK
  <2> QED  BY <2>2, <2>3
<1> QED  BY <1>5, <1>6, <1>7, <1>8 DEF DispatcherInv

-----------------------------------------------------------------------------
(* Steps that write a delivery row.                                        *)

LEMMA CreateDeliveryStep ==
  ASSUME NEW s \in Subs, NEW e \in Events, DispatcherInv, CreateDelivery(s, e)
  PROVE  DispatcherInv'
<1> DEFINE r == [NoDelivery EXCEPT !.status = "pending"]
<1>1. /\ tick'.phase = "post" /\ tick'.sub = s /\ tick'.event = e /\ tick'.page = tick.page
      /\ tick'.attempts = 0 /\ tick'.todo = tick.todo
      /\ tick.phase = "page" /\ tick.sub = s /\ e \in tick.page /\ \A f \in tick.page : e <= f
      /\ deliveries[s][e].status = "none" /\ Active(s)
      /\ UNCHANGED <<events, subs, mode, posts, crashes, stops, faults>>
  BY DEF CreateDelivery, NextEvent, Active, DispatcherInv, DispatcherTypeOK, TickRecord
<1>2. r \in DeliveryRow /\ r.status = "pending" /\ r.attempts = 0
  <2>1. r = [status |-> "pending", attempts |-> 0, next |-> "due"]
    BY DEF NoDelivery
  <2>2. 0 \in 0..MaxAttempts /\ "pending" \in Statuses
    BY DispatcherBounds DEF Statuses
  <2> HIDE DEF r
  <2> QED  BY <2>1, <2>2 DEF DeliveryRow
<1>3. /\ deliveries' \in [Subs -> [Events -> DeliveryRow]]
      /\ deliveries'[s][e] = r
      /\ \A t \in Subs, f \in Events : t # s \/ f # e => deliveries'[t][f] = deliveries[t][f]
  <2> HIDE DEF r
  <2>1. deliveries' = [deliveries EXCEPT ![s][e] = r]
    BY DEF CreateDelivery, r
  <2> QED  BY <1>2, <2>1, RowWritten DEF DispatcherInv, DispatcherTypeOK
<1> HIDE DEF r
<1>4. e \in 0..MaxEvents /\ 0 \in 0..MaxAttempts
  BY DispatcherBounds DEF Events
<1>5. tick' \in TickRecord
  BY <1>4 DEF DispatcherInv, DispatcherTypeOK, CreateDelivery, TickRecord, Phases
<1>6. DispatcherTypeOK'
  BY <1>1, <1>3, <1>5 DEF DispatcherInv, DispatcherTypeOK
<1>7. SettledStay
  BY <1>1, <1>3 DEF SettledStay, Settled
<1>8. CursorSkipsNothing' /\ PageOK'
  BY <1>1, <1>7, CursorFrame, PageFrame DEF DispatcherInv, Open
<1>9. TickOK'
  BY <1>1 DEF TickOK, DispatcherInv, Open, Sending, Active
<1>11. HandOK'
  BY <1>1, <1>2, <1>3, DispatcherBounds DEF HandOK, Sending, Row, Active, Settled
<1>12. RowsOK'
  BY <1>1, <1>2, <1>3, DispatcherBounds DEF RowsOK, RowOK, DispatcherInv, Active
<1>13. PostsOK'
  <2> SUFFICES ASSUME NEW t \in Subs, NEW f \in Events
               PROVE  PostOK(t, f)'
    BY DEF PostsOK
  <2>1. PostOK(t, f) /\ RowOK(t, f) /\ Lost' = Lost /\ ~InFlight(t, f) /\ ~InFlight(t, f)'
    BY <1>1 DEF DispatcherInv, PostsOK, RowsOK, Lost, InFlight
  <2> QED  BY <1>1, <1>2, <1>3, <2>1 DEF PostOK, RowOK
<1> QED  BY <1>6, <1>8, <1>9, <1>11, <1>12, <1>13 DEF DispatcherInv

LEMMA RetryDueStep ==
  ASSUME NEW s \in Subs, NEW e \in Events, DispatcherInv, RetryDue(s, e)
  PROVE  DispatcherInv'
<1> DEFINE r == [deliveries[s][e] EXCEPT !.next = "due"]
<1>1. UNCHANGED <<events, subs, mode, tick, posts, crashes, stops, faults>>
  BY DEF RetryDue
<1>2. /\ r \in DeliveryRow /\ deliveries[s][e].next = "later"
      /\ r.status = deliveries[s][e].status /\ r.attempts = deliveries[s][e].attempts
  <2>1. deliveries[s][e] \in DeliveryRow
    BY DEF DispatcherInv, DispatcherTypeOK
  <2> QED  BY <2>1 DEF RetryDue, DeliveryRow
<1>3. /\ deliveries' \in [Subs -> [Events -> DeliveryRow]]
      /\ deliveries'[s][e] = r
      /\ \A t \in Subs, f \in Events : t # s \/ f # e => deliveries'[t][f] = deliveries[t][f]
  <2> HIDE DEF r
  <2>1. deliveries' = [deliveries EXCEPT ![s][e] = r]
    BY DEF RetryDue, r, DispatcherInv, DispatcherTypeOK
  <2> QED  BY <1>2, <2>1, RowWritten DEF DispatcherInv, DispatcherTypeOK
<1>4. \A t \in Subs, f \in Events : /\ deliveries'[t][f].status = deliveries[t][f].status
                                    /\ deliveries'[t][f].attempts = deliveries[t][f].attempts
  <2> HIDE DEF r
  <2> QED  BY <1>2, <1>3
<1>5. Active(s)
  BY <1>2 DEF DispatcherInv, RowsOK, RowOK, NoDelivery, Active
<1> HIDE DEF r
<1>6. DispatcherTypeOK'
  BY <1>1, <1>3 DEF DispatcherInv, DispatcherTypeOK
<1>7. SettledStay
  BY <1>4 DEF SettledStay
<1>8. CursorSkipsNothing'
  BY <1>1, <1>7, CursorFrame DEF DispatcherInv
<1>9. PageOK'
  <2>1. CASE Open
    BY <1>1, <1>7, <2>1, PageFrame DEF DispatcherInv
  <2>2. CASE ~Open
    BY <1>1, <2>2 DEF PageOK, Open
  <2> QED  BY <2>1, <2>2
<1>10. TickOK'
  BY <1>1 DEF TickOK, DispatcherInv, Open, Sending, Active
<1>11. HandOK'
  <2>1. Sending \/ tick.phase = "settle" => tick.sub \in Subs /\ tick.event \in Events
    BY WantsAreEvents DEF DispatcherInv, TickOK, Open, Sending
  <2> QED  BY <1>1, <1>4, <2>1 DEF HandOK, DispatcherInv, Sending, Row, Active
<1>12. RowsOK'
  BY <1>1, <1>3, <1>4, <1>5 DEF RowsOK, RowOK, DispatcherInv, Active
<1>13. PostsOK'
  BY <1>1, <1>4 DEF PostsOK, PostOK, DispatcherInv, InFlight, Lost
<1> QED  BY <1>6, <1>8, <1>9, <1>10, <1>11, <1>12, <1>13 DEF DispatcherInv

\* The row in hand is written by markDelivered, markRetryScheduled or
\* markExhausted, or is gone with its subscription.
LEMMA HandWritten ==
  ASSUME DispatcherInv, tick.phase \in {"ok", "failed"},
         NEW status \in Statuses, NEW attempts \in 0..MaxAttempts, NEW next \in {"due", "later"},
         Update(status, attempts, next)
  PROVE  /\ tick.sub \in Subs /\ tick.event \in Events
         /\ deliveries' \in [Subs -> [Events -> DeliveryRow]]
         /\ Active(tick.sub) => /\ deliveries'[tick.sub][tick.event].status = status
                                /\ deliveries'[tick.sub][tick.event].attempts = attempts
         /\ ~Active(tick.sub) => deliveries'[tick.sub][tick.event] = NoDelivery
         /\ \A s \in Subs, e \in Events :
              s # tick.sub \/ e # tick.event => deliveries'[s][e] = deliveries[s][e]
<1> DEFINE new == [status |-> status, attempts |-> attempts, next |-> next]
           r == IF Row.status = "none" THEN Row ELSE new
<1>1. tick.sub \in Subs /\ tick.event \in Events
  BY WantsAreEvents DEF DispatcherInv, TickOK, Open, Sending
<1>2. new \in DeliveryRow /\ new.status = status /\ new.attempts = attempts
  BY DEF DeliveryRow
<1>3. Row \in DeliveryRow
  BY <1>1 DEF DispatcherInv, DispatcherTypeOK, Row
<1>4. Active(tick.sub) => Row.status # "none"
  BY DEF DispatcherInv, HandOK, Sending
<1>5. ~Active(tick.sub) => Row = NoDelivery
  BY <1>1 DEF DispatcherInv, RowsOK, RowOK, Row, Active
<1>6. NoDelivery.status = "none"
  BY DEF NoDelivery
<1>7. deliveries' = [deliveries EXCEPT ![tick.sub][tick.event] = r]
  BY <1>1 DEF Update, Row, DispatcherInv, DispatcherTypeOK
<1> HIDE DEF new
<1>8. r \in DeliveryRow /\ (Active(tick.sub) => r = new) /\ (~Active(tick.sub) => r = NoDelivery)
  BY <1>2, <1>3, <1>4, <1>5, <1>6
<1> HIDE DEF r
<1>9. /\ deliveries' \in [Subs -> [Events -> DeliveryRow]]
      /\ deliveries'[tick.sub][tick.event] = r
      /\ \A s \in Subs, e \in Events :
           s # tick.sub \/ e # tick.event => deliveries'[s][e] = deliveries[s][e]
  BY <1>1, <1>7, <1>8, RowWritten DEF DispatcherInv, DispatcherTypeOK
<1> QED  BY <1>1, <1>2, <1>8, <1>9

\* What recording an attempt leaves to show: the tick, and that the row counts
\* the POST that was in flight.
LEMMA RecordedStep ==
  ASSUME DispatcherInv, tick.phase \in {"ok", "failed"},
         NEW status \in Statuses \ {"none"}, NEW attempts \in 0..MaxAttempts, NEW next \in {"due", "later"},
         Update(status, attempts, next),
         UNCHANGED <<events, subs, mode, posts, crashes, stops, faults>>,
         status \in {"pending", "delivered"} => attempts < MaxAttempts,
         attempts = IF status = "delivered" THEN tick.attempts ELSE tick.attempts + 1,
         tick' \in TickRecord, tick'.phase \in {"list", "settle"}
  PROVE  /\ DispatcherTypeOK' /\ RowsOK' /\ CursorSkipsNothing' /\ PostsOK' /\ SettledStay
<1>1. /\ tick.sub \in Subs /\ tick.event \in Events
      /\ deliveries' \in [Subs -> [Events -> DeliveryRow]]
      /\ Active(tick.sub) => /\ deliveries'[tick.sub][tick.event].status = status
                             /\ deliveries'[tick.sub][tick.event].attempts = attempts
      /\ ~Active(tick.sub) => deliveries'[tick.sub][tick.event] = NoDelivery
      /\ \A s \in Subs, e \in Events :
           s # tick.sub \/ e # tick.event => deliveries'[s][e] = deliveries[s][e]
  BY HandWritten
<1>2. DispatcherTypeOK'
  BY <1>1 DEF DispatcherInv, DispatcherTypeOK
<1>3. Row.status \notin Settled /\ (Active(tick.sub) => Row.attempts = tick.attempts)
  BY DEF DispatcherInv, HandOK, Sending
<1>4. SettledStay
  BY <1>1, <1>3 DEF SettledStay, Row
<1>5. CursorSkipsNothing'
  BY <1>4, CursorFrame DEF DispatcherInv
<1>6. NoDelivery.status = "none" /\ NoDelivery.attempts = 0
  BY DEF NoDelivery
<1>7. RowsOK'
  <2> SUFFICES ASSUME NEW s \in Subs, NEW e \in Events
               PROVE  RowOK(s, e)'
    BY DEF RowsOK
  <2>1. RowOK(s, e)
    BY DEF DispatcherInv, RowsOK
  <2>2. CASE s = tick.sub /\ e = tick.event
    BY <1>1, <1>6, <2>2 DEF RowOK, Active
  <2>3. CASE s # tick.sub \/ e # tick.event
    BY <1>1, <2>1, <2>3 DEF RowOK
  <2> QED  BY <2>2, <2>3
<1>8. PostsOK'
  <2> SUFFICES ASSUME NEW s \in Subs, NEW e \in Events
               PROVE  PostOK(s, e)'
    BY DEF PostsOK
  <2>1. /\ PostOK(s, e) /\ Lost' = Lost /\ Lost \in Nat
        /\ posts[s][e] \in Nat /\ deliveries[s][e].attempts \in Nat /\ MaxAttempts \in Nat
    BY LostIsNat, DispatcherBounds DEF DispatcherInv, PostsOK, Lost, DispatcherTypeOK, DeliveryRow
  <2>2. CASE s = tick.sub /\ e = tick.event
    BY <1>1, <1>3, <2>1, <2>2, DispatcherBounds DEF PostOK, Row, Active, Settled
  <2>3. CASE s # tick.sub \/ e # tick.event
    <3>1. ~InFlight(s, e) /\ ~InFlight(s, e)'
      BY <2>3 DEF InFlight
    <3> QED  BY <1>1, <2>1, <2>3, <3>1 DEF PostOK
  <2> QED  BY <2>2, <2>3
<1> QED  BY <1>2, <1>4, <1>5, <1>7, <1>8

LEMMA MarkRetryScheduledStep ==
  ASSUME DispatcherInv, MarkRetryScheduled
  PROVE  DispatcherInv'
<1>1. tick' \in TickRecord /\ tick'.phase = "list" /\ tick'.todo = tick.todo
  BY PageOverTyped DEF DispatcherInv, DispatcherTypeOK, MarkRetryScheduled
<1>2. Attempts \in 0..MaxAttempts /\ Attempts = tick.attempts + 1 /\ Attempts < MaxAttempts
  BY DispatcherBounds DEF MarkRetryScheduled, Attempts, DispatcherInv, DispatcherTypeOK, TickRecord
<1>3. DispatcherTypeOK' /\ RowsOK' /\ CursorSkipsNothing' /\ PostsOK'
  BY <1>1, <1>2, RecordedStep DEF MarkRetryScheduled, Statuses
<1>4. TickOK'
  BY <1>1 DEF MarkRetryScheduled, DispatcherInv, TickOK, Open, Sending
<1> QED  BY <1>1, <1>3, <1>4, NoPage DEF DispatcherInv

\* The record is followed by the cursor.
LEMMA SettlingStep ==
  ASSUME DispatcherInv, tick.phase \in {"ok", "failed"},
         tick' = [tick EXCEPT !.phase = "settle"],
         NEW status \in Settled, NEW attempts \in 0..MaxAttempts,
         Update(status, attempts, "due"),
         UNCHANGED <<events, subs, mode, posts, crashes, stops, faults>>,
         status = "delivered" => attempts < MaxAttempts,
         attempts = IF status = "delivered" THEN tick.attempts ELSE tick.attempts + 1
  PROVE  DispatcherInv'
<1>1. /\ tick' \in TickRecord /\ tick'.phase = "settle" /\ tick'.sub = tick.sub
      /\ tick'.event = tick.event /\ tick'.page = tick.page /\ tick'.todo = tick.todo
  BY DEF DispatcherInv, DispatcherTypeOK, TickRecord, Phases
<1>2. status \in Statuses \ {"none"} /\ status # "pending"
  BY DEF Settled, Statuses
<1>3. DispatcherTypeOK' /\ RowsOK' /\ CursorSkipsNothing' /\ PostsOK' /\ SettledStay
  BY <1>1, <1>2, RecordedStep
<1>4. TickOK'
  BY <1>1 DEF DispatcherInv, TickOK, Open, Sending, Active
<1>5. PageOK'
  BY <1>1, <1>3, PageFrame DEF DispatcherInv, Open
<1>6. HandOK'
  <2>1. Active(tick.sub) => deliveries'[tick.sub][tick.event].status = status
    BY <1>2, HandWritten
  <2> QED  BY <1>1, <2>1 DEF HandOK, Sending, Row, Active
<1> QED  BY <1>3, <1>4, <1>5, <1>6 DEF DispatcherInv

LEMMA MarkDeliveredStep ==
  ASSUME DispatcherInv, MarkDelivered
  PROVE  DispatcherInv'
<1>1. tick.attempts \in 0..MaxAttempts /\ tick.attempts < MaxAttempts
  BY DEF MarkDelivered, DispatcherInv, DispatcherTypeOK, TickRecord, HandOK, Sending
<1> QED  BY <1>1, SettlingStep DEF MarkDelivered, Settled

LEMMA MarkExhaustedStep ==
  ASSUME DispatcherInv, MarkExhausted
  PROVE  DispatcherInv'
<1>1. tick.attempts \in 0..MaxAttempts /\ tick.attempts < MaxAttempts
  BY DEF MarkExhausted, DispatcherInv, DispatcherTypeOK, TickRecord, HandOK, Sending
<1>2. Attempts \in 0..MaxAttempts /\ Attempts = tick.attempts + 1
  BY <1>1, DispatcherBounds DEF Attempts
<1> QED  BY <1>2, SettlingStep DEF MarkExhausted, Settled

-----------------------------------------------------------------------------
(* Steps that write a subscription row.                                    *)

LEMMA CreateWebhookStep ==
  ASSUME NEW s \in Subs, DispatcherInv, CreateWebhook(s)
  PROVE  DispatcherInv'
<1> DEFINE r == [state |-> "active", cursor |-> events, since |-> events]
<1>1. /\ subs[s].state = "absent"
      /\ UNCHANGED <<events, deliveries, mode, tick, posts, crashes, stops, faults>>
  BY DEF CreateWebhook
<1>2. r \in SubRow /\ r.state = "active" /\ r.cursor = events /\ r.since = events
  BY DEF SubRow, DispatcherInv, DispatcherTypeOK
<1>3. subs' = [subs EXCEPT ![s] = r]
  BY DEF CreateWebhook
<1> HIDE DEF r
<1>4. /\ subs' \in [Subs -> SubRow] /\ subs'[s] = r
      /\ \A t \in Subs : t # s => subs'[t] = subs[t]
  BY <1>2, <1>3 DEF DispatcherInv, DispatcherTypeOK
<1>5. DispatcherTypeOK'
  BY <1>1, <1>4 DEF DispatcherInv, DispatcherTypeOK
<1>6. s \notin tick.todo /\ (Open => tick.sub # s) /\ tick.todo \subseteq Subs
  BY <1>1 DEF DispatcherInv, TickOK, DispatcherTypeOK, TickRecord
<1>7. TickOK'
  BY <1>1, <1>4, <1>6 DEF DispatcherInv, TickOK, Open, Sending, Active
<1>8. HandOK'
  BY <1>1, <1>4, <1>6 DEF DispatcherInv, TickOK, HandOK, Open, Sending, Active, Row
<1>9. PageOK'
  BY <1>1, <1>4, <1>6 DEF DispatcherInv, TickOK, PageOK, Open, Active
<1>10. RowsOK'
  BY <1>1, <1>2, <1>4 DEF DispatcherInv, RowsOK, RowOK, NoDelivery
<1>11. CursorSkipsNothing'
  <2> SUFFICES ASSUME NEW t \in Subs, subs'[t].state = "active", NEW e \in Wants[t],
                      subs'[t].since < e, e <= subs'[t].cursor
               PROVE  deliveries[t][e].status \in Settled
    BY <1>1 DEF CursorSkipsNothing
  <2>1. events \in Nat /\ e \in Nat
    BY DispatcherBounds, WantsAreEvents DEF DispatcherInv, DispatcherTypeOK, Events
  <2>2. t # s
    BY <1>2, <1>4, <2>1
  <2> QED  BY <1>4, <2>2 DEF DispatcherInv, CursorSkipsNothing
<1>12. PostsOK'
  <2> SUFFICES ASSUME NEW t \in Subs, NEW e \in Events
               PROVE  PostOK(t, e)'
    BY DEF PostsOK
  <2>1. /\ PostOK(t, e) /\ Lost' = Lost /\ Lost \in Nat /\ (InFlight(t, e)' <=> InFlight(t, e))
        /\ posts[t][e] \in Nat /\ deliveries[t][e].attempts \in Nat /\ MaxAttempts \in Nat
    BY <1>1, LostIsNat, DispatcherBounds
    DEF DispatcherInv, PostsOK, Lost, DispatcherTypeOK, DeliveryRow, InFlight
  <2>2. CASE t = s
    BY <1>1, <1>2, <1>4, <2>1, <2>2 DEF PostOK
  <2>3. CASE t # s
    BY <1>1, <1>4, <2>1, <2>3 DEF PostOK
  <2> QED  BY <2>2, <2>3
<1> QED  BY <1>5, <1>7, <1>8, <1>9, <1>10, <1>11, <1>12 DEF DispatcherInv

LEMMA DeleteWebhookStep ==
  ASSUME NEW s \in Subs, DispatcherInv, DeleteWebhook(s)
  PROVE  DispatcherInv'
<1>1. /\ tick.phase \in {"idle", "waiting"}
      /\ UNCHANGED <<events, mode, tick, posts, crashes, stops, faults>>
  BY DEF DeleteWebhook, Serving
<1>2. /\ subs' \in [Subs -> SubRow] /\ subs'[s].state = "deleted"
      /\ \A t \in Subs : t # s => subs'[t] = subs[t]
  BY DEF DeleteWebhook, DispatcherInv, DispatcherTypeOK, SubRow
<1>3. NoDelivery \in DeliveryRow /\ NoDelivery.status = "none" /\ NoDelivery.attempts = 0
  BY DispatcherBounds DEF NoDelivery, DeliveryRow, Statuses
<1>4. /\ deliveries' \in [Subs -> [Events -> DeliveryRow]]
      /\ \A e \in Events : deliveries'[s][e] = NoDelivery
      /\ \A t \in Subs : t # s => deliveries'[t] = deliveries[t]
  BY <1>3 DEF DeleteWebhook, DispatcherInv, DispatcherTypeOK
<1>5. DispatcherTypeOK'
  BY <1>1, <1>2, <1>4 DEF DispatcherInv, DispatcherTypeOK
<1>6. tick.todo \subseteq Subs /\ (Open => tick.sub \in Subs) /\ (Open /\ tick.phase # "page" => tick.event \in Events)
  BY <1>1, WantsAreEvents DEF DispatcherInv, TickOK, DispatcherTypeOK, TickRecord, Open, Sending
<1>7. TickOK'
  BY <1>1, <1>2, <1>6 DEF DispatcherInv, TickOK, Open, Sending, Active
<1>8. HandOK'
  BY <1>1, <1>2, <1>3, <1>4, <1>6 DEF DispatcherInv, HandOK, Open, Sending, Active, Row, Settled
<1>9. PageOK'
  BY <1>1, <1>2, <1>4, <1>6 DEF DispatcherInv, PageOK, Open, Active
<1>10. RowsOK'
  BY <1>1, <1>2, <1>3, <1>4 DEF DispatcherInv, RowsOK, RowOK
<1>11. CursorSkipsNothing'
  BY <1>2, <1>4 DEF DispatcherInv, CursorSkipsNothing
<1>12. PostsOK'
  <2> SUFFICES ASSUME NEW t \in Subs, NEW e \in Events
               PROVE  PostOK(t, e)'
    BY DEF PostsOK
  <2>1. PostOK(t, e) /\ Lost' = Lost /\ (InFlight(t, e)' <=> InFlight(t, e))
    BY <1>1 DEF DispatcherInv, PostsOK, Lost, InFlight
  <2> QED  BY <1>1, <1>2, <1>4, <2>1 DEF PostOK
<1> QED  BY <1>5, <1>7, <1>8, <1>9, <1>10, <1>11, <1>12 DEF DispatcherInv

\* The cursor moves to the head of the page, which is settled, and nothing
\* unsettled lies behind the head.
LEMMA CursorMoves ==
  ASSUME NEW s \in Subs, NEW e \in Events, DispatcherInv,
         Open, tick.sub = s, tick.phase \in {"page", "settle"},
         e \in tick.page, \A f \in tick.page : e <= f,
         Active(s) => deliveries[s][e].status \in Settled,
         subs' = Advanced(s, e),
         tick' \in TickRecord, tick'.phase = "page", tick'.sub = s,
         tick'.page = tick.page \ {e}, tick'.todo = tick.todo,
         UNCHANGED <<events, deliveries, mode, posts, crashes, stops, faults>>
  PROVE  DispatcherInv'
<1>1. e \in Nat /\ e \in 0..MaxEvents /\ subs[s] \in SubRow /\ subs[s].cursor \in Nat
  BY DispatcherBounds DEF Events, DispatcherInv, DispatcherTypeOK, SubRow
<1>2. /\ subs' \in [Subs -> SubRow]
      /\ subs'[s].state = subs[s].state /\ subs'[s].since = subs[s].since
      /\ subs'[s].cursor = subs[s].cursor \/ (Active(s) /\ subs'[s].cursor = e)
      /\ \A t \in Subs : t # s => subs'[t] = subs[t]
  <2> DEFINE r == IF Active(s) /\ subs[s].cursor < e THEN [subs[s] EXCEPT !.cursor = e] ELSE subs[s]
  <2>1. r \in SubRow /\ r.state = subs[s].state /\ r.since = subs[s].since
    BY <1>1 DEF SubRow
  <2>2. r.cursor = subs[s].cursor \/ (Active(s) /\ r.cursor = e)
    BY <1>1 DEF SubRow
  <2>3. subs' = [subs EXCEPT ![s] = r]
    BY DEF Advanced, Active, DispatcherInv, DispatcherTypeOK
  <2> HIDE DEF r
  <2> QED  BY <2>1, <2>2, <2>3 DEF DispatcherInv, DispatcherTypeOK
<1>3. \A t \in Subs : subs'[t].state = subs[t].state /\ subs'[t].since = subs[t].since
  BY <1>2
<1>4. DispatcherTypeOK'
  BY <1>2 DEF DispatcherInv, DispatcherTypeOK
<1>5. tick.todo \subseteq Subs /\ tick.page \subseteq Wants[s] /\ Wants[s] \subseteq Events
  BY WantsAreEvents DEF DispatcherInv, DispatcherTypeOK, TickRecord, TickOK
<1>6. TickOK'
  BY <1>3, <1>5 DEF DispatcherInv, TickOK, Open, Sending
<1>7. HandOK'
  BY DEF HandOK, Sending
<1>8. ASSUME Active(s), NEW f \in Wants[s], subs[s].since < f, f < e
      PROVE  deliveries[s][f].status \in Settled
  <2>1. f \notin tick.page
    BY <1>1, <1>5, <1>8, DispatcherBounds DEF Events
  <2> QED  BY <1>8, <2>1 DEF DispatcherInv, PageOK
<1>9. PageOK'
  <2> SUFFICES ASSUME Active(s), NEW g \in tick.page \ {e}, NEW f \in Wants[s],
                      subs[s].since < f, f < g, f \notin tick.page \ {e}
               PROVE  deliveries[s][f].status \in Settled
    BY <1>3 DEF PageOK, Active
  <2>1. CASE f = e
    BY <2>1
  <2>2. CASE f # e
    BY <2>2 DEF DispatcherInv, PageOK
  <2> QED  BY <2>1, <2>2
<1>10. RowsOK'
  BY <1>3 DEF DispatcherInv, RowsOK, RowOK
<1>11. CursorSkipsNothing'
  <2> SUFFICES ASSUME NEW t \in Subs, subs[t].state = "active", NEW f \in Wants[t],
                      subs[t].since < f, f <= subs'[t].cursor
               PROVE  deliveries[t][f].status \in Settled
    BY <1>3 DEF CursorSkipsNothing
  <2>1. CASE subs'[t].cursor = subs[t].cursor
    BY <2>1 DEF DispatcherInv, CursorSkipsNothing
  <2>2. CASE subs'[t].cursor # subs[t].cursor
    <3>1. t = s /\ Active(s) /\ subs'[t].cursor = e
      BY <1>2, <2>2
    <3>2. f \in Nat
      BY <1>5, <3>1, DispatcherBounds DEF Events
    <3>3. f < e \/ f = e
      BY <1>1, <3>1, <3>2
    <3> QED  BY <1>8, <3>1, <3>3
  <2> QED  BY <2>1, <2>2
<1>12. PostsOK'
  <2> SUFFICES ASSUME NEW t \in Subs, NEW f \in Events
               PROVE  PostOK(t, f)'
    BY DEF PostsOK
  <2>1. PostOK(t, f) /\ Lost' = Lost /\ ~InFlight(t, f) /\ ~InFlight(t, f)'
    BY DEF DispatcherInv, PostsOK, Lost, InFlight
  <2> QED  BY <1>3, <2>1 DEF PostOK
<1> QED  BY <1>4, <1>6, <1>7, <1>9, <1>10, <1>11, <1>12 DEF DispatcherInv

LEMMA SkipSettledStep ==
  ASSUME NEW s \in Subs, NEW e \in Events, DispatcherInv, SkipSettled(s, e)
  PROVE  DispatcherInv'
<1>1. /\ tick' \in TickRecord /\ tick'.phase = "page" /\ tick'.sub = s
      /\ tick'.page = tick.page \ {e} /\ tick'.todo = tick.todo
      /\ tick.phase = "page" /\ tick.sub = s /\ e \in tick.page /\ \A f \in tick.page : e <= f
  BY DEF SkipSettled, NextEvent, DispatcherInv, DispatcherTypeOK, TickRecord
<1> QED  BY <1>1, CursorMoves DEF SkipSettled, Open

LEMMA AdvanceCursorStep ==
  ASSUME DispatcherInv, AdvanceCursor
  PROVE  DispatcherInv'
<1>1. /\ tick.phase = "settle" /\ tick.sub \in Subs /\ tick.event \in Events
      /\ tick.event \in tick.page /\ \A f \in tick.page : tick.event <= f
      /\ Active(tick.sub) => deliveries[tick.sub][tick.event].status \in Settled
  BY WantsAreEvents DEF AdvanceCursor, DispatcherInv, TickOK, HandOK, Open, Row
<1>2. 0 \in 0..MaxEvents /\ 0 \in 0..MaxAttempts
  BY DispatcherBounds
<1>3. /\ tick' \in TickRecord /\ tick'.phase = "page" /\ tick'.sub = tick.sub
      /\ tick'.page = tick.page \ {tick.event} /\ tick'.todo = tick.todo
  BY <1>2 DEF AdvanceCursor, DispatcherInv, DispatcherTypeOK, TickRecord, Phases
<1> QED  BY <1>1, <1>3, CursorMoves DEF AdvanceCursor, Open

-----------------------------------------------------------------------------
(* The theorems.                                                           *)

LEMMA InitInv ==
  ASSUME DispatcherInit
  PROVE  DispatcherInv
<1>1. NoDelivery \in DeliveryRow /\ NoDelivery.status = "none" /\ NoDelivery.attempts = 0
  BY DispatcherBounds DEF NoDelivery, DeliveryRow, Statuses
<1>2. tick \in TickRecord /\ tick.phase = "idle" /\ tick.todo = {}
  BY DispatcherBounds DEF DispatcherInit, Resting, TickRecord, Phases
<1>3. subs \in [Subs -> SubRow] /\ \A s \in Subs : subs[s].state = "absent"
  BY DispatcherBounds DEF DispatcherInit, SubRow
<1>4. DispatcherTypeOK
  BY <1>1, <1>2, <1>3, DispatcherBounds DEF DispatcherInit, DispatcherTypeOK
<1>5. TickOK /\ HandOK /\ PageOK /\ CursorSkipsNothing
  BY <1>2, <1>3 DEF DispatcherInit, TickOK, HandOK, PageOK, CursorSkipsNothing, Open, Sending
<1>6. RowsOK
  BY <1>1 DEF DispatcherInit, RowsOK, RowOK
<1>7. PostsOK
  BY <1>3, DispatcherBounds DEF DispatcherInit, PostsOK, PostOK, Lost
<1> QED  BY <1>4, <1>5, <1>6, <1>7 DEF DispatcherInv

LEMMA StutterInv ==
  ASSUME DispatcherInv, UNCHANGED vars
  PROVE  DispatcherInv'
BY DEF vars, DispatcherInv, DispatcherTypeOK, TickOK, HandOK, PageOK, RowsOK, RowOK,
       CursorSkipsNothing, PostsOK, PostOK, InFlight, Lost, Open, Sending, Active, Row

\* Every step, of the tick, of a request or of the process, keeps the invariant.
LEMMA NextInv ==
  ASSUME DispatcherInv, DispatcherNext
  PROVE  DispatcherInv'
<1>1. CASE TickStep
  <2>1. ASSUME NEW s \in Subs, TakeSubscription(s) PROVE DispatcherInv'
    BY <2>1, TakeSubscriptionStep
  <2>2. ASSUME NEW s \in Subs, NEW e \in Events,
               SkipSettled(s, e) \/ Retry(s, e) \/ CreateDelivery(s, e)
        PROVE  DispatcherInv'
    BY <2>2, SkipSettledStep, RetryStep, CreateDeliveryStep
  <2>3. ASSUME NEW s \in Subs, NEW e \in Events, Blocked(s, e) \/ CreateDeliveryRefused(s, e)
        PROVE  DispatcherInv'
    BY <2>3, PageOverStep DEF Blocked, CreateDeliveryRefused, NextEvent, Quiet
  <2>4. ASSUME PageDrained PROVE DispatcherInv'
    BY <2>4, PageOverStep DEF PageDrained, Quiet
  <2> QED  BY <1>1, <2>1, <2>2, <2>3, <2>4, TickStartsStep, TickEndsStep, PostStep,
              MarkDeliveredStep, MarkRetryScheduledStep, MarkExhaustedStep, AdvanceCursorStep
           DEF TickStep
<1>2. CASE RequestStep
  BY <1>2, AppendEventStep, CreateWebhookStep, DeleteWebhookStep DEF RequestStep
<1>3. CASE Answers
  BY <1>3, AnswerStep DEF Answers
<1>4. CASE \E s \in Subs, e \in Events : RetryDue(s, e)
  BY <1>4, RetryDueStep
<1>5. CASE StorageFails \/ Start \/ Close \/ AnswerAfterClose \/ Crash
  BY <1>5, StorageFailsStep, StartStep, CloseStep, AnswerAfterCloseStep, CrashStep
<1> QED  BY <1>1, <1>2, <1>3, <1>4, <1>5 DEF DispatcherNext

LEMMA InvHolds == DispatcherSafety => []DispatcherInv
<1>1. DispatcherInv /\ [DispatcherNext]_vars => DispatcherInv'
  BY NextInv, StutterInv
<1> QED  BY <1>1, InitInv, PTL DEF DispatcherSafety

\* The columns and the locals of a tick keep to their domains: attempts never
\* passes maxAttempts, whatever crashes and failed statements intervene.
THEOREM DispatcherTypeCorrect == DispatcherSafety => []DispatcherTypeOK
<1>1. DispatcherInv => DispatcherTypeOK
  BY DEF DispatcherInv
<1> QED  BY <1>1, InvHolds, PTL

\* No wanted event is ever behind the cursor without a settled delivery row.
THEOREM NothingIsSkipped == DispatcherSafety => []CursorSkipsNothing
<1>1. DispatcherInv => CursorSkipsNothing
  BY DEF DispatcherInv
<1> QED  BY <1>1, InvHolds, PTL

\* maxAttempts bounds the POSTs of an event, up to one for each lost record.
THEOREM PostsAreBounded == DispatcherSafety => []PostsBounded
<1>1. DispatcherInv => PostsBounded
  BY DispatcherBounds DEF DispatcherInv, PostsOK, PostOK, PostsBounded, Lost, DispatcherTypeOK
<1> QED  BY <1>1, InvHolds, PTL

-----------------------------------------------------------------------------
(* The dispatcher implements the tap.                                      *)

\* The cursor starts at the live edge, the page lies between the creation of
\* the subscription and the edge, and a POST that is answered was sent.
FeedOK ==
  /\ \A s \in Subs : subs[s].since <= subs[s].cursor
  /\ Open => \A e \in tick.page : subs[tick.sub].since < e /\ e <= events
  /\ tick.phase \in {"waiting", "ok", "failed"} => posts[tick.sub][tick.event] > 0

LEMMA FeedNumbers ==
  ASSUME DispatcherTypeOK
  PROVE  /\ events \in Nat
         /\ \A s \in Subs : subs[s].since \in Nat /\ subs[s].cursor \in Nat
         /\ \A e \in Events : e \in Nat
         /\ \A s \in Subs, e \in Events : posts[s][e] \in Nat
BY DispatcherBounds DEF DispatcherTypeOK, SubRow, Events

\* A step that keeps the subscriptions and, of the page and of the event in
\* hand, what was there.
LEMMA FeedFrame ==
  ASSUME FeedOK, UNCHANGED <<events, subs, posts>>,
         Open' => Open /\ tick'.sub = tick.sub /\ tick'.page \subseteq tick.page,
         tick'.phase \in {"waiting", "ok", "failed"} =>
           tick.phase \in {"waiting", "ok", "failed"} /\ tick'.event = tick.event
  PROVE  FeedOK'
BY DEF FeedOK, Open

LEMMA TickFeed ==
  ASSUME DispatcherInv, FeedOK, TickStep
  PROVE  FeedOK'
<1> USE DEF DispatcherInv
<1>1. tick \in TickRecord
  BY DEF DispatcherTypeOK
<1>2. CASE TickStarts \/ TickEnds
  <2>1. tick'.phase \in {"idle", "list"} /\ UNCHANGED <<events, subs, posts>>
    <3>1. CASE TickStarts
      BY <3>1 DEF TickStarts, Resting
    <3>2. CASE TickEnds
      BY <3>2 DEF TickEnds, Resting
    <3> QED  BY <1>2, <3>1, <3>2
  <2> QED  BY <2>1, FeedFrame DEF Open
<1>3. ASSUME NEW s \in Subs, TakeSubscription(s)
      PROVE  FeedOK'
  <2>1. /\ tick'.phase = "page" /\ tick'.sub = s /\ tick'.page = FirstPage(s)
        /\ UNCHANGED <<events, subs, posts>>
    BY <1>1, <1>3 DEF TakeSubscription, TickRecord
  <2>2. \A e \in FirstPage(s) : subs[s].since < e /\ e <= events
    BY FeedNumbers, WantsAreEvents DEF FirstPage, FeedOK
  <2> QED  BY <2>1, <2>2 DEF FeedOK, Open
<1>4. ASSUME tick' = PageOver, UNCHANGED <<events, subs, posts>>
      PROVE  FeedOK'
  BY <1>1, <1>4, PageOverTyped, FeedFrame DEF Open
<1>5. ASSUME NEW s \in Subs, NEW e \in Events, Retry(s, e) \/ CreateDelivery(s, e)
      PROVE  FeedOK'
  BY <1>1, <1>5, FeedFrame DEF Retry, CreateDelivery, NextEvent, Open, TickRecord
<1>6. ASSUME NEW s \in Subs, NEW e \in Events, subs' = Advanced(s, e), UNCHANGED <<events, posts>>,
             Open, tick.sub = s, tick'.sub = tick.sub, tick'.phase = "page",
             tick'.page = tick.page \ {e}
      PROVE  FeedOK'
  <2>1. subs[s] \in SubRow /\ e \in Nat
    BY FeedNumbers DEF DispatcherTypeOK
  <2>2. /\ subs'[s].since = subs[s].since /\ subs[s].since <= subs'[s].cursor
        /\ \A t \in Subs : t # s => subs'[t] = subs[t]
    BY <1>6, <2>1, FeedNumbers DEF Advanced, SubRow, FeedOK, DispatcherTypeOK
  <2> QED  BY <1>6, <2>2 DEF FeedOK, Open
<1>7. ASSUME NEW s \in Subs, NEW e \in Events, SkipSettled(s, e)
      PROVE  FeedOK'
  BY <1>1, <1>6, <1>7 DEF SkipSettled, NextEvent, Open, TickRecord
<1>8. CASE AdvanceCursor
  <2>1. tick.sub \in Subs /\ tick.event \in Events
    BY <1>8, WantsAreEvents DEF AdvanceCursor, TickOK, Open
  <2> QED  BY <1>1, <1>6, <1>8, <2>1 DEF AdvanceCursor, Open, TickRecord
<1>9. CASE MarkDelivered \/ MarkExhausted
  BY <1>1, <1>9, FeedFrame DEF MarkDelivered, MarkExhausted, Open, TickRecord
<1>10. CASE Post
  <2>1. /\ tick'.phase = "waiting" /\ tick'.sub = tick.sub /\ tick'.event = tick.event
        /\ tick'.page = tick.page /\ tick.phase = "post" /\ UNCHANGED <<events, subs>>
    BY <1>1, <1>10 DEF Post, TickRecord
  <2>2. tick.sub \in Subs /\ tick.event \in Events
    BY <2>1, WantsAreEvents DEF TickOK, Open, Sending
  <2>3. posts'[tick.sub][tick.event] > 0
    BY <1>10, <2>2, PostCounted, FeedNumbers DEF Post, DispatcherTypeOK
  <2> QED  BY <2>1, <2>3 DEF FeedOK, Open
<1> QED  BY <1>2, <1>3, <1>4, <1>5, <1>7, <1>8, <1>9, <1>10
         DEF TickStep, PageDrained, Blocked, CreateDeliveryRefused, MarkRetryScheduled

LEMMA NextFeed ==
  ASSUME DispatcherInv, FeedOK, DispatcherNext
  PROVE  FeedOK'
<1> USE DEF DispatcherInv
<1>1. tick \in TickRecord
  BY DEF DispatcherTypeOK
<1>2. CASE AppendEvent
  BY <1>2, FeedNumbers, WantsAreEvents DEF AppendEvent, FeedOK, Open, TickOK
<1>3. ASSUME NEW s \in Subs, CreateWebhook(s)
      PROVE  FeedOK'
  <2>1. /\ subs[s].state = "absent" /\ UNCHANGED <<events, tick, posts>>
        /\ subs'[s].since = events /\ subs'[s].cursor = events
        /\ \A t \in Subs : t # s => subs'[t] = subs[t]
    BY <1>3 DEF CreateWebhook, DispatcherTypeOK
  <2>2. Open => tick.sub \in Subs /\ tick.sub # s
    BY <2>1 DEF TickOK
  <2> QED  BY <2>1, <2>2, FeedNumbers DEF FeedOK, Open
<1>4. ASSUME NEW s \in Subs, DeleteWebhook(s)
      PROVE  FeedOK'
  <2>1. /\ UNCHANGED <<events, tick, posts>>
        /\ \A t \in Subs : subs'[t].since = subs[t].since /\ subs'[t].cursor = subs[t].cursor
    BY <1>4 DEF DeleteWebhook, DispatcherTypeOK, SubRow
  <2> QED  BY <2>1 DEF FeedOK, Open, TickOK
<1>5. CASE RequestStep
  BY <1>2, <1>3, <1>4, <1>5 DEF RequestStep
<1>6. CASE Answers
  BY <1>1, <1>6, FeedFrame DEF Answers, Answer, Open, TickRecord
<1>7. CASE StorageFails
  BY <1>1, <1>7, PageOverTyped, FeedFrame DEF StorageFails, Open
<1>8. ASSUME NEW s \in Subs, NEW e \in Events, RetryDue(s, e)
      PROVE  FeedOK'
  BY <1>8, FeedFrame DEF RetryDue, Open
<1>9. CASE Start \/ Close
  BY <1>9, FeedFrame DEF Start, Close, Open
<1>10. CASE AnswerAfterClose \/ Crash
  BY <1>10, FeedFrame DEF AnswerAfterClose, Crash, Resting, Open
<1> QED  BY TickFeed, <1>5, <1>6, <1>7, <1>8, <1>9, <1>10 DEF DispatcherNext

\* The state of the tap that the dispatcher stands for.
LEMMA TapUnchanged ==
  ASSUME UNCHANGED <<events, subs, posts>>,
         \A s \in Subs, e \in Events : deliveries'[s][e].status = deliveries[s][e].status
  PROVE  UNCHANGED Tap!tapVars
<1>1. \A s \in Subs : Wants[s] \subseteq Events
  BY WantsAreEvents
<1>2. [s \in Subs |-> {e \in Wants[s] : deliveries'[s][e].status \in Settled}]
        = [s \in Subs |-> {e \in Wants[s] : deliveries[s][e].status \in Settled}]
  BY <1>1
<1> QED  BY <1>2 DEF Tap!tapVars

\* The event in hand is next in turn: what lies before it is settled.
LEMMA TurnIsKept ==
  ASSUME DispatcherInv, FeedOK, Sending, Active(tick.sub)
  PROVE  /\ tick.sub \in Subs /\ tick.event \in Wants[tick.sub] /\ tick.event \in Events
         /\ Tap!Turn(tick.sub, tick.event)
<1> USE DEF DispatcherInv
<1>1. /\ tick.sub \in Subs /\ tick.page \subseteq Wants[tick.sub] /\ Wants[tick.sub] \subseteq Events
      /\ tick.event \in tick.page /\ Open
  BY WantsAreEvents DEF TickOK, Open, Sending
<1>2. subs[tick.sub].since < tick.event /\ tick.event <= events /\ Row.status \notin Settled
  BY <1>1 DEF FeedOK, HandOK
<1>3. ASSUME NEW f \in Wants[tick.sub], subs[tick.sub].since < f, f < tick.event
      PROVE  deliveries[tick.sub][f].status \in Settled
  <2>1. f \notin tick.page
    BY <1>1, <1>3, FeedNumbers DEF TickOK
  <2> QED  BY <1>1, <1>3, <2>1 DEF PageOK
<1> QED  BY <1>1, <1>2, <1>3 DEF Tap!Turn, Tap!Backlog, Row

\* A recorded end of an attempt is a step of the tap, or none when the
\* subscription is gone.
LEMMA SettleIsTapStep ==
  ASSUME DispatcherInv, FeedOK, tick.phase \in {"ok", "failed"},
         NEW status \in Settled, NEW attempts \in 0..MaxAttempts,
         Update(status, attempts, "due"), UNCHANGED <<events, subs, posts>>
  PROVE  [Tap!Next]_(Tap!tapVars)
<1>1. status \in Statuses
  BY DEF Settled, Statuses
<1>2. /\ tick.sub \in Subs /\ tick.event \in Events
      /\ Active(tick.sub) => deliveries'[tick.sub][tick.event].status = status
      /\ ~Active(tick.sub) => deliveries'[tick.sub][tick.event] = NoDelivery
      /\ \A s \in Subs, e \in Events :
           s # tick.sub \/ e # tick.event => deliveries'[s][e] = deliveries[s][e]
  BY <1>1, HandWritten
<1>3. CASE ~Active(tick.sub)
  <2>1. deliveries[tick.sub][tick.event] = NoDelivery
    BY <1>2, <1>3 DEF DispatcherInv, RowsOK, RowOK, Active
  <2> QED  BY <1>2, <1>3, <2>1, TapUnchanged
<1>4. CASE Active(tick.sub)
  <2>1. tick.event \in Wants[tick.sub] /\ Tap!Turn(tick.sub, tick.event)
    BY <1>4, TurnIsKept DEF Sending
  <2>2. posts[tick.sub][tick.event] > 0
    BY DEF FeedOK
  <2>3. \A s \in Subs : Wants[s] \subseteq Events
    BY WantsAreEvents
  <2>4. [s \in Subs |-> {e \in Wants[s] : deliveries'[s][e].status \in Settled}]
          = [[s \in Subs |-> {e \in Wants[s] : deliveries[s][e].status \in Settled}]
               EXCEPT ![tick.sub] = @ \cup {tick.event}]
    <3> DEFINE Was(s) == {e \in Wants[s] : deliveries[s][e].status \in Settled}
               Is(s) == {e \in Wants[s] : deliveries'[s][e].status \in Settled}
    <3>1. Is(tick.sub) = Was(tick.sub) \cup {tick.event}
      BY <1>2, <1>4, <2>1, <2>3
    <3>2. \A s \in Subs : s # tick.sub => Is(s) = Was(s)
      BY <1>2, <2>3
    <3> HIDE DEF Was, Is
    <3>3. [s \in Subs |-> Is(s)] = [[s \in Subs |-> Was(s)] EXCEPT ![tick.sub] = @ \cup {tick.event}]
      BY <1>2, <3>1, <3>2
    <3> QED  BY <3>3 DEF Was, Is
  <2>5. /\ tick.sub \in {s \in Subs : subs[s].state = "active"}
        /\ [s \in Subs |-> [e \in Wants[s] |-> posts[s][e]]][tick.sub][tick.event] > 0
    BY <1>2, <1>4, <2>1, <2>2 DEF Active
  <2>6. PICK t \in Subs, f \in Events : t = tick.sub /\ f = tick.event
    BY <1>2
  <2>7. Tap!Settle(t, f)
    BY <2>1, <2>4, <2>5, <2>6 DEF Tap!Settle
  <2> QED  BY <2>1, <2>6, <2>7 DEF Tap!Next
<1> QED  BY <1>3, <1>4

LEMMA PostIsOffer ==
  ASSUME DispatcherInv, FeedOK, Post
  PROVE  Tap!Next
<1>1. tick.phase = "post" /\ UNCHANGED <<events, subs, deliveries>> /\ Active(tick.sub) /\ Sending
  BY DEF Post, DispatcherInv, TickOK, Sending
<1>2. /\ tick.sub \in Subs /\ tick.event \in Events
      /\ tick.event \in Wants[tick.sub] /\ Tap!Turn(tick.sub, tick.event)
  BY <1>1, TurnIsKept
<1>3. /\ posts'[tick.sub][tick.event] = posts[tick.sub][tick.event] + 1
      /\ \A s \in Subs, e \in Events : s # tick.sub \/ e # tick.event => posts'[s][e] = posts[s][e]
  BY <1>2, PostCounted DEF Post, DispatcherInv, DispatcherTypeOK
<1>4. \A s \in Subs : Wants[s] \subseteq Events
  BY WantsAreEvents
<1>5. [s \in Subs |-> [e \in Wants[s] |-> posts'[s][e]]]
        = [[s \in Subs |-> [e \in Wants[s] |-> posts[s][e]]] EXCEPT ![tick.sub][tick.event] = @ + 1]
  <2> DEFINE Was(s) == [e \in Wants[s] |-> posts[s][e]]
             Is(s) == [e \in Wants[s] |-> posts'[s][e]]
  <2>1. Is(tick.sub) = [Was(tick.sub) EXCEPT ![tick.event] = @ + 1]
    BY <1>2, <1>3, <1>4
  <2>2. \A s \in Subs : s # tick.sub => Is(s) = Was(s)
    BY <1>3, <1>4
  <2> HIDE DEF Was, Is
  <2>3. [s \in Subs |-> Is(s)] = [[s \in Subs |-> Was(s)] EXCEPT ![tick.sub][tick.event] = @ + 1]
    BY <1>2, <2>1, <2>2
  <2> QED  BY <2>3 DEF Was, Is
<1>6. PICK t \in Subs, f \in Events : t = tick.sub /\ f = tick.event
  BY <1>2
<1>7. Tap!Offer(t, f)
  BY <1>1, <1>2, <1>5, <1>6 DEF Tap!Offer, Active
<1> QED  BY <1>2, <1>6, <1>7 DEF Tap!Next

LEMMA NextIsTapStep ==
  ASSUME DispatcherInv, FeedOK, [DispatcherNext]_vars
  PROVE  [Tap!Next]_(Tap!tapVars)
<1> USE DEF DispatcherInv
<1>1. ASSUME UNCHANGED <<events, subs, deliveries, posts>>
      PROVE  [Tap!Next]_(Tap!tapVars)
  BY <1>1, TapUnchanged
<1>2. CASE AppendEvent
  <2>1. Tap!Publish
    BY <1>2 DEF AppendEvent, Tap!Publish
  <2> QED  BY <2>1 DEF Tap!Next
<1>3. ASSUME NEW s \in Subs, CreateWebhook(s)
      PROVE  [Tap!Next]_(Tap!tapVars)
  <2>1. /\ subs[s].state = "absent" /\ UNCHANGED <<events, deliveries, posts>>
        /\ subs'[s].since = events /\ subs'[s].state = "active"
        /\ \A t \in Subs : t # s => subs'[t] = subs[t]
    BY <1>3 DEF CreateWebhook, DispatcherTypeOK
  <2>2. {t \in Subs : subs'[t].state = "active"} = {t \in Subs : subs[t].state = "active"} \cup {s}
    BY <2>1
  <2>3. [t \in Subs |-> subs'[t].since] = [[t \in Subs |-> subs[t].since] EXCEPT ![s] = events]
    BY <2>1
  <2>4. Tap!Subscribe(s)
    BY <2>1, <2>2, <2>3 DEF Tap!Subscribe
  <2> QED  BY <2>4 DEF Tap!Next
<1>4. ASSUME NEW s \in Subs, DeleteWebhook(s)
      PROVE  [Tap!Next]_(Tap!tapVars)
  <2>1. /\ subs[s].state = "active" /\ UNCHANGED <<events, posts>>
        /\ subs'[s].state = "deleted"
        /\ \A t \in Subs : subs'[t].since = subs[t].since /\ (t # s => subs'[t] = subs[t])
        /\ \A e \in Events : deliveries'[s][e] = NoDelivery
        /\ \A t \in Subs : t # s => deliveries'[t] = deliveries[t]
    BY <1>4 DEF DeleteWebhook, DispatcherTypeOK, SubRow
  <2>2. {t \in Subs : subs'[t].state = "active"} = {t \in Subs : subs[t].state = "active"} \ {s}
    BY <2>1
  <2>3. NoDelivery.status \notin Settled
    BY DEF NoDelivery, Settled
  <2>4. Wants[s] \subseteq Events
    BY WantsAreEvents
  <2>5. [t \in Subs |-> {e \in Wants[t] : deliveries'[t][e].status \in Settled}]
          = [[t \in Subs |-> {e \in Wants[t] : deliveries[t][e].status \in Settled}] EXCEPT ![s] = {}]
    <3> DEFINE Was(t) == {e \in Wants[t] : deliveries[t][e].status \in Settled}
               Is(t) == {e \in Wants[t] : deliveries'[t][e].status \in Settled}
    <3>1. Is(s) = {} /\ \A t \in Subs : t # s => Is(t) = Was(t)
      BY <2>1, <2>3, <2>4
    <3> HIDE DEF Was, Is
    <3>2. [t \in Subs |-> Is(t)] = [[t \in Subs |-> Was(t)] EXCEPT ![s] = {}]
      BY <3>1
    <3> QED  BY <3>2 DEF Was, Is
  <2>6. [t \in Subs |-> subs'[t].since] = [t \in Subs |-> subs[t].since]
    BY <2>1
  <2>7. Tap!Unsubscribe(s)
    BY <2>1, <2>2, <2>5, <2>6 DEF Tap!Unsubscribe
  <2> QED  BY <2>7 DEF Tap!Next
<1>5. CASE RequestStep
  BY <1>2, <1>3, <1>4, <1>5 DEF RequestStep
<1>6. ASSUME NEW s \in Subs, NEW e \in Events, subs' = Advanced(s, e), UNCHANGED <<events, deliveries, posts>>
      PROVE  [Tap!Next]_(Tap!tapVars)
  <2>1. subs[s] \in SubRow
    BY DEF DispatcherTypeOK
  <2>2. \A t \in Subs : subs'[t].state = subs[t].state /\ subs'[t].since = subs[t].since
    BY <1>6, <2>1 DEF Advanced, SubRow, DispatcherTypeOK
  <2>3. /\ {t \in Subs : subs'[t].state = "active"} = {t \in Subs : subs[t].state = "active"}
        /\ [t \in Subs |-> subs'[t].since] = [t \in Subs |-> subs[t].since]
    BY <2>2
  <2> QED  BY <1>6, <2>3 DEF Tap!tapVars
<1>7. ASSUME NEW s \in Subs, NEW e \in Events, UNCHANGED <<events, subs, posts>>, NEW r,
             deliveries' = [deliveries EXCEPT ![s][e] = r],
             r.status \notin Settled, deliveries[s][e].status \notin Settled
      PROVE  [Tap!Next]_(Tap!tapVars)
  <2>1. \A t \in Subs, f \in Events :
          deliveries'[t][f].status \in Settled <=> deliveries[t][f].status \in Settled
    BY <1>7 DEF DispatcherTypeOK
  <2>2. \A t \in Subs : Wants[t] \subseteq Events
    BY WantsAreEvents
  <2>3. [t \in Subs |-> {f \in Wants[t] : deliveries'[t][f].status \in Settled}]
          = [t \in Subs |-> {f \in Wants[t] : deliveries[t][f].status \in Settled}]
    BY <2>1, <2>2
  <2> QED  BY <1>7, <2>3 DEF Tap!tapVars
<1>8. ASSUME NEW s \in Subs, NEW e \in Events, CreateDelivery(s, e)
      PROVE  [Tap!Next]_(Tap!tapVars)
  <2> DEFINE r == [NoDelivery EXCEPT !.status = "pending"]
  <2>1. r.status = "pending"
    BY DEF NoDelivery
  <2>2. /\ deliveries' = [deliveries EXCEPT ![s][e] = r] /\ deliveries[s][e].status = "none"
        /\ UNCHANGED <<events, subs, posts>>
    BY <1>8 DEF CreateDelivery
  <2> HIDE DEF r
  <2> QED  BY <1>7, <2>1, <2>2 DEF Settled
<1>9. ASSUME NEW s \in Subs, NEW e \in Events, RetryDue(s, e)
      PROVE  [Tap!Next]_(Tap!tapVars)
  <2>1. \A t \in Subs, f \in Events : deliveries'[t][f].status = deliveries[t][f].status
    BY <1>9 DEF RetryDue, DispatcherTypeOK, DeliveryRow
  <2> QED  BY <1>9, <2>1, TapUnchanged DEF RetryDue
<1>10. CASE MarkRetryScheduled
  <2>1. /\ tick.sub \in Subs /\ tick.event \in Events /\ Row.status \notin Settled
        /\ Update("pending", Attempts, "later") /\ UNCHANGED <<events, subs, posts>>
    BY <1>10, WantsAreEvents DEF MarkRetryScheduled, TickOK, HandOK, Open, Sending
  <2> DEFINE new == [status |-> "pending", attempts |-> Attempts, next |-> "later"]
             r == IF Row.status = "none" THEN Row ELSE new
  <2>2. deliveries' = [deliveries EXCEPT ![tick.sub][tick.event] = r]
    BY <2>1 DEF Update, Row, DispatcherTypeOK
  <2>3. new.status = "pending"
    OBVIOUS
  <2>4. r.status \notin Settled
    BY <2>1, <2>3 DEF Settled
  <2> HIDE DEF r
  <2> QED  BY <1>7, <2>1, <2>2, <2>4 DEF Row
<1>11. CASE MarkDelivered \/ MarkExhausted
  <2>1. tick.attempts \in 0..MaxAttempts /\ tick.attempts < MaxAttempts
    BY <1>11 DEF MarkDelivered, MarkExhausted, DispatcherTypeOK, TickRecord, HandOK, Sending
  <2>2. Attempts \in 0..MaxAttempts
    BY <2>1, DispatcherBounds DEF Attempts
  <2> QED  BY <1>11, <2>1, <2>2, SettleIsTapStep DEF MarkDelivered, MarkExhausted, Settled
<1>12. CASE AdvanceCursor
  <2>1. tick.sub \in Subs /\ tick.event \in Events
    BY <1>12, WantsAreEvents DEF AdvanceCursor, TickOK, Open
  <2> QED  BY <1>6, <1>12, <2>1 DEF AdvanceCursor
<1>13. CASE TickStep
  <2>1. ASSUME NEW s \in Subs, TakeSubscription(s) PROVE [Tap!Next]_(Tap!tapVars)
    BY <1>1, <2>1 DEF TakeSubscription
  <2>2. ASSUME NEW s \in Subs, NEW e \in Events, SkipSettled(s, e) PROVE [Tap!Next]_(Tap!tapVars)
    BY <1>6, <2>2 DEF SkipSettled
  <2>3. ASSUME NEW s \in Subs, NEW e \in Events,
               Blocked(s, e) \/ Retry(s, e) \/ CreateDeliveryRefused(s, e)
        PROVE  [Tap!Next]_(Tap!tapVars)
    BY <1>1, <2>3 DEF Blocked, Retry, CreateDeliveryRefused
  <2>4. CASE TickStarts \/ TickEnds \/ PageDrained
    BY <1>1, <2>4 DEF TickStarts, TickEnds, PageDrained
  <2> QED  BY <1>8, <1>10, <1>11, <1>12, <1>13, <2>1, <2>2, <2>3, <2>4, PostIsOffer DEF TickStep
<1>14. CASE Answers \/ StorageFails \/ Start \/ Close \/ AnswerAfterClose \/ Crash
  BY <1>1, <1>14 DEF Answers, Answer, StorageFails, Start, Close, AnswerAfterClose, Crash
<1>15. CASE UNCHANGED vars
  BY <1>1, <1>15 DEF vars
<1> QED  BY <1>5, <1>9, <1>13, <1>14, <1>15 DEF DispatcherNext

LEMMA InitIsTapInit ==
  ASSUME DispatcherInit
  PROVE  Tap!Init /\ FeedOK
<1>1. /\ \A s \in Subs : subs[s].state = "absent" /\ subs[s].since = 0 /\ subs[s].cursor = 0
      /\ \A s \in Subs, e \in Events : deliveries[s][e] = NoDelivery /\ posts[s][e] = 0
      /\ events = 0 /\ tick.phase = "idle"
  BY DEF DispatcherInit, Resting
<1>2. NoDelivery.status \notin Settled
  BY DEF NoDelivery, Settled
<1>3. \A s \in Subs : Wants[s] \subseteq Events
  BY WantsAreEvents
<1>4. Tap!Init
  BY <1>1, <1>2, <1>3 DEF Tap!Init
<1>5. FeedOK
  BY <1>1 DEF FeedOK, Open
<1> QED  BY <1>4, <1>5

\* The dispatcher implements the tap: for every subscription, wanted events
\* are POSTed in feed order, never again once settled, never after deletion.
THEOREM DispatcherImplementsTap == DispatcherSafety => TapKept
<1>1. DispatcherInv /\ FeedOK /\ [DispatcherNext]_vars => FeedOK'
  <2>1. ASSUME FeedOK, UNCHANGED vars PROVE FeedOK'
    BY <2>1 DEF vars, FeedOK, Open
  <2> QED  BY <2>1, NextFeed
<1>2. DispatcherInv /\ FeedOK /\ [DispatcherNext]_vars => [Tap!Next]_(Tap!tapVars)
  BY NextIsTapStep
<1>3. DispatcherInit => Tap!Init /\ FeedOK
  BY InitIsTapInit
<1> QED  BY <1>1, <1>2, <1>3, InvHolds, PTL DEF DispatcherSafety, TapKept, Tap!Spec
=============================================================================
