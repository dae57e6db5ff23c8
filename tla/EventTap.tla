------------------------------ MODULE EventTap ------------------------------
(***************************************************************************)
(* What a webhook subscription promises its receiver: from its creation    *)
(* on, the events its filter selects are offered in feed order, each until *)
(* it is settled and none after that; the next one waits for it, and       *)
(* nothing is offered once the subscription is gone.                       *)
(***************************************************************************)
EXTENDS Naturals

CONSTANTS
  Subs,   \* subscriptions
  Wants   \* Wants[s]: the events the filter of s selects

VARIABLES
  edge,     \* the last event of the feed
  open,     \* the subscriptions that exist
  since,    \* where the feed was when a subscription was created
  offers,   \* offers[s][e]: how often e was sent to the receiver of s
  settled   \* settled[s]: the events s has finished with

tapVars == <<edge, open, since, offers, settled>>

Backlog(s) == {e \in Wants[s] : since[s] < e /\ e <= edge}

\* e is the first event of the backlog that is not settled.
Turn(s, e) ==
  /\ e \in Backlog(s) \ settled[s]
  /\ \A f \in Backlog(s) : f < e => f \in settled[s]

Init ==
  /\ edge = 0
  /\ open = {}
  /\ since = [s \in Subs |-> 0]
  /\ offers = [s \in Subs |-> [e \in Wants[s] |-> 0]]
  /\ settled = [s \in Subs |-> {}]

Publish ==
  /\ edge' = edge + 1
  /\ UNCHANGED <<open, since, offers, settled>>

Subscribe(s) ==
  /\ s \notin open
  /\ open' = open \cup {s}
  /\ since' = [since EXCEPT ![s] = edge]
  /\ UNCHANGED <<edge, offers, settled>>

Unsubscribe(s) ==
  /\ s \in open
  /\ open' = open \ {s}
  /\ settled' = [settled EXCEPT ![s] = {}]
  /\ UNCHANGED <<edge, since, offers>>

Offer(s, e) ==
  /\ s \in open
  /\ Turn(s, e)
  /\ offers' = [offers EXCEPT ![s][e] = @ + 1]
  /\ UNCHANGED <<edge, open, since, settled>>

Settle(s, e) ==
  /\ s \in open
  /\ Turn(s, e)
  /\ offers[s][e] > 0
  /\ settled' = [settled EXCEPT ![s] = @ \cup {e}]
  /\ UNCHANGED <<edge, open, since, offers>>

Next ==
  \/ Publish
  \/ \E s \in Subs : Subscribe(s) \/ Unsubscribe(s)
  \/ \E s \in Subs : \E e \in Wants[s] : Offer(s, e) \/ Settle(s, e)

Spec == Init /\ [][Next]_tapVars
=============================================================================
