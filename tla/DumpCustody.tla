---------------------------- MODULE DumpCustody ----------------------------
(***************************************************************************)
(* What the ledger promises about each dump to someone who sees only       *)
(* whether it may be downloaded: a dump comes in once, is published or     *)
(* refused once, and once it is withdrawn it never comes back.  A          *)
(* published dump may stop being readable without being withdrawn, when    *)
(* its files are lost; nothing makes it readable again.                    *)
(***************************************************************************)
CONSTANT Dumps

VARIABLES
  view,      \* what has become of the dump
  readable   \* whether a download of it is authorized now

custodyVars == <<view, readable>>

Views == {"none", "inbound", "published", "refused", "withdrawn"}

Init ==
  /\ view = [d \in Dumps |-> "none"]
  /\ readable = [d \in Dumps |-> FALSE]

Move(d, from, to) ==
  /\ view[d] \in from
  /\ view' = [view EXCEPT ![d] = to]

Receive(d) == Move(d, {"none"}, "inbound") /\ UNCHANGED readable
Publish(d) == Move(d, {"inbound"}, "published") /\ readable' = [readable EXCEPT ![d] = TRUE]
Refuse(d) == Move(d, {"inbound"}, "refused") /\ UNCHANGED readable
Withdraw(d) ==
  Move(d, {"published", "refused"}, "withdrawn") /\ readable' = [readable EXCEPT ![d] = FALSE]
LoseBytes(d) ==
  /\ view[d] = "published"
  /\ readable' = [readable EXCEPT ![d] = FALSE]
  /\ UNCHANGED view

Next ==
  \E d \in Dumps : Receive(d) \/ Publish(d) \/ Refuse(d) \/ Withdraw(d) \/ LoseBytes(d)

Spec == Init /\ [][Next]_custodyVars
=============================================================================
