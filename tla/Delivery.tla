------------------------------ MODULE Delivery ------------------------------
(***************************************************************************)
(* What the secure channel promises those who use it, over a network that   *)
(* loses, repeats and reorders: what a side is given was sent to it, is      *)
(* given to it once, and never after something of a later epoch; and a side  *)
(* that is over sends nothing and is given nothing.  Only its own will or    *)
(* the other side's last message ends a side.                                *)
(***************************************************************************)
EXTENDS Naturals

VARIABLES
  sent,        \* side -> message it sent -> the epoch it was sent in
  delivered,   \* side -> message it was given -> how often
  last,        \* side -> the message with which it ended, {m} or {}
  over         \* side -> it sends and receives no more

deliveryVars == <<sent, delivered, last, over>>

Side == {"client", "server"}
other(s) == IF s = "client" THEN "server" ELSE "client"

extended(f, x, v) == [y \in DOMAIN f \cup {x} |-> IF y = x THEN v ELSE f[y]]

DeliveryInit ==
  /\ sent = [s \in Side |-> << >>] /\ delivered = [s \in Side |-> << >>]
  /\ last = [s \in Side |-> {}] /\ over = [s \in Side |-> FALSE]

\* A new message, in the present epoch or a later one, may be the last.
Submit(s) ==
  /\ ~over[s]
  /\ \E m \in DOMAIN sent'[s] \ DOMAIN sent[s] :
       /\ \A x \in DOMAIN sent[s] : sent[s][x] <= sent'[s][m]
       /\ sent' = [sent EXCEPT ![s] = extended(@, m, sent'[s][m])]
       /\ \/ UNCHANGED <<last, over>>
          \/ last' = [last EXCEPT ![s] = {m}] /\ over' = [over EXCEPT ![s] = TRUE]
  /\ UNCHANGED delivered

Deliver(s) ==
  /\ ~over[s]
  /\ \E m \in DOMAIN sent[other(s)] \ DOMAIN delivered[s] :
       /\ \A x \in DOMAIN delivered[s] : sent[other(s)][x] <= sent[other(s)][m]
       /\ delivered' = [delivered EXCEPT ![s] = extended(@, m, 1)]
       /\ over' = [over EXCEPT ![s] = (m \in last[other(s)])]
  /\ UNCHANGED <<sent, last>>

End(s) == over' = [over EXCEPT ![s] = TRUE] /\ UNCHANGED <<sent, delivered, last>>

DeliveryNext == \E s \in Side : Submit(s) \/ Deliver(s) \/ End(s)

DeliverySpec == DeliveryInit /\ [][DeliveryNext]_deliveryVars
=============================================================================
