--------------------------- MODULE OutboxDelivery ---------------------------
(***************************************************************************)
(* What an outbox promises (the guarantees in events/outbox.py's module    *)
(* doc): a kept record is published at least once and then sent, or it is  *)
(* parked as failed, and either way it is settled for good.                *)
(***************************************************************************)
CONSTANT Records

VARIABLES
    status,     \* "new" before it is kept, then "pending", "sent" or "failed"
    delivered   \* the records the broker has had at least once

deliveryVars == <<status, delivered>>

DeliveryInit ==
    /\ status = [i \in Records |-> "new"]
    /\ delivered = {}

Move(S, from, to) ==
    /\ \A i \in S : status[i] = from
    /\ status' = [i \in Records |-> IF i \in S THEN to ELSE status[i]]

\* A transaction commits, and its records with it.
KeepAll(S) == Move(S, "new", "pending") /\ UNCHANGED delivered

\* The broker gets a record that is still owed.
Deliver(i) ==
    /\ status[i] = "pending"
    /\ delivered' = delivered \cup {i}
    /\ UNCHANGED status

SettleSent(S) == S \subseteq delivered /\ Move(S, "pending", "sent") /\ UNCHANGED delivered

Park(i) == Move({i}, "pending", "failed") /\ UNCHANGED delivered

DeliveryNext ==
    \/ \E S \in SUBSET Records : KeepAll(S) \/ SettleSent(S)
    \/ \E i \in Records : Deliver(i) \/ Park(i)

DeliverySpec == DeliveryInit /\ [][DeliveryNext]_deliveryVars
=============================================================================
