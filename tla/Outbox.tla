------------------------------- MODULE Outbox -------------------------------
(***************************************************************************)
(* The whole outbox of events/outbox.py: producers emit inside             *)
(* transactions, and relays publish what the store kept.  The two sides    *)
(* meet in the store: what a transaction keeps, the store holds as         *)
(* pending, in the same step.                                              *)
(***************************************************************************)
EXTENDS OutboxRelay

CONSTANTS Contexts, Transactions, Structured, None

ASSUME ProducerAssumption == Structured \in BOOLEAN /\ None \notin Contexts \cup Transactions

VARIABLES stagedVar, running, staged, outer, around, owner, outcome, emitted, within

Tx == INSTANCE OutboxTransactions WITH kept <- Kept

txVars == <<stagedVar, running, staged, outer, around, owner, outcome, emitted, within>>
outboxVars == <<vars, txVars>>

\* A step of a producer, and the records it hands to the store.
Produce == \E S \in SUBSET Records : Keep(S) /\ Tx!TxNext

\* A step of a relay or of time.
RelayStep == RelayNext /\ UNCHANGED txVars

OutboxInit == Init /\ Tx!TxInit
OutboxNext == Produce \/ RelayStep
OutboxSpec == OutboxInit /\ [][OutboxNext]_outboxVars

-----------------------------------------------------------------------------
\* Type correctness of both sides.
OutboxTypeOK == TypeOK /\ Tx!TxTypeOK

RolledBackNeverKept == Tx!RolledBackNeverKept
CommittedIsKept == Tx!CommittedIsKept

\* "If the unit then rolls back, the event has already left" is what the outbox is there to
\* prevent: nothing reaches the broker before every transaction around it exited cleanly.
PublishedOnlyIfCommitted ==
    \A i \in delivered : i \in emitted /\ \A t \in within[i] : outcome[t] = "clean"
=============================================================================
