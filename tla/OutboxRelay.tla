---------------------------- MODULE OutboxRelay ----------------------------
(***************************************************************************)
(* The relay of events/outbox.py and the store it works on, the code of    *)
(* InMemoryOutboxStore.  Relays interleave at every store call and every   *)
(* publish: the OutboxStore protocol lets a store be async and shared by   *)
(* processes.  Time is abstracted to its events: a lease runs out, a       *)
(* retry's available_at passes.  A record published by a route it lost     *)
(* fails like any other.  max_attempts is a number here, never None.       *)
(***************************************************************************)
EXTENDS Integers, FiniteSets

CONSTANTS
    Records,        \* message ids, numbered in the order of created_at
    Relays,         \* relaying tasks: an OutboxRelay's background task or a run_once
    BatchSize,
    MaxAttempts,
    LeaseMayLapse,  \* may a lease run out while its relay still works on the record
    MaxFaults       \* bound: outages, store errors, cancellations and crashes

ASSUME RelayAssumption ==
    /\ Records \subseteq Nat /\ IsFiniteSet(Records)
    /\ BatchSize \in Nat \ {0}
    /\ MaxAttempts \in Nat \ {0}
    /\ LeaseMayLapse \in BOOLEAN
    /\ MaxFaults \in Nat

VARIABLES
    \* the store
    status,     \* _status; "new" before the record is kept
    attempts,   \* the attempts of the stored record
    due,        \* the records whose available_at has passed
    leased,     \* the records with a lease that has not run out
    \* the relays
    pc,
    todo,       \* records[index:], the claimed records not dealt with yet
    sent,       \* the list of records published
    copy,       \* attempts of each claimed record, as the claim returned it
    \* the world
    delivered,  \* the records the broker has had at least once
    failures,   \* publishes of each record that failed for its own sake, counted up to
                \*     MaxAttempts
    faults

store == <<status, attempts, due, leased>>
relay == <<pc, todo, sent, copy>>
vars == <<store, relay, delivered, failures, faults>>

Statuses == {"new", "pending", "sent", "failed"}
PCs == {"stopped", "idle", "publish", "failed", "outage", "mark", "markThenStop"}
Held(r) == todo[r] \cup sent[r]
Kept == {i \in Records : status[i] # "new"}
Settled(i) == status[i] \in {"sent", "failed"}

-----------------------------------------------------------------------------
(* The store                                                               *)

\* Store the records under a status with the given attempts, releasing any lease.
Settle(S, to, count, isDue) ==
    /\ status' = [i \in Records |-> IF i \in S THEN to ELSE status[i]]
    /\ attempts' = [i \in Records |-> IF i \in S THEN count[i] ELSE attempts[i]]
    /\ due' = IF isDue THEN due \cup S ELSE due \ S
    /\ leased' = leased \ S

Keep(S) ==
    /\ \A i \in S : status[i] = "new"
    /\ Settle(S, "pending", [i \in Records |-> 0], TRUE)
    /\ UNCHANGED <<relay, delivered, failures, faults>>

\* Mutated form: a claim that overlooks the leases.
Claimable_Leased(i) == status[i] = "pending" /\ i \in due
Claimable_AnyStatus(i) == status[i] # "new" /\ i \in due /\ i \notin leased
Claimable(i) == status[i] = "pending" /\ i \in due /\ i \notin leased
Older(i) == {j \in Records : Claimable(j) /\ j < i}
Due == {i \in Records : Claimable(i) /\ Cardinality(Older(i)) < BatchSize}

\* Mutated form: a lease that is never over.
LeaseExpires_Never(i) == i \in leased /\ UNCHANGED vars

\* A lease runs out: the store takes the record for claimable again.
LeaseExpires(i) ==
    /\ i \in leased
    /\ LeaseMayLapse \/ \A r \in Relays : i \notin Held(r)
    /\ leased' = leased \ {i}
    /\ UNCHANGED <<status, attempts, due, relay, delivered, failures, faults>>

RetryDue(i) ==
    /\ status[i] = "pending" /\ i \notin due
    /\ due' = due \cup {i}
    /\ UNCHANGED <<status, attempts, leased, relay, delivered, failures, faults>>

-----------------------------------------------------------------------------
(* A relay                                                                 *)

Fault == faults < MaxFaults /\ faults' = faults + 1
Oldest(S) == CHOOSE i \in S : \A j \in S : i <= j
Current(r) == Oldest(todo[r])               \* the record the loop is at

Goto(r, to) == pc' = [pc EXCEPT ![r] = to]
NoCopies == [i \in Records |-> 0]

\* A relay with nothing claimed, in its background loop or out of it.
Rest(r, at) ==
    /\ Goto(r, at)
    /\ todo' = [todo EXCEPT ![r] = {}]
    /\ sent' = [sent EXCEPT ![r] = {}]
    /\ copy' = [copy EXCEPT ![r] = NoCopies]

\* The end of the loop over the batch: mark what was sent, if anything was.
EndBatch(r, published) ==
    IF published = {} THEN Rest(r, "idle")
    ELSE /\ Goto(r, "mark")
         /\ todo' = [todo EXCEPT ![r] = {}]
         /\ sent' = [sent EXCEPT ![r] = published]
         /\ UNCHANGED copy

\* On to the next record of the batch, in state at.
Advance(r, published, at) ==
    IF todo[r] = {Current(r)} THEN EndBatch(r, published)
    ELSE /\ Goto(r, at)
         /\ todo' = [todo EXCEPT ![r] = @ \ {Current(r)}]
         /\ sent' = [sent EXCEPT ![r] = published]
         /\ UNCHANGED copy

Start(r) ==
    /\ pc[r] = "stopped"
    /\ Goto(r, "idle")
    /\ UNCHANGED <<store, todo, sent, copy, delivered, failures, faults>>

\* Claim up to BatchSize due, unleased, pending records, oldest first.
Claim(r) ==
    /\ pc[r] = "idle" /\ Due # {}
    /\ leased' = leased \cup Due
    /\ Goto(r, "publish")
    /\ todo' = [todo EXCEPT ![r] = Due]
    /\ copy' = [copy EXCEPT ![r] = [i \in Records |-> IF i \in Due THEN attempts[i] ELSE 0]]
    /\ UNCHANGED <<status, attempts, due, sent, delivered, failures, faults>>

\* The claim is made and its answer lost to a store error.
ClaimLost(r) ==
    /\ pc[r] = "idle" /\ Due # {}
    /\ Fault
    /\ leased' = leased \cup Due
    /\ UNCHANGED <<status, attempts, due, relay, delivered, failures>>

PublishOk(r) ==
    /\ pc[r] = "publish"
    /\ delivered' = delivered \cup {Current(r)}
    /\ Advance(r, sent[r] \cup {Current(r)}, "publish")
    /\ UNCHANGED <<store, failures, faults>>

\* A publish that raises may have reached the broker all the same.
MayDeliver(r) == delivered' \in {delivered, delivered \cup {Current(r)}}

PublishFails(r) ==
    /\ pc[r] = "publish"
    /\ MayDeliver(r)
    /\ failures' = [failures EXCEPT ![Current(r)] = IF @ < MaxAttempts THEN @ + 1 ELSE @]
    /\ Goto(r, "failed")
    /\ UNCHANGED <<store, todo, sent, copy, faults>>

PublishOutage(r) ==
    /\ pc[r] = "publish"
    /\ Fault
    /\ MayDeliver(r)
    /\ Goto(r, "outage")
    /\ UNCHANGED <<store, todo, sent, copy, failures>>

\* Mutated form: parked one attempt early.
OutOfAttempts_Early(n) == n + 1 >= MaxAttempts
OutOfAttempts(n) == n >= MaxAttempts

\* _failed: count the attempt, then park the record or put its retry off.
Failed(r) ==
    LET i == Current(r)
        n == copy[r][i] + 1
    IN  Settle({i}, IF OutOfAttempts(n) THEN "failed" ELSE "pending",
               [j \in Records |-> n], OutOfAttempts(n))

RecordFailure(r) ==
    /\ pc[r] = "failed"
    /\ Failed(r)
    /\ Advance(r, sent[r], "publish")
    /\ UNCHANGED <<delivered, failures, faults>>

\* Put a record back as it was claimed: its available_at has passed.
PutBack(r) == Settle({Current(r)}, "pending", copy[r], TRUE)

\* Mutated form: the record counted as sent although it was not published.
GiveBack_Sent(r) ==
    /\ pc[r] = "outage"
    /\ PutBack(r)
    /\ Advance(r, sent[r] \cup {Current(r)}, "outage")
    /\ UNCHANGED <<delivered, failures, faults>>

GiveBack(r) ==
    /\ pc[r] = "outage"
    /\ PutBack(r)
    /\ Advance(r, sent[r], "outage")
    /\ UNCHANGED <<delivered, failures, faults>>

\* The store call raises, having written or not; the rest of the batch stays leased.
StoreError(r) ==
    /\ pc[r] \in {"failed", "outage"}
    /\ Fault
    /\ \/ UNCHANGED store
       \/ pc[r] = "failed" /\ Failed(r)
       \/ pc[r] = "outage" /\ PutBack(r)
    /\ EndBatch(r, sent[r])
    /\ UNCHANGED <<delivered, failures>>

\* What else goes wrong on the way out is counted with the cancellation.
FaultMarking(r) == IF pc[r] = "mark" THEN Fault ELSE UNCHANGED faults

Marked(r) == sent[r]
AfterMark(r) == IF pc[r] = "mark" THEN "idle" ELSE "stopped"

MarkSent(r) ==
    /\ pc[r] \in {"mark", "markThenStop"}
    /\ Settle(Marked(r), "sent", copy[r], TRUE)
    /\ Rest(r, AfterMark(r))
    /\ UNCHANGED <<delivered, failures, faults>>

\* mark_sent raises: the loop takes it for a failed batch.  On the way out too, where the
\* error replaces the cancellation: the relay goes on until it is cancelled again.
MarkError(r) ==
    /\ pc[r] \in {"mark", "markThenStop"}
    /\ FaultMarking(r)
    /\ \/ UNCHANGED store
       \/ Settle(Marked(r), "sent", copy[r], TRUE)
    /\ Rest(r, "idle")
    /\ UNCHANGED <<delivered, failures>>

\* __aexit__ cancels the task: a publish in flight may have reached the broker, a store
\* call in flight may have written.  What was published is marked on the way out.
Cancel(r) ==
    /\ pc[r] \in {"idle", "publish", "failed", "outage"}
    /\ Fault
    /\ IF pc[r] = "publish" THEN MayDeliver(r) ELSE UNCHANGED delivered
    /\ \/ UNCHANGED store
       \/ pc[r] = "failed" /\ Failed(r)
       \/ pc[r] = "outage" /\ PutBack(r)
    /\ IF sent[r] = {} THEN Rest(r, "stopped")
       ELSE /\ Goto(r, "markThenStop")
            /\ todo' = [todo EXCEPT ![r] = {}]
            /\ UNCHANGED <<sent, copy>>
    /\ UNCHANGED failures

\* The cancellation, or a second one, finds it marking: the marks may have been written.
CancelMarking(r) ==
    /\ pc[r] \in {"mark", "markThenStop"}
    /\ FaultMarking(r)
    /\ \/ UNCHANGED store
       \/ Settle(Marked(r), "sent", copy[r], TRUE)
    /\ Rest(r, "stopped")
    /\ UNCHANGED <<delivered, failures>>

\* The relay's process dies: what it held in memory is gone.
Crash(r) ==
    /\ pc[r] # "stopped"
    /\ Fault
    /\ Rest(r, "stopped")
    /\ UNCHANGED <<store, delivered, failures>>

-----------------------------------------------------------------------------
Init ==
    /\ status = [i \in Records |-> "new"]
    /\ attempts = [i \in Records |-> 0]
    /\ due = {} /\ leased = {}
    /\ pc = [r \in Relays |-> "stopped"]
    /\ todo = [r \in Relays |-> {}]
    /\ sent = [r \in Relays |-> {}]
    /\ copy = [r \in Relays |-> NoCopies]
    /\ delivered = {}
    /\ failures = [i \in Records |-> 0]
    /\ faults = 0

Working(r) ==
    \/ Claim(r) \/ PublishOk(r) \/ PublishFails(r) \/ PublishOutage(r)
    \/ RecordFailure(r) \/ GiveBack(r) \/ MarkSent(r)

Faulty(r) ==
    \/ ClaimLost(r) \/ StoreError(r) \/ MarkError(r)
    \/ Cancel(r) \/ CancelMarking(r) \/ Crash(r)

RelayNext ==
    \/ \E r \in Relays : Start(r) \/ Working(r) \/ Faulty(r)
    \/ \E i \in Records : LeaseExpires(i) \/ RetryDue(i)

Next == RelayNext \/ \E S \in (SUBSET Records) \ {{}} : Keep(S)

\* Relays run and are entered again after they stopped; leases and delays pass.
RelayFairness ==
    /\ \A r \in Relays : WF_vars(Start(r)) /\ WF_vars(Working(r))
    /\ \A i \in Records : WF_vars(LeaseExpires(i)) /\ WF_vars(RetryDue(i))

Spec == Init /\ [][Next]_vars
FairSpec == Spec /\ RelayFairness

-----------------------------------------------------------------------------
(* Properties                                                              *)

\* Type and shape of the state: a lease and a delay are on pending records only, a relay
\* holds records exactly while it works on a batch, and attempts stay within max_attempts.
TypeOK ==
    /\ status \in [Records -> Statuses]
    /\ attempts \in [Records -> 0..MaxAttempts]
    /\ due \subseteq Records
    /\ leased \subseteq {i \in Records : status[i] # "new"}
    /\ pc \in [Relays -> PCs]
    /\ todo \in [Relays -> SUBSET Records]
    /\ sent \in [Relays -> SUBSET Records]
    /\ copy \in [Relays -> [Records -> 0..MaxAttempts - 1]]
    /\ \A r \in Relays :
         /\ todo[r] \cap sent[r] = {}
         /\ todo[r] # {} <=> pc[r] \in {"publish", "failed", "outage"}
         /\ pc[r] \in {"mark", "markThenStop"} => sent[r] # {}
         /\ pc[r] \in {"stopped", "idle"} => sent[r] = {}
    /\ delivered \subseteq Records
    /\ failures \in [Records -> 0..MaxAttempts]
    /\ faults \in 0..MaxFaults

\* "Claim ... for one relay": while leases last, two relays never work on one record.
OneRelayPerRecord ==
    \A r, q \in Relays : r # q => Held(r) \cap Held(q) = {}

\* A record marked sent was handed to the broker first, whatever failed on the way and
\* however late a relay marks it.
SentWasPublished == \A i \in Records : status[i] = "sent" => i \in delivered

\* A record is parked only after max_attempts publishes failed for its own sake: an
\* outage, a store error, a cancellation or a lost lease never brings it closer.
ParkedAfterMaxAttempts ==
    \A i \in Records : status[i] = "failed" => failures[i] = MaxAttempts

\* "Nothing lost": a kept record ends sent or parked for good, whatever relays stop, crash,
\* lose a lease to each other or lose an answer of the store on the way.
EventuallySettled ==
    \A i \in Records : status[i] = "pending" ~> [](Settled(i))

\* While leases last, the store and relays implement at-least-once delivery.
Delivery == INSTANCE OutboxDelivery
ImplementsDelivery == Delivery!DeliverySpec

\* "parked as failed with its reason once it has failed max_attempts times": a record
\* nobody works on has failures left.  A lost lease breaks it: the relay that lost it
\* writes the attempts of the copy it claimed over the other's.
RetriesBounded ==
    \A i \in Records :
        (status[i] = "pending" /\ \A r \in Relays : i \notin Held(r)) =>
            failures[i] < MaxAttempts
=============================================================================
