---------------------------- MODULE OutboxProofs ----------------------------
(***************************************************************************)
(* Proofs about OutboxRelay, and about Outbox by way of it, for any number *)
(* of records, relays, attempts and faults.  ShapeOK is inductive by       *)
(* itself; PublishedInv, ParkedInv and, while leases last, LeasedInv are   *)
(* inductive with it.  Eight of the relay's steps only get rid of records  *)
(* it holds; Sheds is what they have in common, so that each invariant is  *)
(* proved of them once.  TxInv and, while no task outlives its block,      *)
(* TxCommits are inductive for the producers' steps alone; HeldKept says   *)
(* why the relays' steps stutter for them.                                 *)
(***************************************************************************)
EXTENDS Outbox, TLAPS, WellFoundedInduction

-----------------------------------------------------------------------------
(* What a step does to the relay that takes it                             *)

\* What TypeOK says of one relay.
RelayOK(p, t, s, c) ==
    /\ p \in PCs /\ t \subseteq Records /\ s \subseteq Records
    /\ c \in [Records -> 0..MaxAttempts - 1]
    /\ t \cap s = {}
    /\ t # {} <=> p \in {"publish", "failed", "outage"}
    /\ p \in {"mark", "markThenStop"} => s # {}
    /\ p \in {"stopped", "idle"} => s = {}

RelaysOK ==
    /\ pc \in [Relays -> PCs]
    /\ todo \in [Relays -> SUBSET Records]
    /\ sent \in [Relays -> SUBSET Records]
    /\ copy \in [Relays -> [Records -> 0..MaxAttempts - 1]]
    /\ \A r \in Relays : RelayOK(pc[r], todo[r], sent[r], copy[r])

Moved(r, p, t, s, c) ==
    /\ pc' = [pc EXCEPT ![r] = p]
    /\ todo' = [todo EXCEPT ![r] = t]
    /\ sent' = [sent EXCEPT ![r] = s]
    /\ copy' = [copy EXCEPT ![r] = c]

LEMMA MovedEffect ==
    ASSUME RelaysOK, NEW r \in Relays, NEW p, NEW t, NEW s, NEW c,
           RelayOK(p, t, s, c), Moved(r, p, t, s, c)
    PROVE  /\ RelaysOK'
           /\ pc'[r] = p /\ todo'[r] = t /\ sent'[r] = s /\ copy'[r] = c
           /\ \A q \in Relays \ {r} :
                pc'[q] = pc[q] /\ todo'[q] = todo[q] /\ sent'[q] = sent[q] /\ copy'[q] = copy[q]
<1>1. /\ pc'[r] = p /\ todo'[r] = t /\ sent'[r] = s /\ copy'[r] = c
      /\ \A q \in Relays \ {r} :
            pc'[q] = pc[q] /\ todo'[q] = todo[q] /\ sent'[q] = sent[q] /\ copy'[q] = copy[q]
  BY DEF RelaysOK, Moved
<1>2. /\ pc' \in [Relays -> PCs]
      /\ todo' \in [Relays -> SUBSET Records]
      /\ sent' \in [Relays -> SUBSET Records]
      /\ copy' \in [Relays -> [Records -> 0..MaxAttempts - 1]]
  BY DEF RelaysOK, RelayOK, Moved
<1>3. \A q \in Relays : RelayOK(pc'[q], todo'[q], sent'[q], copy'[q])
  <2> SUFFICES ASSUME NEW q \in Relays PROVE RelayOK(pc'[q], todo'[q], sent'[q], copy'[q])
    OBVIOUS
  <2>1. CASE q = r
    BY <2>1, <1>1
  <2>2. CASE q # r
    BY <2>2, <1>1 DEF RelaysOK
  <2> QED
    BY <2>1, <2>2
<1>4. RelaysOK'
  BY <1>2, <1>3 DEF RelaysOK, RelayOK
<1> QED
  BY <1>1, <1>4

LEMMA EndBatchMoves ==
    ASSUME RelaysOK, NEW r \in Relays, NEW S, EndBatch(r, S)
    PROVE  \E p \in {"idle", "mark"}, c \in {copy[r], NoCopies} :
              Moved(r, p, {}, S, c) /\ (p = "mark" <=> S # {})
<1>1. CASE S = {}
  <2>1. Moved(r, "idle", {}, S, NoCopies)
    BY <1>1 DEF EndBatch, Rest, Goto, Moved
  <2> QED
    BY <1>1, <2>1
<1>2. CASE S # {}
  <2>1. Moved(r, "mark", {}, S, copy[r])
    BY <1>2 DEF EndBatch, Goto, Moved, RelaysOK
  <2> QED
    BY <1>2, <2>1
<1> QED
  BY <1>1, <1>2

LEMMA AdvanceMoves ==
    ASSUME RelaysOK, NEW r \in Relays, NEW S, NEW at, Advance(r, S, at),
           Current(r) \in todo[r]
    PROVE  \E p \in {"idle", "mark", at}, c \in {copy[r], NoCopies} :
              /\ Moved(r, p, todo[r] \ {Current(r)}, S, c)
              /\ IF todo[r] \ {Current(r)} # {} THEN p = at
                 ELSE p \in {"idle", "mark"} /\ (p = "mark" <=> S # {})
<1>1. CASE todo[r] = {Current(r)}
  BY <1>1, EndBatchMoves DEF Advance
<1>2. CASE todo[r] # {Current(r)}
  <2>1. Moved(r, at, todo[r] \ {Current(r)}, S, copy[r])
    BY <1>2 DEF Advance, Goto, Moved, RelaysOK
  <2> QED
    BY <1>2, <2>1
<1> QED
  BY <1>1, <1>2

\* The batch is worked through oldest first, and there is an oldest record in it.
LEMMA CurrentInTodo ==
    ASSUME RelaysOK, NEW r \in Relays, todo[r] # {}
    PROVE  Current(r) \in todo[r]
<1>1. todo[r] \subseteq Nat
  BY RelayAssumption DEF RelaysOK
<1>2. PICK i \in todo[r] : \A j \in todo[r] : ~(<<j, i>> \in OpToRel(<, Nat))
  BY <1>1, NatLessThanWellFounded, WFMin
<1>3. ASSUME NEW j \in todo[r] PROVE i <= j
  <2>1. j \in Nat /\ i \in Nat
    BY <1>1
  <2>2. j < i => <<j, i>> \in OpToRel(<, Nat)
    BY <2>1, Zenon DEF OpToRel
  <2>3. ~(j < i)
    BY <1>2, <2>2, Zenon
  <2> QED
    BY <2>1, <2>3
<1> QED
  BY <1>3 DEF Current, Oldest

-----------------------------------------------------------------------------
(* The steps by which a relay gets rid of records, in one form             *)

\* What such a step may write to the store.
Writes(r, s) ==
    \/ UNCHANGED store
    \/ pc[r] = "failed" /\ Failed(r)
    \/ pc[r] = "outage" /\ PutBack(r)
    \/ pc[r] \in {"mark", "markThenStop"} /\ s = {} /\ Settle(sent[r], "sent", copy[r], TRUE)

Sheds(r) ==
    /\ \E p \in PCs \ {"failed"}, t \in SUBSET (todo[r] \ {Current(r)}),
          s \in {sent[r], {}}, c \in {copy[r], NoCopies} :
          RelayOK(p, t, s, c) /\ Moved(r, p, t, s, c) /\ Writes(r, s)
    /\ \/ delivered' = delivered
       \/ pc[r] = "publish" /\ delivered' = delivered \cup {Current(r)}
    /\ UNCHANGED failures

LEMMA NoCopiesOK == NoCopies \in [Records -> 0..MaxAttempts - 1]
BY RelayAssumption DEF NoCopies

LEMMA RestSheds ==
    ASSUME RelaysOK, NEW r \in Relays, NEW at \in {"idle", "stopped"}, Rest(r, at),
           Writes(r, {}), UNCHANGED <<delivered, failures>>
    PROVE  Sheds(r)
<1>1. Moved(r, at, {}, {}, NoCopies)
  BY DEF Rest, Goto, Moved
<1>2. RelayOK(at, {}, {}, NoCopies)
  BY NoCopiesOK DEF RelayOK, PCs
<1>3. at \in PCs \ {"failed"} /\ {} \in SUBSET (todo[r] \ {Current(r)})
  BY DEF PCs
<1> QED
  BY <1>1, <1>2, <1>3 DEF Sheds

LEMMA EndBatchSheds ==
    ASSUME RelaysOK, NEW r \in Relays, EndBatch(r, sent[r]),
           Writes(r, sent[r]), UNCHANGED <<delivered, failures>>
    PROVE  Sheds(r)
<1>1. PICK p \in {"idle", "mark"}, c \in {copy[r], NoCopies} :
         Moved(r, p, {}, sent[r], c) /\ (p = "mark" <=> sent[r] # {})
  BY EndBatchMoves
<1>2. RelayOK(p, {}, sent[r], c)
  BY <1>1, NoCopiesOK DEF RelayOK, PCs, RelaysOK
<1>3. p \in PCs \ {"failed"} /\ {} \in SUBSET (todo[r] \ {Current(r)})
  BY DEF PCs
<1> QED
  BY <1>1, <1>2, <1>3 DEF Sheds

LEMMA AdvanceSheds ==
    ASSUME RelaysOK, NEW r \in Relays, NEW at \in {"publish", "outage"},
           todo[r] # {}, Advance(r, sent[r], at),
           Writes(r, sent[r]), UNCHANGED <<delivered, failures>>
    PROVE  Sheds(r)
<1>1. Current(r) \in todo[r]
  BY CurrentInTodo
<1>2. PICK p \in {"idle", "mark", at}, c \in {copy[r], NoCopies} :
         /\ Moved(r, p, todo[r] \ {Current(r)}, sent[r], c)
         /\ IF todo[r] \ {Current(r)} # {} THEN p = at
            ELSE p \in {"idle", "mark"} /\ (p = "mark" <=> sent[r] # {})
  BY <1>1, AdvanceMoves
<1>3. RelayOK(p, todo[r] \ {Current(r)}, sent[r], c)
  BY <1>2, NoCopiesOK DEF RelayOK, PCs, RelaysOK
<1>4. p \in PCs \ {"failed"}
  BY DEF PCs
<1> QED
  BY <1>2, <1>3, <1>4 DEF Sheds

LEMMA StepSheds ==
    ASSUME RelaysOK, NEW r \in Relays,
           \/ RecordFailure(r) \/ GiveBack(r) \/ StoreError(r) \/ MarkSent(r)
           \/ MarkError(r) \/ Cancel(r) \/ CancelMarking(r) \/ Crash(r)
    PROVE  Sheds(r)
<1>0. RelayOK(pc[r], todo[r], sent[r], copy[r])
  BY DEF RelaysOK
<1>1. CASE RecordFailure(r)
  <2>1. todo[r] # {} /\ Writes(r, sent[r])
    BY <1>0, <1>1 DEF RecordFailure, RelayOK, Writes
  <2> QED
    BY <1>1, <2>1, AdvanceSheds DEF RecordFailure
<1>2. CASE GiveBack(r)
  <2>1. todo[r] # {} /\ Writes(r, sent[r])
    BY <1>0, <1>2 DEF GiveBack, RelayOK, Writes
  <2> QED
    BY <1>2, <2>1, AdvanceSheds DEF GiveBack
<1>3. CASE StoreError(r)
  BY <1>3, EndBatchSheds DEF StoreError, Writes
<1>4. CASE MarkSent(r)
  <2>1. Writes(r, {}) /\ AfterMark(r) \in {"idle", "stopped"}
    BY <1>4 DEF MarkSent, Writes, Marked, AfterMark
  <2> QED
    BY <1>4, <2>1, RestSheds DEF MarkSent
<1>5. CASE MarkError(r)
  <2>1. Writes(r, {})
    BY <1>5 DEF MarkError, Writes, Marked
  <2> QED
    BY <1>5, <2>1, RestSheds DEF MarkError
<1>6. CASE Cancel(r)
  <2>1. Writes(r, sent[r])
    BY <1>6 DEF Cancel, Writes
  <2>2. CASE sent[r] = {}
    <3>1. Moved(r, "stopped", {}, {}, NoCopies)
      BY <1>6, <2>2 DEF Cancel, Rest, Goto, Moved
    <3>2. RelayOK("stopped", {}, {}, NoCopies)
      BY NoCopiesOK DEF RelayOK, PCs
    <3>3. "stopped" \in PCs \ {"failed"} /\ {} \in SUBSET (todo[r] \ {Current(r)})
      BY DEF PCs
    <3> QED
      BY <1>6, <2>1, <2>2, <3>1, <3>2, <3>3 DEF Cancel, Sheds, MayDeliver
  <2>3. CASE sent[r] # {}
    <3>1. Moved(r, "markThenStop", {}, sent[r], copy[r])
      BY <1>6, <2>3 DEF Cancel, Goto, Moved, RelaysOK
    <3>2. RelayOK("markThenStop", {}, sent[r], copy[r])
      BY <1>0, <2>3 DEF RelayOK, PCs
    <3>3. "markThenStop" \in PCs \ {"failed"} /\ {} \in SUBSET (todo[r] \ {Current(r)})
      BY DEF PCs
    <3> QED
      BY <1>6, <2>1, <3>1, <3>2, <3>3 DEF Cancel, Sheds, MayDeliver
  <2> QED
    BY <2>2, <2>3
<1>7. CASE CancelMarking(r)
  <2>1. Writes(r, {})
    BY <1>7 DEF CancelMarking, Writes, Marked
  <2> QED
    BY <1>7, <2>1, RestSheds DEF CancelMarking
<1>8. CASE Crash(r)
  <2>1. Writes(r, {})
    BY <1>8 DEF Crash, Writes
  <2> QED
    BY <1>8, <2>1, RestSheds DEF Crash
<1> QED
  BY <1>1, <1>2, <1>3, <1>4, <1>5, <1>6, <1>7, <1>8

-----------------------------------------------------------------------------
(* Type correctness                                                        *)

\* A record that is not parked has an attempt left.
StoreOK ==
    /\ status \in [Records -> Statuses]
    /\ attempts \in [Records -> 0..MaxAttempts]
    /\ due \subseteq Records
    /\ leased \subseteq {i \in Records : status[i] # "new"}
    /\ \A i \in Records : status[i] # "failed" => attempts[i] < MaxAttempts

WorldOK ==
    /\ delivered \subseteq Records
    /\ failures \in [Records -> 0..MaxAttempts]
    /\ faults \in 0..MaxFaults

ShapeOK == StoreOK /\ RelaysOK /\ WorldOK

LEMMA ShapeIsType == ShapeOK => TypeOK
BY DEF ShapeOK, StoreOK, RelaysOK, RelayOK, WorldOK, TypeOK

LEMMA SettleOK ==
    ASSUME StoreOK, NEW S \in SUBSET Records, NEW to \in {"pending", "sent", "failed"},
           NEW count, NEW isDue \in BOOLEAN, Settle(S, to, count, isDue),
           \A i \in S : count[i] \in 0..MaxAttempts
                          /\ (to # "failed" => count[i] < MaxAttempts)
    PROVE  StoreOK'
<1>1. status' \in [Records -> Statuses] /\ due' \subseteq Records
  BY DEF StoreOK, Settle, Statuses
<1>2. attempts' \in [Records -> 0..MaxAttempts]
  BY DEF StoreOK, Settle
<1>3. leased' \subseteq {i \in Records : status'[i] # "new"}
  BY DEF StoreOK, Settle
<1>4. \A i \in Records : status'[i] # "failed" => attempts'[i] < MaxAttempts
  BY DEF StoreOK, Settle
<1> QED
  BY <1>1, <1>2, <1>3, <1>4 DEF StoreOK

LEMMA WritesOK ==
    ASSUME StoreOK, RelaysOK, NEW r \in Relays, NEW s, Writes(r, s)
    PROVE  StoreOK'
<1>0. RelayOK(pc[r], todo[r], sent[r], copy[r]) /\ MaxAttempts \in Nat \ {0}
  BY RelayAssumption DEF RelaysOK
<1>1. CASE UNCHANGED store
  BY <1>1 DEF store, StoreOK
<1>2. CASE pc[r] = "failed" /\ Failed(r)
  <2>1. Current(r) \in todo[r] /\ Current(r) \in Records
    BY <1>0, <1>2, CurrentInTodo DEF RelayOK
  <2> DEFINE n == copy[r][Current(r)] + 1
  <2>2. n \in 0..MaxAttempts /\ copy[r] \in [Records -> 0..MaxAttempts - 1]
    BY <1>0, <2>1 DEF RelayOK
  <2> HIDE DEF n
  <2>3. Settle({Current(r)}, IF OutOfAttempts(n) THEN "failed" ELSE "pending",
               [j \in Records |-> n], OutOfAttempts(n))
    BY <1>2 DEF Failed, n
  <2>4. OutOfAttempts(n) \in BOOLEAN /\ (~OutOfAttempts(n) => n < MaxAttempts)
    BY <1>0, <2>2 DEF OutOfAttempts
  <2> DEFINE count == [j \in Records |-> n]
  <2>5. {Current(r)} \in SUBSET Records
        /\ \A i \in {Current(r)} : count[i] = n
    BY <2>1
  <2> HIDE DEF count
  <2>6. CASE OutOfAttempts(n)
    <3>1. Settle({Current(r)}, "failed", count, TRUE)
      BY <2>3, <2>4, <2>6 DEF count
    <3> QED
      BY <2>2, <2>5, <3>1, SettleOK
  <2>7. CASE ~OutOfAttempts(n)
    <3>1. Settle({Current(r)}, "pending", count, FALSE)
      BY <2>3, <2>4, <2>7 DEF count
    <3> QED
      BY <2>2, <2>4, <2>7, <2>5, <3>1, SettleOK
  <2> QED
    BY <2>6, <2>7
<1>3. CASE pc[r] = "outage" /\ PutBack(r)
  <2>1. Current(r) \in Records
    BY <1>0, <1>3, CurrentInTodo DEF RelayOK
  <2>2. \A i \in {Current(r)} : copy[r][i] \in 0..MaxAttempts /\ copy[r][i] < MaxAttempts
    BY <1>0, <2>1 DEF RelayOK
  <2>3. {Current(r)} \in SUBSET Records
    BY <2>1
  <2> QED
    BY <1>3, <2>2, <2>3, SettleOK DEF PutBack
<1>4. CASE Settle(sent[r], "sent", copy[r], TRUE)
  <2>1. \A i \in sent[r] : copy[r][i] \in 0..MaxAttempts /\ copy[r][i] < MaxAttempts
    BY <1>0 DEF RelayOK
  <2> QED
    BY <1>0, <1>4, <2>1, SettleOK DEF RelayOK
<1> QED
  BY <1>1, <1>2, <1>3, <1>4 DEF Writes

LEMMA ShedsOK ==
    ASSUME ShapeOK, NEW r \in Relays, Sheds(r), faults' \in 0..MaxFaults
    PROVE  ShapeOK'
<1>1. PICK p \in PCs, t \in SUBSET todo[r], s \in {sent[r], {}}, c \in {copy[r], NoCopies} :
         RelayOK(p, t, s, c) /\ Moved(r, p, t, s, c) /\ Writes(r, s)
  BY DEF Sheds
<1>2. RelaysOK' /\ StoreOK'
  BY <1>1, MovedEffect, WritesOK DEF ShapeOK
<1>3. WorldOK'
  <2>1. pc[r] = "publish" => Current(r) \in Records
    BY CurrentInTodo DEF ShapeOK, RelaysOK, RelayOK
  <2> QED
    BY <2>1 DEF Sheds, WorldOK, ShapeOK
<1> QED
  BY <1>2, <1>3 DEF ShapeOK

\* A step that leaves the store alone and takes relay r elsewhere.
LEMMA MoveOK ==
    ASSUME ShapeOK, NEW r \in Relays, NEW p, NEW t, NEW s, NEW c,
           RelayOK(p, t, s, c), Moved(r, p, t, s, c), StoreOK', WorldOK'
    PROVE  ShapeOK'
BY MovedEffect DEF ShapeOK

LEMMA PublishMoves ==
    ASSUME RelaysOK, NEW r \in Relays, PublishOk(r)
    PROVE  \E p \in {"idle", "mark", "publish"}, c \in {copy[r], NoCopies} :
              /\ RelayOK(p, todo[r] \ {Current(r)}, sent[r] \cup {Current(r)}, c)
              /\ Moved(r, p, todo[r] \ {Current(r)}, sent[r] \cup {Current(r)}, c)
<1> DEFINE s == sent[r] \cup {Current(r)}
           t == todo[r] \ {Current(r)}
<1>0. RelayOK(pc[r], todo[r], sent[r], copy[r])
  BY DEF RelaysOK
<1>1. Current(r) \in todo[r]
  BY <1>0, CurrentInTodo DEF PublishOk, RelayOK
<1>2. PICK p \in {"idle", "mark", "publish"}, c \in {copy[r], NoCopies} :
         /\ Moved(r, p, t, s, c)
         /\ IF t # {} THEN p = "publish"
            ELSE p \in {"idle", "mark"} /\ (p = "mark" <=> s # {})
  <2>1. Advance(r, s, "publish")
    BY DEF PublishOk
  <2> HIDE DEF s
  <2> QED
    BY <1>1, <2>1, AdvanceMoves
<1>3. RelayOK(p, t, s, c)
  BY <1>0, <1>1, <1>2, NoCopiesOK DEF RelayOK, PCs
<1> QED
  BY <1>2, <1>3

LEMMA TypeRelay ==
    ASSUME ShapeOK, NEW r \in Relays, Start(r) \/ Working(r) \/ Faulty(r)
    PROVE  ShapeOK'
<1>0. /\ RelaysOK /\ RelayOK(pc[r], todo[r], sent[r], copy[r])
      /\ MaxAttempts \in Nat \ {0} /\ MaxFaults \in Nat
  BY RelayAssumption DEF ShapeOK, RelaysOK
<1>1. CASE Start(r)
  <2>1. Moved(r, "idle", todo[r], sent[r], copy[r])
    BY <1>0, <1>1 DEF Start, Goto, Moved, RelaysOK
  <2>2. RelayOK("idle", todo[r], sent[r], copy[r])
    BY <1>0, <1>1 DEF Start, RelayOK, PCs
  <2>3. StoreOK' /\ WorldOK'
    BY <1>1 DEF Start, store, ShapeOK, StoreOK, WorldOK
  <2> QED
    BY <2>1, <2>2, <2>3, MoveOK
<1>2. CASE Claim(r)
  <2> DEFINE c == [i \in Records |-> IF i \in Due THEN attempts[i] ELSE 0]
  <2>1. Moved(r, "publish", Due, sent[r], c)
    BY <1>0, <1>2 DEF Claim, Goto, Moved, RelaysOK
  <2>2. Due \subseteq {i \in Records : status[i] = "pending"}
    BY DEF Due, Claimable
  <2>3. c \in [Records -> 0..MaxAttempts - 1]
    BY <1>0, <2>2 DEF ShapeOK, StoreOK
  <2>4. RelayOK("publish", Due, sent[r], c)
    BY <1>0, <1>2, <2>2, <2>3 DEF Claim, RelayOK, PCs
  <2>5. StoreOK' /\ WorldOK'
    BY <1>2, <2>2 DEF Claim, ShapeOK, StoreOK, WorldOK
  <2> QED
    BY <2>1, <2>4, <2>5, MoveOK
<1>3. CASE ClaimLost(r)
  <2>1. Due \subseteq {i \in Records : status[i] = "pending"}
    BY DEF Due, Claimable
  <2>2. StoreOK' /\ WorldOK'
    BY <1>0, <1>3, <2>1 DEF ClaimLost, Fault, ShapeOK, StoreOK, WorldOK
  <2>3. RelaysOK'
    BY <1>0, <1>3 DEF ClaimLost, relay, RelaysOK, RelayOK
  <2> QED
    BY <2>2, <2>3 DEF ShapeOK
<1>4. CASE PublishOk(r)
  <2>1. StoreOK' /\ WorldOK'
    BY <1>0, <1>4, CurrentInTodo DEF PublishOk, store, ShapeOK, StoreOK, WorldOK, RelayOK
  <2> QED
    BY <1>0, <1>4, <2>1, PublishMoves, MoveOK
<1>5. ASSUME NEW p \in {"failed", "outage"}, pc[r] = "publish", Goto(r, p),
             UNCHANGED <<store, todo, sent, copy>>, WorldOK'
      PROVE  ShapeOK'
  <2>1. Moved(r, p, todo[r], sent[r], copy[r])
    BY <1>0, <1>5 DEF Goto, Moved, RelaysOK
  <2>2. RelayOK(p, todo[r], sent[r], copy[r])
    BY <1>0, <1>5 DEF RelayOK, PCs
  <2>3. StoreOK'
    BY <1>5 DEF store, ShapeOK, StoreOK
  <2> QED
    BY <1>5, <2>1, <2>2, <2>3, MoveOK
<1>6. CASE PublishFails(r)
  <2>1. Current(r) \in Records
    BY <1>0, <1>6, CurrentInTodo DEF PublishFails, RelayOK
  <2>2. WorldOK'
    BY <1>0, <1>6, <2>1 DEF PublishFails, MayDeliver, ShapeOK, WorldOK
  <2> QED
    BY <1>5, <1>6, <2>2 DEF PublishFails
<1>7. CASE PublishOutage(r)
  <2>1. Current(r) \in Records
    BY <1>0, <1>7, CurrentInTodo DEF PublishOutage, RelayOK
  <2>2. WorldOK'
    BY <1>0, <1>7, <2>1 DEF PublishOutage, Fault, MayDeliver, ShapeOK, WorldOK
  <2> QED
    BY <1>5, <1>7, <2>2 DEF PublishOutage
<1>8. ASSUME RecordFailure(r) \/ GiveBack(r) \/ StoreError(r) \/ MarkSent(r)
             \/ MarkError(r) \/ Cancel(r) \/ CancelMarking(r) \/ Crash(r)
      PROVE  ShapeOK'
  <2>1. faults' = faults \/ Fault
    BY <1>8, Zenon DEF RecordFailure, GiveBack, StoreError, MarkSent, MarkError, Cancel,
                       CancelMarking, FaultMarking, Crash
  <2>2. faults' \in 0..MaxFaults
    BY <1>0, <2>1 DEF Fault, ShapeOK, WorldOK
  <2> QED
    BY <1>0, <1>8, <2>2, StepSheds, ShedsOK
<1> QED
  BY <1>1, <1>2, <1>3, <1>4, <1>6, <1>7, <1>8 DEF Working, Faulty

LEMMA TypeNext == ShapeOK /\ [Next]_vars => ShapeOK'
<1> SUFFICES ASSUME ShapeOK, [Next]_vars PROVE ShapeOK'
  OBVIOUS
<1>1. ASSUME NEW i \in Records, LeaseExpires(i) \/ RetryDue(i) PROVE ShapeOK'
  <2>1. RelaysOK'
    BY <1>1 DEF LeaseExpires, RetryDue, relay, ShapeOK, RelaysOK, RelayOK
  <2>2. StoreOK' /\ WorldOK'
    BY <1>1 DEF LeaseExpires, RetryDue, ShapeOK, StoreOK, WorldOK
  <2> QED
    BY <2>1, <2>2 DEF ShapeOK
<1>2. ASSUME NEW S \in SUBSET Records, Keep(S) PROVE ShapeOK'
  <2>1. RelaysOK' /\ WorldOK'
    BY <1>2 DEF Keep, relay, ShapeOK, RelaysOK, RelayOK, WorldOK
  <2> DEFINE count == [i \in Records |-> 0]
  <2>2. \A i \in S : count[i] \in 0..MaxAttempts /\ count[i] < MaxAttempts
    BY RelayAssumption
  <2>3. Settle(S, "pending", count, TRUE)
    BY <1>2 DEF Keep
  <2> HIDE DEF count
  <2> QED
    BY <2>1, <2>2, <2>3, SettleOK DEF ShapeOK
<1>3. CASE UNCHANGED vars
  BY <1>3 DEF vars, store, relay, ShapeOK, StoreOK, RelaysOK, RelayOK, WorldOK
<1> QED
  BY <1>1, <1>2, <1>3, TypeRelay DEF Next, RelayNext

LEMMA TypeInit == Init => ShapeOK
<1> SUFFICES ASSUME Init PROVE ShapeOK
  OBVIOUS
<1>1. StoreOK /\ WorldOK
  BY RelayAssumption DEF Init, StoreOK, WorldOK, Statuses
<1>2. RelaysOK
  BY NoCopiesOK DEF Init, RelaysOK, RelayOK, PCs
<1> QED
  BY <1>1, <1>2 DEF ShapeOK

THEOREM Shape == Spec => []ShapeOK
BY TypeInit, TypeNext, PTL DEF Spec

\* Type correctness, with the shape of a relay's batch: whatever lapses, fails or crashes, a
\* relay holds records exactly while it works on them, and attempts stay within max_attempts.
THEOREM TypeCorrect == Spec => []TypeOK
BY Shape, ShapeIsType, PTL

-----------------------------------------------------------------------------
(* What is marked sent was published                                       *)

PublishedInv ==
    /\ \A r \in Relays : sent[r] \subseteq delivered
    /\ SentWasPublished

LEMMA WritesSent ==
    ASSUME ShapeOK, NEW r \in Relays, NEW s, Writes(r, s), NEW i \in Records,
           status'[i] = "sent"
    PROVE  status[i] = "sent" \/ i \in sent[r]
<1>1. CASE UNCHANGED store
  BY <1>1 DEF store
<1>2. CASE Failed(r) \/ PutBack(r)
  BY <1>2 DEF Failed, PutBack, Settle
<1>3. CASE Settle(sent[r], "sent", copy[r], TRUE)
  BY <1>3 DEF Settle
<1> QED
  BY <1>1, <1>2, <1>3 DEF Writes

LEMMA PublishedSheds ==
    ASSUME ShapeOK, PublishedInv, NEW r \in Relays, Sheds(r)
    PROVE  PublishedInv'
<1>1. PICK p \in PCs, t \in SUBSET todo[r], s \in {sent[r], {}}, c \in {copy[r], NoCopies} :
         RelayOK(p, t, s, c) /\ Moved(r, p, t, s, c) /\ Writes(r, s)
  BY DEF Sheds
<1>2. sent'[r] = s /\ \A q \in Relays \ {r} : sent'[q] = sent[q]
  BY <1>1, MovedEffect DEF ShapeOK
<1>3. delivered \subseteq delivered'
  BY DEF Sheds
<1>4. SentWasPublished'
  BY <1>1, <1>3, WritesSent DEF PublishedInv, SentWasPublished
<1> QED
  BY <1>2, <1>3, <1>4 DEF PublishedInv

LEMMA PublishedNext == ShapeOK /\ PublishedInv /\ [Next]_vars => PublishedInv'
<1> SUFFICES ASSUME ShapeOK, PublishedInv, [Next]_vars PROVE PublishedInv'
  OBVIOUS
<1> USE DEF PublishedInv, SentWasPublished
<1>1. ASSUME UNCHANGED <<sent, status>>, delivered \subseteq delivered'
      PROVE  PublishedInv'
  BY <1>1
<1>2. ASSUME NEW i \in Records, LeaseExpires(i) \/ RetryDue(i) PROVE PublishedInv'
  BY <1>1, <1>2 DEF LeaseExpires, RetryDue, relay
<1>3. ASSUME NEW S \in SUBSET Records, Keep(S) PROVE PublishedInv'
  BY <1>3 DEF Keep, Settle, relay
<1>4. CASE UNCHANGED vars
  BY <1>1, <1>4 DEF vars, store, relay
<1>5. ASSUME NEW r \in Relays, Start(r) \/ Working(r) \/ Faulty(r) PROVE PublishedInv'
  <2>1. CASE Start(r) \/ Claim(r) \/ ClaimLost(r)
    BY <1>1, <2>1 DEF Start, Claim, ClaimLost, store, relay
  <2>2. CASE PublishFails(r) \/ PublishOutage(r)
    BY <1>1, <2>2 DEF PublishFails, PublishOutage, MayDeliver, store
  <2>3. CASE PublishOk(r)
    <3>1. sent' = [sent EXCEPT ![r] = @ \cup {Current(r)}]
          \/ sent' = [sent EXCEPT ![r] = {}]
      BY <2>3 DEF PublishOk, Advance, EndBatch, Rest
    <3>2. \A q \in Relays : sent'[q] \subseteq sent[q] \cup {Current(r)}
      BY <3>1 DEF ShapeOK, RelaysOK
    <3> QED
      BY <2>3, <3>2 DEF PublishOk, store
  <2>4. CASE \/ RecordFailure(r) \/ GiveBack(r) \/ StoreError(r) \/ MarkSent(r)
             \/ MarkError(r) \/ Cancel(r) \/ CancelMarking(r) \/ Crash(r)
    BY <2>4, StepSheds, PublishedSheds DEF ShapeOK
  <2> QED
    BY <1>5, <2>1, <2>2, <2>3, <2>4 DEF Working, Faulty
<1> QED
  BY <1>2, <1>3, <1>4, <1>5 DEF Next, RelayNext

\* A record marked sent was handed to the broker first, with any number of relays, also
\* when leases lapse and two relays work on one record.
THEOREM SentOnlyIfPublished == Spec => []SentWasPublished
<1>1. Init => PublishedInv
  BY DEF Init, PublishedInv, SentWasPublished
<1>2. PublishedInv => SentWasPublished
  BY DEF PublishedInv
<1> QED
  BY <1>1, <1>2, Shape, PublishedNext, PTL DEF Spec

-----------------------------------------------------------------------------
(* What is parked has failed max_attempts times                            *)

\* The attempts in the store and in a relay's copy are failures that happened, and a relay
\* about to count one has just seen it.
ParkedInv ==
    /\ \A i \in Records : attempts[i] <= failures[i]
    /\ \A r \in Relays, i \in Records : copy[r][i] <= failures[i]
    /\ \A r \in Relays :
          pc[r] = "failed" => copy[r][Current(r)] < failures[Current(r)]
    /\ ParkedAfterMaxAttempts

LEMMA WritesCounted ==
    ASSUME ShapeOK, ParkedInv, NEW r \in Relays, NEW s, Writes(r, s), NEW i \in Records
    PROVE  /\ attempts'[i] <= failures[i]
           /\ status'[i] = "failed" => failures[i] = MaxAttempts
<1>0. /\ RelayOK(pc[r], todo[r], sent[r], copy[r])
      /\ MaxAttempts \in Nat \ {0} /\ failures[i] \in 0..MaxAttempts
      /\ attempts[i] <= failures[i] /\ copy[r][i] <= failures[i]
      /\ status[i] = "failed" => failures[i] = MaxAttempts
  BY RelayAssumption DEF ShapeOK, RelaysOK, WorldOK, ParkedInv, ParkedAfterMaxAttempts
<1>1. CASE UNCHANGED store
  BY <1>0, <1>1 DEF store
<1>2. CASE pc[r] = "failed" /\ Failed(r)
  <2> DEFINE n == copy[r][Current(r)] + 1
  <2>1. i # Current(r) => attempts'[i] = attempts[i] /\ status'[i] = status[i]
    BY <1>2 DEF Failed, Settle
  <2>2. i = Current(r) => /\ attempts'[i] = n
                          /\ status'[i] = "failed" => OutOfAttempts(n)
    BY <1>2 DEF Failed, Settle
  <2>3. copy[r][i] \in 0..MaxAttempts - 1
    BY <1>0 DEF RelayOK
  <2>4. i = Current(r) => copy[r][i] < failures[i]
    BY <1>2 DEF ParkedInv
  <2> QED
    BY <1>0, <2>1, <2>2, <2>3, <2>4 DEF OutOfAttempts
<1>3. CASE PutBack(r)
  BY <1>0, <1>3 DEF PutBack, Settle
<1>4. CASE Settle(sent[r], "sent", copy[r], TRUE)
  BY <1>0, <1>4 DEF Settle
<1> QED
  BY <1>1, <1>2, <1>3, <1>4 DEF Writes

LEMMA ParkedSheds ==
    ASSUME ShapeOK, ParkedInv, NEW r \in Relays, Sheds(r)
    PROVE  ParkedInv'
<1>1. PICK p \in PCs \ {"failed"}, t \in SUBSET todo[r], s \in {sent[r], {}},
           c \in {copy[r], NoCopies} :
         RelayOK(p, t, s, c) /\ Moved(r, p, t, s, c) /\ Writes(r, s)
  BY DEF Sheds
<1>2. /\ pc'[r] = p /\ copy'[r] = c
      /\ \A q \in Relays \ {r} :
            pc'[q] = pc[q] /\ todo'[q] = todo[q] /\ copy'[q] = copy[q]
  BY <1>1, MovedEffect DEF ShapeOK
<1>3. failures' = failures
  BY DEF Sheds
<1>4. \A i \in Records : attempts'[i] <= failures'[i]
  BY <1>1, <1>3, WritesCounted
<1>5. \A q \in Relays, i \in Records : copy'[q][i] <= failures'[i]
  <2>1. \A i \in Records : NoCopies[i] <= failures[i]
    <3>1. \A i \in Records : failures[i] >= 0
      BY RelayAssumption DEF ShapeOK, WorldOK
    <3> QED
      BY <3>1 DEF NoCopies
  <2>2. \A i \in Records : c[i] <= failures[i]
    BY <2>1, <1>1 DEF ParkedInv
  <2> QED
    BY <1>2, <1>3, <2>2 DEF ParkedInv
<1>6. \A q \in Relays : pc'[q] = "failed" => copy'[q][Current(q)'] < failures'[Current(q)']
  BY <1>2, <1>3 DEF ParkedInv, Current
<1>7. ParkedAfterMaxAttempts'
  BY <1>1, <1>3, WritesCounted DEF ParkedAfterMaxAttempts
<1> QED
  BY <1>4, <1>5, <1>6, <1>7 DEF ParkedInv

LEMMA ParkedNext == ShapeOK /\ ParkedInv /\ [Next]_vars => ParkedInv'
<1> SUFFICES ASSUME ShapeOK, ParkedInv, [Next]_vars PROVE ParkedInv'
  OBVIOUS
<1> USE DEF ParkedInv, ParkedAfterMaxAttempts
<1>0. /\ RelaysOK /\ failures \in [Records -> 0..MaxAttempts] /\ MaxAttempts \in Nat \ {0}
      /\ \A i \in Records : failures[i] >= 0
      /\ \A q \in Relays : RelayOK(pc[q], todo[q], sent[q], copy[q])
  BY RelayAssumption DEF ShapeOK, WorldOK, RelaysOK
<1>1. ASSUME UNCHANGED <<pc, todo, copy, attempts, status, failures>> PROVE ParkedInv'
  BY <1>1 DEF Current
<1>2. ASSUME NEW i \in Records, LeaseExpires(i) \/ RetryDue(i) PROVE ParkedInv'
  BY <1>1, <1>2 DEF LeaseExpires, RetryDue, relay
<1>3. ASSUME NEW S \in SUBSET Records, Keep(S) PROVE ParkedInv'
  <2>1. UNCHANGED <<pc, todo, copy, failures>>
    BY <1>3 DEF Keep, relay
  <2>2. \A i \in Records : /\ attempts'[i] = attempts[i] \/ attempts'[i] = 0
                           /\ status'[i] = status[i] \/ status'[i] = "pending"
    BY <1>3 DEF Keep, Settle, ShapeOK, StoreOK
  <2> QED
    BY <1>0, <2>1, <2>2 DEF Current
<1>4. CASE UNCHANGED vars
  BY <1>1, <1>4 DEF vars, store, relay
\* A step of r that leaves the rest alone and does not end at the counting of a failure.
<1>5. ASSUME NEW r \in Relays, NEW p \in PCs \ {"failed"}, NEW t, NEW s, NEW c,
             RelayOK(p, t, s, c), Moved(r, p, t, s, c),
             \A i \in Records : c[i] <= failures[i],
             UNCHANGED <<attempts, status, failures>>
      PROVE  ParkedInv'
  <2>1. /\ pc'[r] = p /\ copy'[r] = c
        /\ \A q \in Relays \ {r} :
              pc'[q] = pc[q] /\ todo'[q] = todo[q] /\ copy'[q] = copy[q]
    BY <1>0, <1>5, MovedEffect
  <2>2. \A q \in Relays : pc'[q] = "failed" => copy'[q][Current(q)'] < failures'[Current(q)']
    BY <1>5, <2>1 DEF Current
  <2> QED
    BY <1>5, <2>1, <2>2
<1>6. ASSUME NEW r \in Relays, Start(r) \/ Working(r) \/ Faulty(r) PROVE ParkedInv'
  <2>1. CASE Start(r)
    <3>1. Moved(r, "idle", todo[r], sent[r], copy[r])
      BY <1>0, <2>1 DEF Start, Goto, Moved, RelaysOK
    <3>2. RelayOK("idle", todo[r], sent[r], copy[r]) /\ "idle" \in PCs \ {"failed"}
      BY <1>0, <2>1 DEF Start, RelayOK, PCs
    <3> QED
      BY <1>5, <2>1, <3>1, <3>2 DEF Start, store
  <2>2. CASE Claim(r)
    <3>1. \A q \in Relays \ {r} : pc'[q] = pc[q] /\ todo'[q] = todo[q] /\ copy'[q] = copy[q]
      BY <1>0, <2>2 DEF Claim, Goto, RelaysOK
    <3>2. pc'[r] = "publish" /\ \A i \in Records : copy'[r][i] \in {attempts[i], 0}
      BY <1>0, <2>2 DEF Claim, Goto, RelaysOK
    <3>3. UNCHANGED <<attempts, status, failures>>
      BY <2>2 DEF Claim
    <3>4. \A q \in Relays, i \in Records : copy'[q][i] <= failures[i]
      BY <1>0, <3>1, <3>2
    <3>5. \A q \in Relays :
             pc'[q] = "failed" => copy'[q][Current(q)'] < failures'[Current(q)']
      BY <3>1, <3>2, <3>3 DEF Current
    <3> QED
      BY <3>3, <3>4, <3>5
  <2>3. CASE ClaimLost(r)
    BY <1>1, <2>3 DEF ClaimLost, relay
  <2>4. CASE PublishOk(r)
    <3>1. PICK p \in {"idle", "mark", "publish"}, c \in {copy[r], NoCopies} :
             /\ RelayOK(p, todo[r] \ {Current(r)}, sent[r] \cup {Current(r)}, c)
             /\ Moved(r, p, todo[r] \ {Current(r)}, sent[r] \cup {Current(r)}, c)
      BY <1>0, <2>4, PublishMoves
    <3>2. \A i \in Records : c[i] <= failures[i]
      BY <1>0 DEF NoCopies
    <3>3. p \in PCs \ {"failed"}
      BY DEF PCs
    <3> QED
      BY <1>5, <2>4, <3>1, <3>2, <3>3 DEF PublishOk, store
  <2>5. CASE PublishOutage(r)
    <3>1. Moved(r, "outage", todo[r], sent[r], copy[r])
      BY <1>0, <2>5 DEF PublishOutage, Goto, Moved, RelaysOK
    <3>2. RelayOK("outage", todo[r], sent[r], copy[r]) /\ "outage" \in PCs \ {"failed"}
      BY <1>0, <2>5 DEF PublishOutage, RelayOK, PCs
    <3> QED
      BY <1>5, <2>5, <3>1, <3>2 DEF PublishOutage, store
  <2>6. CASE PublishFails(r)
    <3>1. UNCHANGED <<todo, copy, attempts, status>>
          /\ \A q \in Relays \ {r} : pc'[q] = pc[q]
      BY <1>0, <2>6 DEF PublishFails, Goto, store, RelaysOK
    <3>2. Current(r) \in Records /\ copy[r][Current(r)] \in 0..MaxAttempts - 1
      BY <1>0, <2>6, CurrentInTodo DEF PublishFails, RelayOK
    <3>3. /\ \A i \in Records : failures'[i] >= failures[i]
          /\ \A i \in Records : failures[i] = MaxAttempts => failures'[i] = MaxAttempts
          /\ failures'[Current(r)] = IF failures[Current(r)] < MaxAttempts
                                     THEN failures[Current(r)] + 1 ELSE MaxAttempts
      BY <1>0, <2>6, <3>2 DEF PublishFails
    <3>4. copy[r][Current(r)] < failures'[Current(r)]
      BY <1>0, <3>2, <3>3
    <3>5. \A q \in Relays :
             pc'[q] = "failed" => copy'[q][Current(q)'] < failures'[Current(q)']
      <4> SUFFICES ASSUME NEW q \in Relays, pc'[q] = "failed"
                   PROVE  copy[q][Current(q)] < failures'[Current(q)]
        BY <3>1 DEF Current
      <4>1. CASE q = r
        BY <3>4, <4>1
      <4>2. CASE q # r
        <5>1. pc[q] = "failed" /\ Current(q) \in Records
          BY <1>0, <3>1, <4>2, CurrentInTodo DEF RelayOK
        <5>2. /\ copy[q][Current(q)] \in 0..MaxAttempts - 1
              /\ failures[Current(q)] \in 0..MaxAttempts
              /\ failures'[Current(q)] \in 0..MaxAttempts
          BY <1>0, <2>6, <5>1 DEF RelayOK, PublishFails
        <5> QED
          BY <1>0, <3>3, <5>1, <5>2
      <4> QED
        BY <4>1, <4>2
    <3>6. /\ failures' \in [Records -> 0..MaxAttempts]
          /\ \A i \in Records : attempts[i] \in 0..MaxAttempts
          /\ \A q \in Relays, i \in Records : copy[q][i] \in 0..MaxAttempts - 1
      <4>1. failures' \in [Records -> 0..MaxAttempts]
        BY <1>0, <2>6, <3>2 DEF PublishFails
      <4>2. \A i \in Records : attempts[i] \in 0..MaxAttempts
        BY DEF ShapeOK, StoreOK
      <4>3. \A q \in Relays, i \in Records : copy[q][i] \in 0..MaxAttempts - 1
        BY <1>0 DEF RelayOK
      <4> QED
        BY <4>1, <4>2, <4>3
    <3>7. /\ \A i \in Records : attempts'[i] <= failures'[i]
          /\ \A q \in Relays, i \in Records : copy'[q][i] <= failures'[i]
      BY <1>0, <3>1, <3>3, <3>6
    <3> QED
      BY <3>1, <3>3, <3>5, <3>7
  <2>7. CASE \/ RecordFailure(r) \/ GiveBack(r) \/ StoreError(r) \/ MarkSent(r)
             \/ MarkError(r) \/ Cancel(r) \/ CancelMarking(r) \/ Crash(r)
    BY <1>0, <2>7, StepSheds, ParkedSheds
  <2> QED
    BY <1>6, <2>1, <2>2, <2>3, <2>4, <2>5, <2>6, <2>7 DEF Working, Faulty
<1> QED
  BY <1>2, <1>3, <1>4, <1>6 DEF Next, RelayNext

\* A record is parked only after max_attempts publishes failed for its own sake, also when
\* leases lapse and relays write the attempts of stale copies: they only ever undercount.
THEOREM ParkedOnlyIfExhausted == Spec => []ParkedAfterMaxAttempts
<1>1. Init => ParkedInv
  BY RelayAssumption DEF Init, ParkedInv, ParkedAfterMaxAttempts, NoCopies
<1>2. ParkedInv => ParkedAfterMaxAttempts
  BY DEF ParkedInv
<1> QED
  BY <1>1, <1>2, Shape, ParkedNext, PTL DEF Spec

-----------------------------------------------------------------------------
(* While leases last: one relay per record, and the promise of delivery    *)

\* What a relay holds is pending and leased, and it is the only one to hold it.
LeasedInv ==
    /\ \A r \in Relays : \A i \in Held(r) : i \in leased /\ status[i] = "pending"
    /\ OneRelayPerRecord

\* A relay that gets rid of records releases none that it or another still holds.
LEMMA WritesHeld ==
    ASSUME ShapeOK, LeasedInv, NEW r \in Relays, NEW s \in {sent[r], {}}, Writes(r, s),
           NEW i \in Records,
           \/ i \in (todo[r] \ {Current(r)}) \cup s
           \/ \E q \in Relays \ {r} : i \in Held(q)
    PROVE  (i \in leased => i \in leased') /\ status'[i] = status[i]
<1>0. RelayOK(pc[r], todo[r], sent[r], copy[r])
  BY DEF ShapeOK, RelaysOK
<1>1. ASSUME NEW S, NEW to, NEW count, NEW isDue, Settle(S, to, count, isDue), i \notin S
      PROVE  (i \in leased => i \in leased') /\ status'[i] = status[i]
  BY <1>1 DEF Settle
<1>2. CASE UNCHANGED store
  BY <1>2 DEF store
<1>3. CASE pc[r] \in {"failed", "outage"} /\ (Failed(r) \/ PutBack(r))
  <2>1. Current(r) \in todo[r]
    BY <1>0, <1>3, CurrentInTodo DEF RelayOK, ShapeOK
  <2>2. i # Current(r)
    BY <1>0, <2>1 DEF RelayOK, LeasedInv, OneRelayPerRecord, Held
  <2> QED
    BY <1>1, <1>3, <2>2 DEF Failed, PutBack
<1>4. CASE pc[r] \in {"mark", "markThenStop"} /\ s = {} /\ Settle(sent[r], "sent", copy[r], TRUE)
  <2>1. i \notin sent[r]
    BY <1>0, <1>4 DEF RelayOK, LeasedInv, OneRelayPerRecord, Held
  <2> QED
    BY <1>1, <1>4, <2>1
<1> QED
  BY <1>2, <1>3, <1>4 DEF Writes

LEMMA LeasedSheds ==
    ASSUME ShapeOK, LeasedInv, NEW r \in Relays, Sheds(r)
    PROVE  LeasedInv'
<1>1. PICK p \in PCs, t \in SUBSET (todo[r] \ {Current(r)}), s \in {sent[r], {}},
           c \in {copy[r], NoCopies} :
         RelayOK(p, t, s, c) /\ Moved(r, p, t, s, c) /\ Writes(r, s)
  BY DEF Sheds
<1>2. /\ todo'[r] = t /\ sent'[r] = s
      /\ \A q \in Relays \ {r} : todo'[q] = todo[q] /\ sent'[q] = sent[q]
  BY <1>1, MovedEffect DEF ShapeOK
<1>3. \A q \in Relays : Held(q)' \subseteq Held(q)
  BY <1>1, <1>2 DEF Held
<1>4. OneRelayPerRecord'
  BY <1>3 DEF LeasedInv, OneRelayPerRecord
<1>5. ASSUME NEW q \in Relays, NEW i \in Held(q)' PROVE i \in leased' /\ status'[i] = "pending"
  <2>1. i \in leased /\ status[i] = "pending" /\ i \in Records
    BY <1>3, <1>5 DEF LeasedInv, ShapeOK, StoreOK
  <2>2. \/ i \in (todo[r] \ {Current(r)}) \cup s
        \/ \E k \in Relays \ {r} : i \in Held(k)
    BY <1>1, <1>2, <1>5 DEF Held
  <2> QED
    BY <1>1, <2>1, <2>2, WritesHeld
<1> QED
  BY <1>4, <1>5 DEF LeasedInv

LEMMA LeasedNext == ~LeaseMayLapse /\ ShapeOK /\ LeasedInv /\ [Next]_vars => LeasedInv'
<1> SUFFICES ASSUME ~LeaseMayLapse, ShapeOK, LeasedInv, [Next]_vars PROVE LeasedInv'
  OBVIOUS
<1>0. RelaysOK /\ \A q \in Relays : RelayOK(pc[q], todo[q], sent[q], copy[q])
  BY DEF ShapeOK, RelaysOK
<1>1. ASSUME \A q \in Relays : Held(q)' \subseteq Held(q), leased \subseteq leased',
             status' = status
      PROVE  LeasedInv'
  BY <1>1 DEF LeasedInv, OneRelayPerRecord
<1>2. ASSUME NEW i \in Records, LeaseExpires(i) PROVE LeasedInv'
  BY <1>2 DEF LeaseExpires, relay, LeasedInv, OneRelayPerRecord, Held
<1>3. ASSUME NEW i \in Records, RetryDue(i) PROVE LeasedInv'
  BY <1>1, <1>3 DEF RetryDue, relay, Held
<1>4. ASSUME NEW S \in SUBSET Records, Keep(S) PROVE LeasedInv'
  <2>1. \A q \in Relays : Held(q)' = Held(q)
    BY <1>4 DEF Keep, relay, Held
  <2>2. \A q \in Relays : \A i \in Held(q) : i \notin S
    BY <1>4 DEF Keep, LeasedInv
  <2>3. \A q \in Relays : \A i \in Held(q) : i \in leased' /\ status'[i] = "pending"
    BY <1>0, <1>4, <2>2 DEF Keep, Settle, LeasedInv, Held, RelayOK
  <2> QED
    BY <2>1, <2>3 DEF LeasedInv, OneRelayPerRecord
<1>5. CASE UNCHANGED vars
  BY <1>1, <1>5 DEF vars, store, relay, Held
<1>6. ASSUME NEW r \in Relays, Start(r) \/ Working(r) \/ Faulty(r) PROVE LeasedInv'
  <2>1. CASE Start(r) \/ ClaimLost(r) \/ PublishFails(r) \/ PublishOutage(r)
    <3>1. UNCHANGED <<todo, sent, status>> /\ leased \subseteq leased'
      BY <2>1 DEF Start, ClaimLost, PublishFails, PublishOutage, store, relay
    <3> QED
      BY <1>1, <3>1 DEF Held
  <2>2. CASE Claim(r)
    <3>1. /\ sent[r] = {} /\ todo'[r] = Due /\ sent' = sent
          /\ \A q \in Relays \ {r} : todo'[q] = todo[q]
      BY <1>0, <2>2 DEF Claim, RelaysOK, RelayOK
    <3>2. Held(r)' = Due /\ \A q \in Relays \ {r} : Held(q)' = Held(q)
      BY <3>1 DEF Held
    <3>3. \A i \in Due : status[i] = "pending" /\ i \notin leased
      BY DEF Due, Claimable
    <3>4. leased' = leased \cup Due /\ status' = status
      BY <2>2 DEF Claim
    <3> QED
      BY <3>2, <3>3, <3>4 DEF LeasedInv, OneRelayPerRecord
  <2>3. CASE PublishOk(r)
    <3>1. PICK p \in {"idle", "mark", "publish"}, c \in {copy[r], NoCopies} :
             /\ RelayOK(p, todo[r] \ {Current(r)}, sent[r] \cup {Current(r)}, c)
             /\ Moved(r, p, todo[r] \ {Current(r)}, sent[r] \cup {Current(r)}, c)
      BY <1>0, <2>3, PublishMoves
    <3>2. Current(r) \in todo[r]
      BY <1>0, <2>3, CurrentInTodo DEF PublishOk, RelayOK
    <3>3. \A q \in Relays : Held(q)' \subseteq Held(q)
      BY <1>0, <3>1, <3>2, MovedEffect DEF Held
    <3> QED
      BY <1>1, <2>3, <3>3 DEF PublishOk, store
  <2>4. CASE \/ RecordFailure(r) \/ GiveBack(r) \/ StoreError(r) \/ MarkSent(r)
             \/ MarkError(r) \/ Cancel(r) \/ CancelMarking(r) \/ Crash(r)
    BY <1>0, <2>4, StepSheds, LeasedSheds
  <2> QED
    BY <1>6, <2>1, <2>2, <2>3, <2>4 DEF Working, Faulty
<1> QED
  BY <1>2, <1>3, <1>4, <1>5, <1>6 DEF Next, RelayNext

LEMMA LeasedInit == Init => LeasedInv
BY DEF Init, LeasedInv, OneRelayPerRecord, Held

\* While leases last, no two relays ever work on one record.
THEOREM RelaysExclude ==
    ASSUME ~LeaseMayLapse
    PROVE  Spec => []OneRelayPerRecord
<1>1. LeasedInv => OneRelayPerRecord
  BY DEF LeasedInv
<1>2. ShapeOK /\ LeasedInv /\ [Next]_vars => LeasedInv'
  BY LeasedNext
<1> QED
  BY <1>1, <1>2, LeasedInit, Shape, PTL DEF Spec

-----------------------------------------------------------------------------
(* The refinement                                                          *)

\* What a shedding step does to the status of the records.
LEMMA ShedsRefines ==
    ASSUME ShapeOK, PublishedInv, LeasedInv, NEW r \in Relays, Sheds(r)
    PROVE  [Delivery!DeliveryNext]_<<status, delivered>>
<1>0. /\ RelayOK(pc[r], todo[r], sent[r], copy[r])
      /\ status \in [Records -> Statuses]
      /\ todo[r] # {} => Current(r) \in todo[r]
  BY CurrentInTodo DEF ShapeOK, StoreOK, RelaysOK
<1>1. PICK s \in {sent[r], {}} : Writes(r, s)
  BY DEF Sheds
<1>2. CASE UNCHANGED store
  <2>1. CASE delivered' = delivered
    BY <1>2, <2>1 DEF store
  <2>2. CASE pc[r] = "publish" /\ delivered' = delivered \cup {Current(r)}
    <3>1. Current(r) \in Records /\ status[Current(r)] = "pending"
      BY <1>0, <2>2 DEF RelayOK, LeasedInv, Held
    <3>2. Delivery!Deliver(Current(r))
      BY <1>2, <2>2, <3>1 DEF store, Delivery!Deliver
    <3> QED
      BY <3>1, <3>2 DEF Delivery!DeliveryNext
  <2> QED
    BY <2>1, <2>2 DEF Sheds
<1>3. CASE pc[r] = "failed" /\ Failed(r)
  <2>1. /\ Current(r) \in Records /\ status[Current(r)] = "pending"
        /\ delivered' = delivered
    BY <1>0, <1>3 DEF RelayOK, LeasedInv, Held, Sheds
  <2> DEFINE out == OutOfAttempts(copy[r][Current(r)] + 1)
  <2>2. status' = [i \in Records |-> IF i \in {Current(r)}
                                    THEN IF out THEN "failed" ELSE "pending" ELSE status[i]]
    BY <1>3 DEF Failed, Settle
  <2> HIDE DEF out
  <2>3. CASE out
    <3>1. Delivery!Park(Current(r))
      BY <2>1, <2>2, <2>3 DEF Delivery!Park, Delivery!Move
    <3> QED
      BY <2>1, <3>1 DEF Delivery!DeliveryNext
  <2>4. CASE ~out
    BY <1>0, <2>1, <2>2, <2>4
  <2> QED
    BY <2>3, <2>4
<1>4. CASE pc[r] = "outage" /\ PutBack(r)
  <2>1. status[Current(r)] = "pending" /\ delivered' = delivered
    BY <1>0, <1>4 DEF RelayOK, LeasedInv, Held, Sheds
  <2>2. status' = status
    BY <1>0, <1>4, <2>1 DEF PutBack, Settle
  <2> QED
    BY <2>1, <2>2
<1>5. CASE pc[r] \in {"mark", "markThenStop"} /\ Settle(sent[r], "sent", copy[r], TRUE)
  <2>1. /\ sent[r] \in SUBSET Records /\ sent[r] \subseteq delivered
        /\ delivered' = delivered
        /\ \A i \in sent[r] : status[i] = "pending"
    BY <1>0, <1>5 DEF RelayOK, LeasedInv, PublishedInv, Held, Sheds
  <2>2. Delivery!SettleSent(sent[r])
    BY <1>5, <2>1 DEF Settle, Delivery!SettleSent, Delivery!Move
  <2> QED
    BY <2>1, <2>2 DEF Delivery!DeliveryNext
<1> QED
  BY <1>1, <1>2, <1>3, <1>4, <1>5 DEF Writes

LEMMA StepRefines ==
    ShapeOK /\ PublishedInv /\ LeasedInv /\ [Next]_vars
        => [Delivery!DeliveryNext]_<<status, delivered>>
<1> SUFFICES ASSUME ShapeOK, PublishedInv, LeasedInv, [Next]_vars
             PROVE  [Delivery!DeliveryNext]_<<status, delivered>>
  OBVIOUS
<1>1. ASSUME NEW i \in Records, LeaseExpires(i) \/ RetryDue(i)
      PROVE  UNCHANGED <<status, delivered>>
  BY <1>1 DEF LeaseExpires, RetryDue
<1>2. ASSUME NEW S \in SUBSET Records, Keep(S) PROVE Delivery!DeliveryNext
  <2>1. Delivery!KeepAll(S)
    BY <1>2 DEF Keep, Settle, Delivery!KeepAll, Delivery!Move
  <2> QED
    BY <2>1 DEF Delivery!DeliveryNext
<1>3. CASE UNCHANGED vars
  BY <1>3 DEF vars, store
<1>4. ASSUME NEW r \in Relays, Start(r) \/ Working(r) \/ Faulty(r)
      PROVE  [Delivery!DeliveryNext]_<<status, delivered>>
  <2>1. CASE Start(r) \/ Claim(r) \/ ClaimLost(r)
    BY <2>1 DEF Start, Claim, ClaimLost, store
  <2>2. CASE PublishOk(r) \/ PublishFails(r) \/ PublishOutage(r)
    <3>1. /\ pc[r] = "publish" /\ UNCHANGED status
          /\ delivered' \in {delivered, delivered \cup {Current(r)}}
      BY <2>2 DEF PublishOk, PublishFails, PublishOutage, MayDeliver, store
    <3>2. Current(r) \in Records /\ status[Current(r)] = "pending"
      BY <3>1, CurrentInTodo DEF ShapeOK, RelaysOK, RelayOK, LeasedInv, Held
    <3>3. Delivery!Deliver(Current(r)) \/ UNCHANGED <<status, delivered>>
      BY <3>1, <3>2 DEF Delivery!Deliver
    <3> QED
      BY <3>2, <3>3 DEF Delivery!DeliveryNext
  <2>3. CASE \/ RecordFailure(r) \/ GiveBack(r) \/ StoreError(r) \/ MarkSent(r)
             \/ MarkError(r) \/ Cancel(r) \/ CancelMarking(r) \/ Crash(r)
    BY <2>3, StepSheds, ShedsRefines DEF ShapeOK
  <2> QED
    BY <1>4, <2>1, <2>2, <2>3 DEF Working, Faulty
<1> QED
  BY <1>1, <1>2, <1>3, <1>4 DEF Next, RelayNext

\* While leases last, the store and any number of relays implement at-least-once delivery:
\* a kept record is delivered before it is marked sent, and is settled for good.
THEOREM DeliveryImplemented ==
    ASSUME ~LeaseMayLapse
    PROVE  Spec => ImplementsDelivery
<1>1. Init => Delivery!DeliveryInit
  BY DEF Init, Delivery!DeliveryInit
<1>2. Init => PublishedInv
  BY DEF Init, PublishedInv, SentWasPublished
<1>3. ShapeOK /\ LeasedInv /\ [Next]_vars => LeasedInv'
  BY LeasedNext
<1>4. ShapeOK /\ PublishedInv /\ LeasedInv /\ [Next]_vars
         => [Delivery!DeliveryNext]_(Delivery!deliveryVars)
  BY StepRefines DEF Delivery!deliveryVars
<1> QED
  BY <1>1, <1>2, <1>3, <1>4, LeasedInit, Shape, PublishedNext, PTL
  DEF Spec, ImplementsDelivery, Delivery!DeliverySpec

-----------------------------------------------------------------------------
(* The whole outbox                                                        *)

LEMMA ProducerStep == ShapeOK /\ [OutboxNext]_outboxVars => [Next]_vars
<1> SUFFICES ASSUME ShapeOK, [OutboxNext]_outboxVars PROVE [Next]_vars
  OBVIOUS
<1>1. ASSUME NEW S \in SUBSET Records, Keep(S) PROVE [Next]_vars
  <2>1. CASE S = {}
    <3>1. status' = status /\ attempts' = attempts /\ due' = due /\ leased' = leased
      BY <1>1, <2>1 DEF Keep, Settle, ShapeOK, StoreOK
    <3> QED
      BY <1>1, <3>1 DEF Keep, vars, store
  <2>2. CASE S # {}
    <3>1. S \in (SUBSET Records) \ {{}}
      BY <2>2
    <3> QED
      BY <1>1, <3>1, Zenon DEF Next
  <2> QED
    BY <2>1, <2>2
<1>2. CASE RelayStep
  BY <1>2, Zenon DEF RelayStep, Next
<1>3. CASE Produce
  BY <1>1, <1>3 DEF Produce
<1>4. CASE UNCHANGED outboxVars
  BY <1>4 DEF outboxVars
<1> QED
  BY <1>2, <1>3, <1>4 DEF OutboxNext

\* Producers and their transactions change nothing of what was proved of the store and its
\* relays: the composed outbox is an instance of them.
THEOREM OutboxIsRelay == OutboxSpec => Spec
<1>1. OutboxInit => Init
  BY DEF OutboxInit
<1>2. ShapeOK /\ [OutboxNext]_outboxVars => ShapeOK'
  BY ProducerStep, TypeNext
<1> QED
  BY <1>1, <1>2, ProducerStep, TypeInit, PTL DEF OutboxSpec, Spec

\* The whole outbox, producers included, delivers at least once while leases last.
THEOREM OutboxDelivers ==
    ASSUME ~LeaseMayLapse
    PROVE  OutboxSpec => ImplementsDelivery
BY OutboxIsRelay, DeliveryImplemented, PTL

-----------------------------------------------------------------------------
(* The producers' transactions                                             *)

\* How transactions nest: each with those around it, which began before it.
Nested ==
    \A t \in Transactions :
        /\ outcome[t] = "new" => around[t] = {}
        /\ outcome[t] # "new" =>
              /\ t \in around[t]
              /\ outer[t] = None => around[t] = {t}
              /\ outer[t] # None => /\ outer[t] \in around[t] /\ t \notin around[outer[t]]
                                    /\ around[t] = {t} \cup around[outer[t]]
        /\ \A u \in around[t] : outcome[u] # "new" /\ around[u] \subseteq around[t]

\* A staged record was emitted inside the transaction that stages it, and those it was
\* emitted inside that are not around that one any more have exited cleanly.
StagedWithin ==
    /\ \A i \in Records \ emitted : within[i] = {}
    /\ \A i \in Records : \A t \in within[i] : outcome[t] # "new" /\ around[t] \subseteq within[i]
    /\ \A t \in Transactions : \A i \in staged[t] :
          /\ t \in within[i]
          /\ \A u \in within[i] : u \in around[t] \/ outcome[u] = "clean"

TxInv == Tx!TxTypeOK /\ Nested /\ StagedWithin /\ RolledBackNeverKept

\* While no task outlives the block it was created in, code runs inside open blocks only.
OpenAround == \A c \in Contexts : \A u \in Tx!Around(c) : outcome[u] = "open"

\* An emitted record is kept, rolled back, or staged in a block that is still open.
Accounted ==
    \A i \in emitted :
        \/ i \in Kept
        \/ \E t \in within[i] : outcome[t] = "raised" \/ (outcome[t] = "open" /\ i \in staged[t])

TxCommits == OpenAround /\ Accounted

TxStepVars == <<Kept, txVars>>

LEMMA AroundIs ==
    ASSUME TxInv, NEW c \in Contexts
    PROVE  /\ Tx!Around(c) \subseteq Transactions
           /\ \A u \in Tx!Around(c) : outcome[u] # "new" /\ around[u] \subseteq Tx!Around(c)
           /\ stagedVar[c] # None => stagedVar[c] \in Transactions /\ stagedVar[c] \in Tx!Around(c)
BY DEF TxInv, Tx!TxTypeOK, Nested, Tx!Around

LEMMA TxRunning ==
    ASSUME TxInv, NEW c \in Contexts, NEW d \in Contexts,
           Tx!Run(c) \/ Tx!Fork(c, d) \/ Tx!Finish(c)
    PROVE  TxInv'
<1>1. Tx!TxTypeOK'
  BY DEF Tx!Run, Tx!Fork, Tx!Finish, TxInv, Tx!TxTypeOK
<1>2. UNCHANGED <<Kept, staged, outer, around, owner, outcome, emitted, within>>
  BY DEF Tx!Run, Tx!Fork, Tx!Finish
<1> QED
  BY <1>1, <1>2 DEF TxInv, Nested, StagedWithin, RolledBackNeverKept, Tx!RolledBackNeverKept

LEMMA TxBegin ==
    ASSUME TxInv, NEW c \in Contexts, NEW t \in Transactions, Tx!Begin(c, t)
    PROVE  TxInv'
<1>1. /\ outcome[t] = "new" /\ around[t] = {}
      /\ outcome' \in [Transactions -> {"new", "open", "clean", "raised"}]
      /\ outcome'[t] = "open" /\ outer'[t] = stagedVar[c]
      /\ around'[t] = {t} \cup Tx!Around(c)
      /\ \A u \in Transactions \ {t} : /\ outcome'[u] = outcome[u] /\ outer'[u] = outer[u]
                                       /\ around'[u] = around[u]
  BY DEF Tx!Begin, TxInv, Tx!TxTypeOK, Nested
<1>2. Tx!Around(c) \subseteq Transactions \ {t}
  BY <1>1, AroundIs
<1>3. Tx!TxTypeOK'
  BY <1>1, <1>2 DEF Tx!Begin, TxInv, Tx!TxTypeOK
<1>4. Nested'
  <2> SUFFICES ASSUME NEW u \in Transactions
               PROVE  /\ outcome'[u] = "new" => around'[u] = {}
                      /\ outcome'[u] # "new" =>
                            /\ u \in around'[u]
                            /\ outer'[u] = None => around'[u] = {u}
                            /\ outer'[u] # None => /\ outer'[u] \in around'[u]
                                                   /\ u \notin around'[outer'[u]]
                                                   /\ around'[u] = {u} \cup around'[outer'[u]]
                      /\ \A v \in around'[u] : outcome'[v] # "new" /\ around'[v] \subseteq around'[u]
    BY DEF Nested
  <2>1. CASE u = t
    BY <1>1, <1>2, <2>1, AroundIs DEF Tx!Around
  <2>2. CASE u # t
    <3>1. t \notin around[u] /\ around[u] \subseteq Transactions
      BY <1>1 DEF TxInv, Nested, Tx!TxTypeOK
    <3>2. outer[u] # None /\ outcome[u] # "new" => outer[u] \in Transactions \ {t}
      BY <3>1 DEF TxInv, Nested, Tx!TxTypeOK
    <3> QED
      BY <1>1, <2>2, <3>1, <3>2 DEF TxInv, Nested
  <2> QED
    BY <2>1, <2>2
<1>5. \A i \in Records : t \notin within[i] /\ within[i] \subseteq Transactions
  BY <1>1 DEF TxInv, StagedWithin, Tx!TxTypeOK
<1>6. StagedWithin'
  <2>1. UNCHANGED <<staged, within>>
    BY DEF Tx!Begin
  <2>2. staged[t] = {} /\ \A u \in Transactions : staged[u] \subseteq Records
    BY <1>5 DEF TxInv, StagedWithin, Tx!TxTypeOK
  <2>3. UNCHANGED emitted
    BY DEF Tx!Begin
  <2> QED
    BY <1>1, <1>5, <2>1, <2>2, <2>3 DEF TxInv, StagedWithin
<1>7. RolledBackNeverKept'
  BY <1>1, <1>5 DEF Tx!Begin, TxInv, RolledBackNeverKept, Tx!RolledBackNeverKept, Tx!TxTypeOK
<1> QED
  BY <1>3, <1>4, <1>6, <1>7 DEF TxInv

LEMMA TxEmit ==
    ASSUME TxInv, NEW c \in Contexts, NEW i \in Records, Tx!Emit(c, i)
    PROVE  TxInv'
<1>1. /\ i \notin emitted /\ i \notin Kept /\ \A t \in Transactions : i \notin staged[t]
      /\ Kept \subseteq Records /\ \A t \in Transactions : staged[t] \subseteq Records
  BY DEF Tx!Emit, TxInv, Tx!TxTypeOK
<1>2. CASE stagedVar[c] = None
  <2>1. /\ Kept' = Kept \cup {i} /\ emitted' = emitted \cup {i}
        /\ UNCHANGED <<stagedVar, running, staged, outer, around, owner, outcome, within>>
    BY <1>2 DEF Tx!Emit
  <2>2. within[i] = {}
    BY <1>1 DEF TxInv, StagedWithin, Tx!Emit
  <2> QED
    BY <1>1, <2>1, <2>2 DEF TxInv, Tx!TxTypeOK, Nested, StagedWithin, RolledBackNeverKept,
                            Tx!RolledBackNeverKept
<1>3. CASE stagedVar[c] # None
  <2> DEFINE t == stagedVar[c]
  <2>1. t \in Transactions /\ t \in Tx!Around(c) /\ Tx!Around(c) = around[t]
    BY <1>3, AroundIs DEF Tx!Around
  <2>2. /\ emitted' = emitted \cup {i}
        /\ staged' = [staged EXCEPT ![t] = @ \cup {i}]
        /\ within' = [within EXCEPT ![i] = around[t]]
        /\ UNCHANGED <<Kept, stagedVar, running, outer, around, owner, outcome>>
    BY <1>3, <2>1 DEF Tx!Emit, Tx!Staging
  <2> HIDE DEF t
  <2>3. /\ within'[i] = around[t] /\ \A j \in Records \ {i} : within'[j] = within[j]
        /\ staged'[t] = staged[t] \cup {i}
        /\ \A u \in Transactions \ {t} : staged'[u] = staged[u]
    BY <2>1, <2>2 DEF TxInv, Tx!TxTypeOK
  <2>4. Tx!TxTypeOK'
    BY <2>1, <2>2 DEF TxInv, Tx!TxTypeOK
  <2>5. Nested'
    BY <2>2 DEF TxInv, Nested
  <2>6. StagedWithin'
    <3>1. \A j \in Records \ emitted' : within'[j] = {}
      BY <2>2, <2>3 DEF TxInv, StagedWithin
    <3>2. \A j \in Records : \A u \in within'[j] :
             outcome'[u] # "new" /\ around'[u] \subseteq within'[j]
      BY <2>1, <2>2, <2>3, AroundIs DEF TxInv, StagedWithin
    <3>3. \A u \in Transactions : \A j \in staged'[u] :
             u \in within'[j] /\ \A v \in within'[j] : v \in around'[u] \/ outcome'[v] = "clean"
      BY <1>1, <2>1, <2>2, <2>3 DEF TxInv, StagedWithin
    <3> QED
      BY <3>1, <3>2, <3>3 DEF StagedWithin
  <2>7. RolledBackNeverKept'
    BY <1>1, <2>2, <2>3 DEF TxInv, RolledBackNeverKept, Tx!RolledBackNeverKept
  <2> QED
    BY <2>4, <2>5, <2>6, <2>7 DEF TxInv
<1> QED
  BY <1>2, <1>3

LEMMA TxRaise ==
    ASSUME TxInv, NEW c \in Contexts, NEW t \in Transactions, Tx!Raise(c, t)
    PROVE  TxInv'
<1>1. /\ outcome[t] = "open" /\ outcome' = [outcome EXCEPT ![t] = "raised"]
      /\ stagedVar' = [stagedVar EXCEPT ![c] = outer[t]]
      /\ UNCHANGED <<Kept, running, staged, outer, around, owner, emitted, within>>
  BY DEF Tx!Raise, Tx!Inside, Tx!Reset
<1>2. outer[t] # None => outcome[outer[t]] # "new"
  BY <1>1 DEF TxInv, Nested
<1> QED
  BY <1>1, <1>2 DEF TxInv, Tx!TxTypeOK, Nested, StagedWithin, RolledBackNeverKept,
                    Tx!RolledBackNeverKept

LEMMA TxExit ==
    ASSUME TxInv, NEW c \in Contexts, NEW t \in Transactions, Tx!Exit(c, t)
    PROVE  TxInv'
<1>1. /\ outcome[t] = "open" /\ outcome' = [outcome EXCEPT ![t] = "clean"]
      /\ stagedVar' = [stagedVar EXCEPT ![c] = outer[t]]
      /\ UNCHANGED <<running, outer, around, owner, emitted, within>>
  BY DEF Tx!Exit, Tx!Inside, Tx!Reset
<1>2. outer[t] # None => outcome[outer[t]] # "new" /\ outer[t] \in Transactions
  BY <1>1 DEF TxInv, Nested, Tx!TxTypeOK
<1>3. /\ outcome'[t] = "clean" /\ \A u \in Transactions \ {t} : outcome'[u] = outcome[u]
      /\ outcome' \in [Transactions -> {"new", "open", "clean", "raised"}]
      /\ stagedVar' \in [Contexts -> Transactions \cup {None}]
      /\ \A d \in Contexts : stagedVar'[d] # None => outcome'[stagedVar'[d]] # "new"
  BY <1>1, <1>2 DEF TxInv, Tx!TxTypeOK
<1>4. Nested'
  BY <1>1, <1>3 DEF TxInv, Nested, Tx!TxTypeOK
<1>5. CASE outer[t] = None
  <2>1. Kept' = Kept \cup staged[t] /\ UNCHANGED staged
    BY <1>5 DEF Tx!Exit, Tx!HandOver
  <2>2. Tx!TxTypeOK'
    BY <1>1, <1>3, <2>1 DEF TxInv, Tx!TxTypeOK
  <2>3. StagedWithin'
    BY <1>1, <1>3, <2>1 DEF TxInv, StagedWithin, Tx!TxTypeOK
  <2>4. around[t] = {t}
    BY <1>1, <1>5 DEF TxInv, Nested
  <2>5. \A i \in Kept' : i \in Records /\ within[i] \subseteq Transactions
    BY <2>1 DEF TxInv, Tx!TxTypeOK
  <2>6. RolledBackNeverKept'
    BY <1>1, <1>3, <2>1, <2>4, <2>5
    DEF TxInv, StagedWithin, RolledBackNeverKept, Tx!RolledBackNeverKept
  <2> QED
    BY <1>4, <2>2, <2>3, <2>6 DEF TxInv
<1>6. CASE outer[t] # None
  <2> DEFINE o == outer[t]
  <2>1. /\ Kept' = Kept /\ staged' = [staged EXCEPT ![o] = @ \cup staged[t]]
        /\ o \in Transactions /\ o \in around[t] /\ around[t] = {t} \cup around[o]
    BY <1>1, <1>2, <1>6 DEF Tx!Exit, Tx!HandOver, Tx!Staging, TxInv, Nested
  <2> HIDE DEF o
  <2>2. Tx!TxTypeOK'
    BY <1>1, <1>3, <2>1 DEF TxInv, Tx!TxTypeOK
  <2>3. StagedWithin'
    <3>1. staged'[o] = staged[o] \cup staged[t]
          /\ \A u \in Transactions \ {o} : staged'[u] = staged[u]
      BY <2>1 DEF TxInv, Tx!TxTypeOK
    <3>2. \A u \in Transactions : \A i \in staged[u] : i \in Records /\ within[i] \subseteq Transactions
      BY DEF TxInv, Tx!TxTypeOK
    <3>3. \A u \in Transactions : \A i \in staged'[u] :
             u \in within[i] /\ \A v \in within[i] : v \in around[u] \/ outcome'[v] = "clean"
      <4> SUFFICES ASSUME NEW u \in Transactions, NEW i \in staged'[u]
                   PROVE  u \in within[i]
                          /\ \A v \in within[i] : v \in around[u] \/ outcome'[v] = "clean"
        OBVIOUS
      <4>1. CASE i \in staged[u]
        BY <1>3, <3>2, <4>1 DEF TxInv, StagedWithin
      <4>2. CASE i \notin staged[u]
        <5>1. u = o /\ i \in staged[t]
          BY <3>1, <4>2
        <5>2. t \in within[i] /\ around[t] \subseteq within[i]
          BY <3>2, <5>1 DEF TxInv, StagedWithin
        <5> QED
          BY <1>3, <2>1, <3>2, <5>1, <5>2 DEF TxInv, StagedWithin
      <4> QED
        BY <4>1, <4>2
    <3> QED
      BY <1>1, <1>3, <3>3 DEF TxInv, StagedWithin, Tx!TxTypeOK
  <2>4. RolledBackNeverKept'
    BY <1>1, <1>3, <2>1
    DEF TxInv, RolledBackNeverKept, Tx!RolledBackNeverKept, Tx!TxTypeOK
  <2> QED
    BY <1>4, <2>2, <2>3, <2>4 DEF TxInv
<1> QED
  BY <1>5, <1>6

LEMMA TxInvNext == TxInv /\ [Tx!TxNext]_TxStepVars => TxInv'
<1> SUFFICES ASSUME TxInv, [Tx!TxNext]_TxStepVars PROVE TxInv'
  OBVIOUS
<1>1. CASE UNCHANGED TxStepVars
  BY <1>1 DEF TxStepVars, txVars, TxInv, Tx!TxTypeOK, Nested, StagedWithin, RolledBackNeverKept,
              Tx!RolledBackNeverKept
<1>2. CASE Tx!TxNext
  BY <1>2, TxRunning, TxBegin, TxEmit, TxRaise, TxExit DEF Tx!TxNext
<1> QED
  BY <1>1, <1>2

-----------------------------------------------------------------------------
(* What commits is kept, while no task outlives the block it was created in *)

LEMMA CommitsRunning ==
    ASSUME TxInv, TxCommits, NEW c \in Contexts, NEW d \in Contexts,
           Tx!Run(c) \/ Tx!Fork(c, d) \/ Tx!Finish(c)
    PROVE  TxCommits'
BY ProducerAssumption DEF Tx!Run, Tx!Fork, Tx!Finish, TxInv, TxCommits, Accounted, OpenAround,
                          Tx!Around, Tx!TxTypeOK

LEMMA CommitsBegin ==
    ASSUME TxInv, TxCommits, NEW c \in Contexts, NEW t \in Transactions, Tx!Begin(c, t)
    PROVE  TxCommits'
<1>1. /\ outcome[t] = "new" /\ outcome' = [outcome EXCEPT ![t] = "open"]
      /\ around' = [around EXCEPT ![t] = {t} \cup Tx!Around(c)]
      /\ stagedVar' = [stagedVar EXCEPT ![c] = t]
      /\ UNCHANGED <<Kept, staged, emitted, within>>
  BY DEF Tx!Begin
<1>2. \A d \in Contexts : t \notin Tx!Around(d) /\ stagedVar[d] # t
  BY <1>1, AroundIs, ProducerAssumption
<1>3. Accounted'
  BY <1>1 DEF TxInv, TxCommits, Accounted, Tx!TxTypeOK
<1>4. OpenAround'
  <2> SUFFICES ASSUME NEW d \in Contexts, NEW u \in Tx!Around(d)'
               PROVE  outcome'[u] = "open"
    BY DEF OpenAround
  <2>1. CASE d = c
    <3>1. u \in {t} \cup Tx!Around(c)
      BY <1>1, <2>1, ProducerAssumption DEF Tx!Around, TxInv, Tx!TxTypeOK
    <3> QED
      BY <1>1, <3>1, AroundIs DEF TxCommits, OpenAround, TxInv, Tx!TxTypeOK
  <2>2. CASE d # c
    <3>1. u \in Tx!Around(d) /\ u # t
      BY <1>1, <1>2, <2>2 DEF Tx!Around, TxInv, Tx!TxTypeOK
    <3> QED
      BY <1>1, <3>1, AroundIs DEF TxCommits, OpenAround, TxInv, Tx!TxTypeOK
  <2> QED
    BY <2>1, <2>2
<1> QED
  BY <1>3, <1>4 DEF TxCommits

LEMMA CommitsEmit ==
    ASSUME TxInv, TxCommits, NEW c \in Contexts, NEW i \in Records, Tx!Emit(c, i)
    PROVE  TxCommits'
<1>1. UNCHANGED <<stagedVar, around, outcome>> /\ emitted' = emitted \cup {i} /\ i \notin emitted
      /\ Kept \subseteq Kept'
  BY DEF Tx!Emit
<1>2. OpenAround'
  BY <1>1 DEF TxCommits, OpenAround, Tx!Around
<1>3. /\ \A j \in emitted : within'[j] = within[j]
      /\ \A t \in Transactions : staged[t] \subseteq staged'[t]
      /\ \A j \in emitted : j \in Records /\ within[j] \subseteq Transactions
  BY <1>1, AroundIs DEF Tx!Emit, Tx!Staging, TxInv, Tx!TxTypeOK
<1>4. i \in Kept' \/ \E t \in within'[i] : outcome'[t] = "open" /\ i \in staged'[t]
  <2>1. CASE stagedVar[c] = None
    BY <2>1 DEF Tx!Emit
  <2>2. CASE stagedVar[c] # None
    <3>1. stagedVar[c] \in within'[i] /\ i \in staged'[stagedVar[c]]
      BY <2>2, AroundIs DEF Tx!Emit, Tx!Staging, TxInv, Tx!TxTypeOK
    <3> QED
      BY <1>1, <2>2, <3>1, AroundIs DEF TxCommits, OpenAround
  <2> QED
    BY <2>1, <2>2
<1>5. Accounted'
  BY <1>1, <1>3, <1>4 DEF TxCommits, Accounted
<1> QED
  BY <1>2, <1>5 DEF TxCommits

LEMMA CommitsEnd ==
    ASSUME Structured, TxInv, TxCommits, NEW c \in Contexts, NEW t \in Transactions,
           Tx!Exit(c, t) \/ Tx!Raise(c, t)
    PROVE  TxCommits'
<1>1. PICK end \in {"clean", "raised"} :
         /\ outcome[t] = "open" /\ outcome' = [outcome EXCEPT ![t] = end]
         /\ end = "clean" => Tx!HandOver(t)
         /\ end = "raised" => UNCHANGED <<Kept, staged>>
  BY DEF Tx!Exit, Tx!Raise, Tx!Inside
<1>2. /\ stagedVar[c] = t /\ Tx!AloneIn(c, t)
      /\ stagedVar' = [stagedVar EXCEPT ![c] = outer[t]]
      /\ UNCHANGED <<outer, around, emitted, within>>
  BY DEF Tx!Exit, Tx!Raise, Tx!Inside, Tx!Reset
<1>3. /\ outer[t] \in Transactions \cup {None}
      /\ outer[t] # None => /\ outer[t] \in around[t] /\ t \notin around[outer[t]]
                            /\ around[t] = {t} \cup around[outer[t]]
                            /\ outer[t] \in around[outer[t]]
  BY <1>1 DEF TxInv, Nested, Tx!TxTypeOK
<1>4. t # None /\ Tx!Around(c) = around[t]
  BY <1>2, ProducerAssumption DEF Tx!Around
<1>5. OpenAround'
  <2> SUFFICES ASSUME NEW d \in Contexts, NEW u \in Tx!Around(d)'
               PROVE  outcome'[u] = "open"
    BY DEF OpenAround
  <2>1. u \in Transactions /\ u # t /\ outcome[u] = "open"
    <3>1. CASE d = c
      <4>1. outer[t] # None /\ u \in around[outer[t]]
        BY <1>2, <3>1 DEF Tx!Around, TxInv, Tx!TxTypeOK
      <4> QED
        BY <1>3, <1>4, <4>1, AroundIs DEF TxCommits, OpenAround
    <3>2. CASE d # c
      <4>1. u \in Tx!Around(d)
        BY <1>2, <3>2 DEF Tx!Around, TxInv, Tx!TxTypeOK
      <4> QED
        BY <1>2, <3>2, <4>1, AroundIs DEF Tx!AloneIn, TxCommits, OpenAround
    <3> QED
      BY <3>1, <3>2
  <2> QED
    BY <1>1, <2>1 DEF TxInv, Tx!TxTypeOK
<1>6. Accounted'
  <2> SUFFICES ASSUME NEW i \in emitted, i \notin Kept'
               PROVE  \E u \in within[i] :
                          \/ outcome'[u] = "raised"
                          \/ (outcome'[u] = "open" /\ i \in staged'[u])
    BY <1>2 DEF Accounted
  <2>1. /\ i \in Records /\ within[i] \subseteq Transactions
        /\ Kept \subseteq Kept' /\ \A u \in Transactions : staged[u] \subseteq staged'[u]
    BY <1>1 DEF Tx!HandOver, Tx!Staging, TxInv, Tx!TxTypeOK
  <2>2. PICK u \in within[i] : outcome[u] = "raised" \/ (outcome[u] = "open" /\ i \in staged[u])
    BY <2>1 DEF TxCommits, Accounted
  <2>3. CASE u # t
    BY <1>1, <2>1, <2>2, <2>3 DEF TxInv, Tx!TxTypeOK
  <2>4. CASE u = t /\ end = "raised"
    BY <1>1, <2>1, <2>4 DEF TxInv, Tx!TxTypeOK
  <2>5. CASE u = t /\ end = "clean"
    <3>1. i \in staged[t] /\ t \in within[i]
      BY <1>1, <2>2, <2>5
    <3>2. outer[t] # None /\ i \in staged'[outer[t]]
      BY <1>1, <1>3, <2>5, <3>1 DEF Tx!HandOver, Tx!Staging, TxInv, Tx!TxTypeOK
    <3>3. outer[t] \in within[i] /\ outer[t] # t
      BY <1>3, <2>1, <3>1, <3>2 DEF TxInv, StagedWithin
    <3>4. outcome'[outer[t]] = "open"
      BY <1>1, <1>3, <1>4, <3>2, <3>3 DEF TxCommits, OpenAround, TxInv, Tx!TxTypeOK
    <3> QED
      BY <3>2, <3>3, <3>4
  <2> QED
    BY <2>3, <2>4, <2>5
<1> QED
  BY <1>5, <1>6 DEF TxCommits

LEMMA TxCommitsNext ==
    ASSUME Structured
    PROVE  TxInv /\ TxCommits /\ [Tx!TxNext]_TxStepVars => TxCommits'
<1> SUFFICES ASSUME TxInv, TxCommits, [Tx!TxNext]_TxStepVars PROVE TxCommits'
  OBVIOUS
<1>1. CASE UNCHANGED TxStepVars
  BY <1>1 DEF TxStepVars, txVars, TxCommits, OpenAround, Accounted, Tx!Around
<1>2. CASE Tx!TxNext
  BY <1>2, CommitsRunning, CommitsBegin, CommitsEmit, CommitsEnd DEF Tx!TxNext
<1> QED
  BY <1>1, <1>2

-----------------------------------------------------------------------------
(* Where the two sides meet                                                *)

\* What relays hold and the broker has is in the store.
HeldKept == (\A r \in Relays : Held(r) \subseteq Kept) /\ delivered \subseteq Kept

LEMMA WritesKeep ==
    ASSUME ShapeOK, HeldKept, NEW r \in Relays, NEW s, Writes(r, s)
    PROVE  Kept' = Kept
<1>0. /\ RelayOK(pc[r], todo[r], sent[r], copy[r])
      /\ todo[r] # {} => Current(r) \in todo[r]
      /\ todo[r] \subseteq Kept /\ sent[r] \subseteq Kept
  BY CurrentInTodo DEF ShapeOK, RelaysOK, HeldKept, Held
<1>1. ASSUME NEW S \in SUBSET Kept, NEW to \in {"pending", "sent", "failed"}, NEW count,
             NEW isDue, Settle(S, to, count, isDue)
      PROVE  Kept' = Kept
  BY <1>1 DEF Settle, Kept
<1>2. CASE UNCHANGED store
  BY <1>2 DEF store, Kept
<1>3. CASE pc[r] \in {"failed", "outage"} /\ (Failed(r) \/ PutBack(r))
  <2>1. {Current(r)} \in SUBSET Kept
    BY <1>0, <1>3 DEF RelayOK
  <2> QED
    BY <1>1, <1>3, <2>1 DEF Failed, PutBack
<1>4. CASE Settle(sent[r], "sent", copy[r], TRUE)
  BY <1>0, <1>1, <1>4
<1> QED
  BY <1>2, <1>3, <1>4 DEF Writes

LEMMA HeldSheds ==
    ASSUME ShapeOK, HeldKept, NEW r \in Relays, Sheds(r)
    PROVE  HeldKept' /\ Kept' = Kept
<1>1. PICK p \in PCs, t \in SUBSET todo[r], s \in {sent[r], {}}, c \in {copy[r], NoCopies} :
         RelayOK(p, t, s, c) /\ Moved(r, p, t, s, c) /\ Writes(r, s)
  BY DEF Sheds
<1>2. /\ todo'[r] = t /\ sent'[r] = s
      /\ \A q \in Relays \ {r} : todo'[q] = todo[q] /\ sent'[q] = sent[q]
  BY <1>1, MovedEffect DEF ShapeOK
<1>3. Kept' = Kept
  BY <1>1, WritesKeep
<1>4. \A q \in Relays : Held(q)' \subseteq Held(q)
  BY <1>1, <1>2 DEF Held
<1>5. pc[r] = "publish" => Current(r) \in Kept
  BY CurrentInTodo DEF ShapeOK, RelaysOK, RelayOK, HeldKept, Held
<1> QED
  BY <1>3, <1>4, <1>5 DEF HeldKept, Sheds

\* A step of a relay or of time keeps and loses no record.
LEMMA RelayKeeps ==
    ASSUME ShapeOK, HeldKept, RelayNext \/ UNCHANGED vars
    PROVE  HeldKept' /\ Kept' = Kept
<1>0. RelaysOK /\ \A q \in Relays : RelayOK(pc[q], todo[q], sent[q], copy[q])
  BY DEF ShapeOK, RelaysOK
<1>1. ASSUME UNCHANGED <<status, todo, sent, delivered>> PROVE HeldKept' /\ Kept' = Kept
  BY <1>1 DEF HeldKept, Held, Kept
<1>2. ASSUME NEW i \in Records, LeaseExpires(i) \/ RetryDue(i) PROVE HeldKept' /\ Kept' = Kept
  BY <1>1, <1>2 DEF LeaseExpires, RetryDue, relay
<1>3. CASE UNCHANGED vars
  BY <1>1, <1>3 DEF vars, store, relay
<1>4. ASSUME NEW r \in Relays, Start(r) \/ Working(r) \/ Faulty(r)
      PROVE  HeldKept' /\ Kept' = Kept
  <2>1. CASE Start(r) \/ ClaimLost(r)
    BY <1>1, <2>1 DEF Start, ClaimLost, store, relay
  <2>2. CASE Claim(r)
    <3>1. /\ UNCHANGED <<status, sent, delivered>>
          /\ \A q \in Relays : todo'[q] = IF q = r THEN Due ELSE todo[q]
      BY <1>0, <2>2 DEF Claim, RelaysOK
    <3>2. Due \subseteq Kept
      BY DEF Due, Claimable, Kept
    <3> QED
      BY <3>1, <3>2 DEF HeldKept, Held, Kept
  <2>3. CASE PublishFails(r) \/ PublishOutage(r)
    <3>1. /\ pc[r] = "publish" /\ UNCHANGED <<status, todo, sent>>
          /\ delivered' \in {delivered, delivered \cup {Current(r)}}
      BY <2>3 DEF PublishFails, PublishOutage, MayDeliver, store
    <3>2. Current(r) \in Kept
      BY <1>0, <3>1, CurrentInTodo DEF RelayOK, HeldKept, Held
    <3> QED
      BY <3>1, <3>2 DEF HeldKept, Held, Kept
  <2>4. CASE PublishOk(r)
    <3>1. PICK p \in {"idle", "mark", "publish"}, c \in {copy[r], NoCopies} :
             /\ RelayOK(p, todo[r] \ {Current(r)}, sent[r] \cup {Current(r)}, c)
             /\ Moved(r, p, todo[r] \ {Current(r)}, sent[r] \cup {Current(r)}, c)
      BY <1>0, <2>4, PublishMoves
    <3>2. Current(r) \in todo[r] /\ Current(r) \in Kept
      BY <1>0, <2>4, CurrentInTodo DEF PublishOk, RelayOK, HeldKept, Held
    <3>3. \A q \in Relays : Held(q)' \subseteq Held(q)
      BY <1>0, <3>1, <3>2, MovedEffect DEF Held
    <3>4. Kept' = Kept /\ delivered' = delivered \cup {Current(r)}
      BY <2>4 DEF PublishOk, store, Kept
    <3> QED
      BY <3>2, <3>3, <3>4 DEF HeldKept
  <2>5. CASE \/ RecordFailure(r) \/ GiveBack(r) \/ StoreError(r) \/ MarkSent(r)
             \/ MarkError(r) \/ Cancel(r) \/ CancelMarking(r) \/ Crash(r)
    BY <1>0, <2>5, StepSheds, HeldSheds
  <2> QED
    BY <1>4, <2>1, <2>2, <2>3, <2>4, <2>5 DEF Working, Faulty
<1> QED
  BY <1>2, <1>3, <1>4 DEF RelayNext

LEMMA HeldNext == ShapeOK /\ HeldKept /\ [Next]_vars => HeldKept'
<1> SUFFICES ASSUME ShapeOK, HeldKept, [Next]_vars PROVE HeldKept'
  OBVIOUS
<1>1. ASSUME NEW S \in SUBSET Records, Keep(S) PROVE HeldKept'
  <2>1. UNCHANGED <<todo, sent, delivered>> /\ Kept \subseteq Kept'
    BY <1>1 DEF Keep, Settle, relay, Kept
  <2> QED
    BY <2>1 DEF HeldKept, Held
<1> QED
  BY <1>1, RelayKeeps DEF Next

LEMMA HeldInit == Init => HeldKept
BY DEF Init, HeldKept, Held

LEMMA OutboxStepIsTx ==
    ShapeOK /\ HeldKept /\ [OutboxNext]_outboxVars => [Tx!TxNext]_TxStepVars
<1> SUFFICES ASSUME ShapeOK, HeldKept, [OutboxNext]_outboxVars
             PROVE  [Tx!TxNext]_TxStepVars
  OBVIOUS
<1>1. CASE Produce
  BY <1>1 DEF Produce
<1>2. CASE RelayStep \/ UNCHANGED outboxVars
  <2>1. UNCHANGED txVars /\ Kept' = Kept
    BY <1>2, RelayKeeps DEF RelayStep, outboxVars
  <2> QED
    BY <2>1 DEF TxStepVars
<1> QED
  BY <1>1, <1>2 DEF OutboxNext

LEMMA TxInitOK == OutboxInit => TxInv /\ TxCommits
<1> SUFFICES ASSUME OutboxInit PROVE TxInv /\ TxCommits
  OBVIOUS
<1>1. Kept = {}
  BY DEF OutboxInit, Init, Kept
<1> QED
  BY <1>1 DEF OutboxInit, Tx!TxInit, TxInv, Tx!TxTypeOK, Nested, StagedWithin,
     RolledBackNeverKept, Tx!RolledBackNeverKept, TxCommits, OpenAround, Accounted, Tx!Around

\* Relays add nothing to what producers do to the store, which is TxNext: with the type of
\* both sides, this makes the producers' invariant one of the whole outbox.
THEOREM TransactionsInvariant == OutboxSpec => [](ShapeOK /\ HeldKept /\ TxInv)
<1>1. OutboxInit => ShapeOK /\ HeldKept /\ TxInv
  BY TypeInit, HeldInit, TxInitOK DEF OutboxInit
<1>2. ShapeOK /\ HeldKept /\ TxInv /\ [OutboxNext]_outboxVars => (ShapeOK /\ HeldKept /\ TxInv)'
  BY ProducerStep, TypeNext, HeldNext, OutboxStepIsTx, TxInvNext
<1> QED
  BY <1>1, <1>2, PTL DEF OutboxSpec

\* "Records added inside transaction() are kept only if it exits cleanly": however deep
\* transactions nest and whatever tasks share them, no record of one that raised is kept.
THEOREM NothingRolledBackIsKept == OutboxSpec => []RolledBackNeverKept
<1>1. TxInv => RolledBackNeverKept
  BY DEF TxInv
<1> QED
  BY <1>1, TransactionsInvariant, PTL

\* Nothing reaches the broker before every transaction it was emitted in exited cleanly, also
\* when leases lapse, relays crash and tasks outlive the block they were created in.
THEOREM NothingRolledBackIsPublished == OutboxSpec => []PublishedOnlyIfCommitted
<1>1. HeldKept /\ TxInv => PublishedOnlyIfCommitted
  BY DEF HeldKept, TxInv, Tx!TxTypeOK, RolledBackNeverKept, Tx!RolledBackNeverKept,
         PublishedOnlyIfCommitted
<1> QED
  BY <1>1, TransactionsInvariant, PTL

\* While no task outlives the block it was created in, a record is kept once every
\* transaction around its emission exited cleanly: commits are never half done.
THEOREM WhatCommitsIsKept ==
    ASSUME Structured
    PROVE  OutboxSpec => []CommittedIsKept
<1>1. OutboxInit => TxCommits
  BY TxInitOK
<1>2. TxInv /\ TxCommits /\ [Tx!TxNext]_TxStepVars => TxCommits'
  BY TxCommitsNext
<1>3. TxCommits => CommittedIsKept
  BY DEF TxCommits, Accounted, CommittedIsKept, Tx!CommittedIsKept
<1> QED
  BY <1>1, <1>2, <1>3, OutboxStepIsTx, TransactionsInvariant, PTL DEF OutboxSpec

\* Seen through what the store keeps, the whole outbox does what OutboxTransactions allows:
\* no step of a relay, a crash or a lapsed lease adds to or takes from what was committed.
THEOREM TransactionsImplemented == OutboxSpec => Tx!TxSpec
<1>1. OutboxInit => Tx!TxInit /\ Kept = {}
  BY DEF OutboxInit, Init, Kept
<1>2. ShapeOK /\ HeldKept /\ [OutboxNext]_outboxVars => [Tx!TxNext]_<<Kept, Tx!txVars>>
  BY OutboxStepIsTx DEF TxStepVars, txVars, Tx!txVars
<1> QED
  BY <1>1, <1>2, TransactionsInvariant, PTL DEF OutboxSpec, Tx!TxSpec
=============================================================================
