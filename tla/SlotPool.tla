------------------------------ MODULE SlotPool ------------------------------
(***************************************************************************)
(* The slots a scope gives its cached functions (lifecycle/scope.py,       *)
(* _slots.py, and the slot's reads and writes in _wrappers.py): a slot is  *)
(* taken when a function is decorated, also while activations are live,    *)
(* and goes back to the pool when the decorated function is collected, so  *)
(* that a later function may be given it.  Claims are ScopeCache's, nested *)
(* activations ScopeTree's.  The four reserved cells of an activation's    *)
(* storage are one cell here.                                              *)
(***************************************************************************)
EXTENDS Integers, Sequences, SequencesExt

CONSTANTS
    Cached,     \* the cached functions
    Threads,        \* threads, each with a context of its own
    Activations,
    None

ASSUME SlotPoolAssumption ==
    /\ None \notin Cached \cup Activations
    /\ None \notin [slot : Nat, act : Activations \cup {None}]

VARIABLES
    scope,      \* its isolation and storage
    template,   \* the length of a new activation's storage (dense), or the next slot (sparse)
    free,       \* _free_slots
    function,   \* of each function: "undecorated", "live" or "collected", its slot, owned or not
    current,    \* what the ContextVar or SharedVar shows in each thread
    storage,    \* of each activation: its phase, its cells
    call,       \* what each thread does
    finalizer   \* the finalizer that interrupts the thread, or None

vars == <<scope, template, free, function, current, storage, call, finalizer>>
pool == <<template, free, function>>

Unset == [by |-> None]
Reserved == [by |-> "reserved"]
Idle == [pc |-> "idle", fn |-> None, act |-> None, got |-> Unset, extra |-> 0]
Shared == scope.isolation = "shared"
Dense == scope.storage = "dense"
Cells(a) == storage[a].cells
Emptied(a) == Cells(a) = <<>>

Runs(t, pc) == call[t].pc = pc /\ finalizer[t] = None
GoOn(t, c) == call' = [call EXCEPT ![t] = c]

\* _slot_lock is re-entrant: a finalizer may run in the thread that allocates.
HoldsLock(t) == finalizer[t] # None \/ call[t].pc \in {"allocating", "extending"}
MayLock(t) == \A u \in Threads \ {t} : ~HoldsLock(u)

-----------------------------------------------------------------------------
(* Storage                                                                 *)

\* Cells a new dense storage has; a SlotDict holds the reserved cells only.
NewCells == [i \in 1..(IF Dense THEN template ELSE 1) |->
                IF i = 1 THEN Reserved ELSE Unset]

\* A slot reads as UNSET if it was not written; out of a list's bounds, or of an emptied
\* SlotDict, the read raises.
Reads(a, i) == IF Dense THEN i \in DOMAIN Cells(a) ELSE ~Emptied(a)
CellAt(a, i) == IF i \in DOMAIN Cells(a) THEN Cells(a)[i] ELSE Unset

SetCell(a, i, cell) ==
    storage' = [storage EXCEPT ![a].cells =
        [j \in DOMAIN @ \cup {i} |-> IF j = i THEN cell ELSE @[j]]]

\* Mutated form: storage stays as long as it was when it was activated.
Missing_None(a) == 0

\* _extend: how many cells live storage lacks.
Missing(a) == IF Dense /\ Len(Cells(a)) < template THEN template - Len(Cells(a)) ELSE 0

\* slots.extend(template[len(slots):]), a moment after its length was read.
Extended(a, n) ==
    IF n = 0 THEN Cells(a) ELSE Cells(a) \o [i \in 1..n |-> Unset]

-----------------------------------------------------------------------------
(* Activations                                                             *)

\* What t shows after activation a began or ended there.
Shown(t, a) == IF Shared THEN [u \in Threads |-> a] ELSE [current EXCEPT ![t] = a]

\* _activate copies the template, then sets the variable; a shared scope that is active
\* already refuses.
NewActivation(t, a) ==
    /\ Runs(t, "idle") /\ current[t] = None
    /\ storage[a].phase = "new"
    /\ storage' = [storage EXCEPT ![a] = [phase |-> "copied", cells |-> NewCells]]
    /\ GoOn(t, [Idle EXCEPT !.pc = "activating", !.act = a])
    /\ UNCHANGED <<scope, pool, current, finalizer>>

Activated(t) ==
    LET a == call[t].act IN
    /\ Runs(t, "activating")
    /\ IF current[t] = None
       THEN current' = Shown(t, a) /\ storage' = [storage EXCEPT ![a].phase = "live"]
       ELSE current' = current /\ storage' = [storage EXCEPT ![a].phase = "ended"]
    /\ GoOn(t, Idle)
    /\ UNCHANGED <<scope, pool, finalizer>>

\* deactivate: _end resets the variable, then the storage is emptied.
End(t) ==
    LET a == current[t] IN
    /\ Runs(t, "idle") /\ a # None /\ storage[a].phase = "live"
    /\ current' = Shown(t, None)
    /\ storage' = [storage EXCEPT ![a].phase = "ending"]
    /\ UNCHANGED <<scope, pool, call, finalizer>>

Clear(a) ==
    /\ storage[a].phase = "ending"
    /\ storage' = [storage EXCEPT ![a] = [phase |-> "ended", cells |-> <<>>]]
    /\ UNCHANGED <<scope, pool, current, call, finalizer>>

\* A thread that runs in a copy of another one's context shares its activation.
Copy(t, u) ==
    /\ ~Shared /\ Runs(t, "idle") /\ current[t] = None /\ current[u] # None
    /\ current' = [current EXCEPT ![t] = current[u]]
    /\ UNCHANGED <<scope, pool, storage, call, finalizer>>

-----------------------------------------------------------------------------
(* Decorating and collecting functions                                     *)

\* Mutated form: a reused slot is read like a new one.
Owned_Never(reused) == FALSE

\* _allocate_slot: a slot reused in a context scope may hold a dead function's value.
Owned(reused) == reused /\ ~Shared

\* allocate_slot: one from the pool, or a new one, which live storage is extended by.
Allocate(t, f) ==
    LET reused == free # <<>>
        slot == IF reused THEN Last(free) ELSE IF Dense THEN template + 1 ELSE template
    IN /\ Runs(t, "idle") /\ MayLock(t) /\ function[f].state = "undecorated"
       /\ function' = [function EXCEPT ![f] =
              [state |-> "live", slot |-> slot, owned |-> Owned(reused)]]
       /\ free' = IF reused THEN Front(free) ELSE free
       /\ template' = IF reused THEN template ELSE template + 1
       /\ IF ~reused /\ Dense /\ current[t] # None /\ ~Emptied(current[t])
          THEN GoOn(t, [Idle EXCEPT !.pc = "allocating", !.act = current[t]])
          ELSE UNCHANGED call
       /\ UNCHANGED <<scope, current, storage, finalizer>>

\* A finalizer interrupts t: release_slot looks at what is active there.
Collect(t, f) ==
    LET a == current[t]  i == function[f].slot
        clears == a # None /\ (IF Dense THEN i \in DOMAIN Cells(a) ELSE TRUE)
    IN /\ finalizer[t] = None /\ MayLock(t)
       /\ function[f].state = "live" /\ \A u \in Threads : call[u].fn # f
       /\ function' = [function EXCEPT ![f].state = "collected"]
       /\ finalizer' = [finalizer EXCEPT ![t] =
              [slot |-> i, act |-> IF clears THEN a ELSE None]]
       /\ UNCHANGED <<scope, template, free, current, storage, call>>

\* It unsets the slot there and frees it; an IndexError leaves the slot out of the pool.
Release(t) ==
    LET r == finalizer[t] IN
    /\ r # None
    /\ IF r.act = None
       THEN free' = Append(free, r.slot) /\ UNCHANGED storage
       ELSE IF Dense /\ r.slot \notin DOMAIN Cells(r.act)
       THEN UNCHANGED <<free, storage>>
       ELSE /\ free' = Append(free, r.slot)
            /\ IF r.slot \in DOMAIN Cells(r.act) THEN SetCell(r.act, r.slot, Unset)
               ELSE UNCHANGED storage
    /\ finalizer' = [finalizer EXCEPT ![t] = None]
    /\ UNCHANGED <<scope, template, function, current, call>>

-----------------------------------------------------------------------------
(* Calling a function                                                      *)

\* A hit: an owned slot holds what this function wrote, any other slot something.
Hit(f, cell) == IF function[f].owned THEN cell.by = f ELSE cell # Unset

\* The read's outcome: the value returned, or the function is run.
Outcome(t, f, a) ==
    LET cell == CellAt(a, function[f].slot) IN
    GoOn(t, [Idle EXCEPT !.pc = IF Hit(f, cell) THEN "returned" ELSE "computing",
                         !.fn = f, !.act = a, !.got = cell])

\* The first read; whatever it raises, get_slots finds out why.
Call(t, f) ==
    LET a == current[t] IN
    /\ Runs(t, "idle") /\ function[f].state = "live"
    /\ IF a # None /\ Reads(a, function[f].slot) THEN Outcome(t, f, a)
       ELSE GoOn(t, [Idle EXCEPT !.pc = "missed", !.fn = f])
    /\ UNCHANGED <<scope, pool, current, storage, finalizer>>

\* get_slots without an activation, or with one that has ended.
GetSlots(t) ==
    LET a == current[t] IN
    /\ Runs(t, "missed")
    /\ IF a = None \/ Emptied(a) THEN GoOn(t, Idle)
       ELSE GoOn(t, [call[t] EXCEPT !.pc = "found", !.act = a])
    /\ UNCHANGED <<scope, pool, current, storage, finalizer>>

\* _extend, called by get_slots and allocate_slot, without a lock on the storage.
Measure(t) ==
    LET a == call[t].act IN
    /\ Runs(t, "found") \/ Runs(t, "allocating")
    /\ GoOn(t, [call[t] EXCEPT !.extra = Missing(a),
                               !.pc = IF @ = "found" THEN "measured" ELSE "extending"])
    /\ UNCHANGED <<scope, pool, current, storage, finalizer>>

Extend(t) ==
    LET c == call[t] IN
    /\ Runs(t, "measured") \/ Runs(t, "extending")
    /\ storage' = [storage EXCEPT ![c.act].cells = Extended(c.act, c.extra)]
    /\ GoOn(t, IF c.pc = "extending" THEN Idle ELSE [c EXCEPT !.pc = "reread"])
    /\ UNCHANGED <<scope, pool, current, finalizer>>

\* The read after get_slots: storage emptied meanwhile raises IndexError or KeyError.
Reread(t) ==
    LET c == call[t] IN
    /\ Runs(t, "reread")
    /\ IF Reads(c.act, function[c.fn].slot) THEN Outcome(t, c.fn, c.act)
       ELSE GoOn(t, [c EXCEPT !.pc = "raised"])
    /\ UNCHANGED <<scope, pool, current, storage, finalizer>>

\* The function has run: its value is stored unless the activation ended, and returned.
Store(t) ==
    LET c == call[t]  i == function[c.fn].slot  value == [by |-> c.fn, in |-> c.act] IN
    /\ Runs(t, "computing")
    /\ IF Reads(c.act, i) THEN SetCell(c.act, i, value) ELSE UNCHANGED storage
    /\ GoOn(t, [c EXCEPT !.pc = "returned", !.got = value])
    /\ UNCHANGED <<scope, pool, current, finalizer>>

Return(t) ==
    /\ Runs(t, "returned") \/ Runs(t, "raised")
    /\ GoOn(t, Idle)
    /\ UNCHANGED <<scope, pool, current, storage, finalizer>>

-----------------------------------------------------------------------------
Init ==
    /\ scope \in [isolation : {"shared", "context"}, storage : {"dense", "sparse"}]
    /\ template = IF Dense THEN 1 ELSE 2
    /\ free = <<>>
    /\ function = [f \in Cached |-> [state |-> "undecorated", slot |-> 0, owned |-> FALSE]]
    /\ current = [t \in Threads |-> None]
    /\ storage = [a \in Activations |-> [phase |-> "new", cells |-> <<>>]]
    /\ call = [t \in Threads |-> Idle]
    /\ finalizer = [t \in Threads |-> None]

Step(t) ==
    \/ Activated(t) \/ End(t) \/ Release(t)
    \/ GetSlots(t) \/ Measure(t) \/ Extend(t) \/ Reread(t) \/ Store(t) \/ Return(t)

Next ==
    \/ \E t \in Threads : Step(t)
    \/ \E t \in Threads, f \in Cached : Allocate(t, f) \/ Collect(t, f) \/ Call(t, f)
    \/ \E t \in Threads, a \in Activations : NewActivation(t, a)
    \/ \E t, u \in Threads : Copy(t, u)
    \/ \E a \in Activations : Clear(a)

Spec == Init /\ [][Next]_vars

-----------------------------------------------------------------------------
(* Properties                                                              *)

\* A call returns what its own function computed in the activation the call found, although
\* the slot was another function's before (scope.py:368-382, _wrappers.py:67-139) and other
\* threads activate, end, decorate and collect meanwhile.
NoForeignValue ==
    \A t \in Threads :
        LET c == call[t] IN
        c.pc = "returned" => c.got = [by |-> c.fn, in |-> c.act]

\* A function decorated while an activation is live can be called in it: only an activation
\* that is ending raises (scope.py:265-285, 350-366); and no two functions share a slot.
LiveActivationsServe ==
    /\ \A t \in Threads : call[t].pc = "raised" => storage[call[t].act].phase # "live"
    /\ \A f, g \in Cached :
          f # g /\ function[f].state = "live" /\ function[g].state = "live"
            => function[f].slot # function[g].slot

\* The storage of an ended activation stays empty.
EndedStaysEmpty == \A a \in Activations : storage[a].phase = "ended" => Emptied(a)
=============================================================================
