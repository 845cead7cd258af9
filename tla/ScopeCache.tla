----------------------------- MODULE ScopeCache -----------------------------
(***************************************************************************)
(* The result cache of one shared scope of stratae.lifecycle, as the       *)
(* generated wrappers of lifecycle/_wrappers.py drive it ("locked" claim   *)
(* style): threads or tasks that call cached functions, the claim each     *)
(* first computation holds, the resources it enters, and the activation    *)
(* that another thread may end at any moment.                              *)
(*                                                                         *)
(* A caller's nested cached calls are a stack of frames: frame[t][1] is    *)
(* the outermost call and frame[t][depth[t]] the running one.  Each step   *)
(* is a stretch of the wrapper that no other caller's write can split: a   *)
(* single read, or the block the wrapper's lock guards.                    *)
(***************************************************************************)
EXTENDS Integers, Sequences, FiniteSets

CONSTANTS
    Callers,         \* threads (sync wrappers) or tasks (async wrappers)
    Entries,         \* cached entries: a slot, or one key of a keyed wrapper
    Resources,       \* the entries computed by entering a resource
    Deps,            \* Deps[e]: the entries the function behind e may call
    MaxActivations,  \* bound: activations of the scope in one behaviour
    MaxDepth,        \* bound: nesting of cached calls in one caller
    MaxFailures,     \* bound: computations that raise in one behaviour
    None

Activations == 1..MaxActivations
Depths == 1..MaxDepth

ASSUME ConstantsAssumption ==
    /\ Resources \subseteq Entries
    /\ Deps \in [Entries -> SUBSET Entries]
    /\ MaxActivations \in Nat /\ MaxDepth \in Nat \ {0} /\ MaxFailures \in Nat
    /\ None \notin Callers /\ None \notin Entries /\ None \notin Activations

VARIABLES
    current,   \* SharedVar.storage: the active activation, or None
    phase,     \* how far each activation is between activate and closed
    cached,    \* cached[a]: the entries whose slot in a's storage holds a value
    contexts,  \* contexts[a]: a's entered resources, slot 0 of its storage
    claim,     \* __inflight__: the caller computing each entry, or None
    watchers,  \* the callers waiting on each claim's event or future
    depth,     \* depth[t]: how many cached calls t is inside
    frame,     \* frame[t][d]: the d-th of them
    outcome,   \* how t's last finished call ended
    made,      \* made[a][e]: successful computations of e for activation a
    entered,   \* entered[a][e], exited[a][e]: entries into and exits from
    exited,    \*     the resource behind e made for a
    uses,      \* uses[a][e]: values of a that a's registered resource e got
    overtaken, \* overtaken[a]: entries found past "if not slots", but not yet on a's
               \*     list, when a's storage was emptied
    failures   \* computations that raised so far

storageVars == <<current, phase, contexts>>
ghostVars == <<made, entered, exited, uses, overtaken>>
vars == <<current, phase, cached, contexts, claim, watchers, depth, frame, outcome,
          made, entered, exited, uses, overtaken, failures>>

Phases == {"fresh", "live", "ended", "draining", "closed"}
Outcomes == {"none", "value", "Inactive", "Ended", "Cycle", "Failed", "Cancelled", "IndexError"}
Computing == {"compute", "register", "append", "store", "unclaim"}   \* the claim is held
PCs == {"idle", "read", "reread", "lock", "wait"} \cup Computing

Frame == [entry : Entries \cup {None}, act : Activations \cup {None}, pc : PCs,
          todo : SUBSET Entries, used : SUBSET Entries, result : Outcomes]
NoFrame == [entry |-> None, act |-> None, pc |-> "idle", todo |-> {}, used |-> {},
            result |-> "none"]

\* Deactivation clears the storage after resetting the variable: "if not __slots__".
Emptied(a) == phase[a] \in {"draining", "closed"}

Readable(a) == a # None /\ ~Emptied(a)

Top(t) == frame[t][depth[t]]
At(t, pc) == depth[t] > 0 /\ Top(t).pc = pc
SetTop(t, f) == frame' = [frame EXCEPT ![t][depth[t]] = f]
Go(t, pc) == SetTop(t, [Top(t) EXCEPT !.pc = pc])

\* One more of what count counts, for the entry and the activation of frame f.
Inc(count, f) == [count EXCEPT ![f.act][f.entry] = @ + 1]

\* A new call of e, which has already read __slots__ = __var__.storage.
Opened(e) == [NoFrame EXCEPT !.entry = e, !.act = current, !.pc = "read", !.todo = Deps[e]]

\* The running call ends; its caller, if a computation, goes on with what it got.
Return(t, kind) ==
    LET d == depth[t]
        Got(f) == IF kind = "value" /\ f.act = Top(t).act
                  THEN [f EXCEPT !.used = @ \cup {Top(t).entry}] ELSE f
    IN  /\ depth' = [depth EXCEPT ![t] = d - 1]
        /\ outcome' = [outcome EXCEPT ![t] = kind]
        /\ frame' = [frame EXCEPT ![t] =
                        [i \in Depths |-> CASE i = d -> NoFrame
                                            [] i = d - 1 -> Got(frame[t][i])
                                            [] OTHER -> frame[t][i]]]

-----------------------------------------------------------------------------
(* The wrapper's lock-free part                                            *)

Call(t) ==
    /\ depth[t] = 0
    /\ \E e \in Entries : frame' = [frame EXCEPT ![t][1] = Opened(e)]
    /\ depth' = [depth EXCEPT ![t] = 1]
    /\ outcome' = [outcome EXCEPT ![t] = "none"]
    /\ UNCHANGED <<storageVars, cached, claim, watchers, ghostVars, failures>>

\* The function being computed calls a cached function of the scope itself.
CallDependency(t) ==
    /\ At(t, "compute") /\ depth[t] < MaxDepth
    /\ \E e \in Top(t).todo :
          frame' = [frame EXCEPT ![t][depth[t]].todo = @ \ {e},
                                 ![t][depth[t] + 1] = Opened(e)]
    /\ depth' = [depth EXCEPT ![t] = @ + 1]
    /\ UNCHANGED <<storageVars, cached, claim, watchers, outcome, ghostVars, failures>>

Miss(t) == Go(t, "lock") /\ UNCHANGED <<depth, outcome>>

\* The first slot read.  Storage that is UNSET or was emptied raises, and get_slots()
\* reads the variable again.
Read(t) ==
    LET f == Top(t) IN
    /\ At(t, "read")
    /\ \/ Readable(f.act) /\ f.entry \in cached[f.act] /\ Return(t, "value")
       \/ Readable(f.act) /\ f.entry \notin cached[f.act] /\ Miss(t)
       \/ ~Readable(f.act) /\ current = None /\ Return(t, "Inactive")
       \/ /\ ~Readable(f.act) /\ current # None
          /\ SetTop(t, [f EXCEPT !.act = current, !.pc = "reread"])
          /\ UNCHANGED <<depth, outcome>>
    /\ UNCHANGED <<storageVars, cached, claim, watchers, ghostVars, failures>>

\* get_slots() checks that the storage is not emptied, then the wrapper reads the slot:
\* storage emptied before the check is an ended activation, after it an IndexError.
Reread(t) ==
    LET f == Top(t) IN
    /\ At(t, "reread")
    /\ \/ ~Emptied(f.act) /\ f.entry \in cached[f.act] /\ Return(t, "value")
       \/ ~Emptied(f.act) /\ f.entry \notin cached[f.act] /\ Miss(t)
       \/ Emptied(f.act) /\ \E error \in {"Ended", "IndexError"} : Return(t, error)
    /\ UNCHANGED <<storageVars, cached, claim, watchers, ghostVars, failures>>

-----------------------------------------------------------------------------
(* The claimed computation                                                 *)

\* Mutated form: the claim is taken on the strength of the first read alone.
Recheck_Skipped(f) == FALSE

\* The slot is read again under the lock: the entry may have been filled meanwhile.
Recheck(f) == f.entry \in cached[f.act]

\* watch_thread_claim and watch_task_claim: wait for the claim's event or future, unless the
\* caller holds it itself.
Watch(t, f) ==
    \/ /\ claim[f.entry] = t
       /\ Return(t, "Cycle")
       /\ UNCHANGED watchers
    \/ /\ claim[f.entry] # t
       /\ watchers' = [watchers EXCEPT ![f.entry] = @ \cup {t}]
       /\ Go(t, "wait")
       /\ UNCHANGED <<depth, outcome>>

\* One pass of the loop's locked block: re-read the slot, then take or watch the claim.
TryClaim(t) ==
    LET f == Top(t) IN
    /\ At(t, "lock")
    /\ \/ /\ Emptied(f.act)
          /\ Return(t, "IndexError")
          /\ UNCHANGED <<claim, watchers>>
       \/ /\ ~Emptied(f.act) /\ Recheck(f)
          /\ Return(t, "value")
          /\ UNCHANGED <<claim, watchers>>
       \/ /\ ~Emptied(f.act) /\ ~Recheck(f) /\ claim[f.entry] = None
          /\ claim' = [claim EXCEPT ![f.entry] = t]
          /\ Go(t, "compute")
          /\ UNCHANGED <<watchers, depth, outcome>>
       \/ /\ ~Emptied(f.act) /\ ~Recheck(f) /\ claim[f.entry] # None
          /\ Watch(t, f)
          /\ UNCHANGED claim
    /\ UNCHANGED <<storageVars, cached, ghostVars, failures>>

\* The watched claim was released: retry, unless the activation ended meanwhile.
Wake(t) ==
    /\ At(t, "wait") /\ t \notin watchers[Top(t).entry]
    /\ IF Emptied(Top(t).act)
       THEN Return(t, "Ended")
       ELSE Go(t, "lock") /\ UNCHANGED <<depth, outcome>>
    /\ UNCHANGED <<storageVars, cached, claim, watchers, ghostVars, failures>>

\* A waiting task is cancelled: its future is done, so the release skips it.
CancelWait(t) ==
    /\ At(t, "wait")
    /\ watchers' = [watchers EXCEPT ![Top(t).entry] = @ \ {t}]
    /\ Return(t, "Cancelled")
    /\ UNCHANGED <<storageVars, cached, claim, ghostVars, failures>>

\* The function raises, is cancelled, or its resource fails to enter.
Fail(t) ==
    /\ At(t, "compute") /\ failures < MaxFailures
    /\ failures' = failures + 1
    /\ SetTop(t, [Top(t) EXCEPT !.pc = "unclaim", !.result = "Failed"])
    /\ UNCHANGED <<storageVars, cached, claim, watchers, depth, outcome, ghostVars>>

\* The function returns; a resource's __enter__ has run and is not registered yet.
Compute(t) ==
    LET f == Top(t) IN
    /\ At(t, "compute")
    /\ IF f.entry \in Resources
       THEN /\ entered' = Inc(entered, f)
            /\ Go(t, "register") /\ UNCHANGED made
       ELSE /\ made' = Inc(made, f)
            /\ Go(t, "store") /\ UNCHANGED entered
    /\ UNCHANGED <<storageVars, cached, claim, watchers, depth, outcome, exited, uses, overtaken,
                   failures>>

\* Mutated form: an entry that finishes late is registered all the same.
EndedDuringEntry_Ignored(a) == FALSE

\* enter_context and its siblings, after the entry: "if not slots".
EndedDuringEntry(a) == Emptied(a)

\* ... then the resource is exited at once, or the wrapper goes on to register it.
Register(t) ==
    LET f == Top(t) IN
    /\ At(t, "register")
    /\ IF EndedDuringEntry(f.act)
       THEN /\ exited' = Inc(exited, f)
            /\ SetTop(t, [f EXCEPT !.pc = "unclaim", !.result = "Ended"])
       ELSE Go(t, "append") /\ UNCHANGED exited
    /\ UNCHANGED <<storageVars, cached, claim, watchers, depth, outcome, made, entered, uses,
                   overtaken, failures>>

\* slots[0].append(...), which no lock ties to the check.  Slot 0 may have been read at any
\* moment since: storage emptied by then has none, and a list read before that is being
\* drained by now, or was.
AppendContext(t) ==
    LET f == Top(t) IN
    /\ At(t, "append")
    /\ \/ /\ contexts' = [contexts EXCEPT ![f.act] = Append(@, f.entry)]
          /\ uses' = [uses EXCEPT ![f.act][f.entry] = f.used]
          /\ made' = Inc(made, f)
          /\ Go(t, "store")
       \/ /\ Emptied(f.act)
          /\ SetTop(t, [f EXCEPT !.pc = "unclaim", !.result = "IndexError"])
          /\ UNCHANGED <<contexts, uses, made>>
    /\ UNCHANGED <<current, phase, cached, claim, watchers, depth, outcome, entered, exited,
                   overtaken, failures>>

\* Mutated form: the store does not look whether the storage was emptied.
StoreSlot_Refills(a, e) == cached' = [cached EXCEPT ![a] = @ \cup {e}]

\* The store of __value__: an ended activation's emptied storage is not refilled.
StoreSlot(a, e) ==
    cached' = IF Emptied(a) THEN cached ELSE [cached EXCEPT ![a] = @ \cup {e}]

Store(t) ==
    /\ At(t, "store")
    /\ StoreSlot(Top(t).act, Top(t).entry)
    /\ SetTop(t, [Top(t) EXCEPT !.pc = "unclaim", !.result = "value"])
    /\ UNCHANGED <<storageVars, claim, watchers, depth, outcome, ghostVars, failures>>

\* Mutated forms: the claim is popped on success only; its waiters are not woken.
PopClaim_OnSuccess(f) ==
    /\ claim' = IF f.result = "value" THEN [claim EXCEPT ![f.entry] = None] ELSE claim
    /\ watchers' = [watchers EXCEPT ![f.entry] = {}]

PopClaim_NoWake(f) == claim' = [claim EXCEPT ![f.entry] = None] /\ UNCHANGED watchers

\* The finally clause: pop the claim under the lock and wake every waiter.
PopClaim(f) ==
    /\ claim' = [claim EXCEPT ![f.entry] = None]
    /\ watchers' = [watchers EXCEPT ![f.entry] = {}]

Unclaim(t) ==
    /\ At(t, "unclaim")
    /\ PopClaim(Top(t))
    /\ Return(t, Top(t).result)
    /\ UNCHANGED <<storageVars, cached, ghostVars, failures>>

-----------------------------------------------------------------------------
(* The scope's activation                                                  *)

\* Scope.__enter__: SharedVar.set rejects a second live activation.
Activate(a) ==
    /\ phase[a] = "fresh" /\ \A b \in Activations : b < a => phase[b] # "fresh"
    /\ current = None
    /\ current' = a
    /\ phase' = [phase EXCEPT ![a] = "live"]
    /\ UNCHANGED <<cached, contexts, claim, watchers, depth, frame, outcome, ghostVars, failures>>

\* BaseScope._end: reset the variable, under its lock.
End(a) ==
    /\ current = a
    /\ current' = None
    /\ phase' = [phase EXCEPT ![a] = "ended"]
    /\ UNCHANGED <<cached, contexts, claim, watchers, depth, frame, outcome, ghostVars, failures>>

\* The entries of a that some caller has checked and not yet appended.
BeingRecorded(a) ==
    {e \in Entries : \E t \in Callers, d \in Depths :
        frame[t][d].pc = "append" /\ frame[t][d].act = a /\ frame[t][d].entry = e}

\* slots.clear(), once the list of contexts was taken out of slot 0.
Clear(a) ==
    /\ phase[a] = "ended"
    /\ phase' = [phase EXCEPT ![a] = "draining"]
    /\ cached' = [cached EXCEPT ![a] = {}]
    /\ overtaken' = [overtaken EXCEPT ![a] = BeingRecorded(a)]
    /\ UNCHANGED <<current, contexts, claim, watchers, depth, frame, outcome,
                   made, entered, exited, uses, failures>>

\* Mutated form: resources are exited in the order they were entered.
Popped_First(s) == <<Head(s), Tail(s)>>

\* contexts.pop(): the last entered resource is exited first.
Popped(s) == <<s[Len(s)], SubSeq(s, 1, Len(s) - 1)>>

\* One round of close()'s loop.
ExitNext(a) ==
    LET p == Popped(contexts[a]) IN
    /\ phase[a] = "draining" /\ contexts[a] # <<>>
    /\ exited' = [exited EXCEPT ![a][p[1]] = @ + 1]
    /\ contexts' = [contexts EXCEPT ![a] = p[2]]
    /\ UNCHANGED <<current, phase, cached, claim, watchers, depth, frame, outcome,
                   made, entered, uses, overtaken, failures>>

\* "while contexts" finds the list empty: nobody looks at it again.
Drained(a) ==
    /\ phase[a] = "draining" /\ contexts[a] = <<>>
    /\ phase' = [phase EXCEPT ![a] = "closed"]
    /\ UNCHANGED <<current, cached, contexts, claim, watchers, depth, frame, outcome,
                   ghostVars, failures>>

-----------------------------------------------------------------------------
Init ==
    /\ current = None
    /\ phase = [a \in Activations |-> "fresh"]
    /\ cached = [a \in Activations |-> {}]
    /\ contexts = [a \in Activations |-> <<>>]
    /\ claim = [e \in Entries |-> None]
    /\ watchers = [e \in Entries |-> {}]
    /\ depth = [t \in Callers |-> 0]
    /\ frame = [t \in Callers |-> [d \in Depths |-> NoFrame]]
    /\ outcome = [t \in Callers |-> "none"]
    /\ made = [a \in Activations |-> [e \in Entries |-> 0]]
    /\ entered = [a \in Activations |-> [e \in Entries |-> 0]]
    /\ exited = [a \in Activations |-> [e \in Entries |-> 0]]
    /\ uses = [a \in Activations |-> [e \in Entries |-> {}]]
    /\ overtaken = [a \in Activations |-> {}]
    /\ failures = 0

\* What a caller inside a cached call does next of its own accord.
Step(t) ==
    \/ CallDependency(t) \/ Read(t) \/ Reread(t) \/ TryClaim(t)
    \/ Wake(t) \/ Compute(t) \/ Register(t) \/ AppendContext(t) \/ Store(t)
    \/ Unclaim(t)

\* What deactivate does once _end has returned.
Closing(a) == Clear(a) \/ ExitNext(a) \/ Drained(a)

Next ==
    \/ \E t \in Callers : Call(t) \/ Step(t) \/ CancelWait(t) \/ Fail(t)
    \/ \E a \in Activations : Activate(a) \/ End(a) \/ Closing(a)

Spec == Init /\ [][Next]_vars

\* Threads and loops keep running what they started, and a deactivation that began
\* goes on; nobody has to call, to fail, to cancel or to end the activation.
FairSpec ==
    /\ Spec
    /\ \A t \in Callers : WF_vars(Step(t))
    /\ \A a \in Activations : WF_vars(Closing(a))

-----------------------------------------------------------------------------
(* Properties                                                              *)

\* Type correctness: every caller, frame and activation is in a state the code can be in,
\* and a waiter only ever waits on a claim somebody holds.
TypeOK ==
    /\ current \in Activations \cup {None}
    /\ phase \in [Activations -> Phases]
    /\ cached \in [Activations -> SUBSET Entries]
    /\ contexts \in [Activations -> Seq(Entries)]
    /\ claim \in [Entries -> Callers \cup {None}]
    /\ watchers \in [Entries -> SUBSET Callers]
    /\ depth \in [Callers -> 0..MaxDepth]
    /\ frame \in [Callers -> [Depths -> Frame]]
    /\ outcome \in [Callers -> Outcomes]
    /\ made \in [Activations -> [Entries -> Nat]]
    /\ entered \in [Activations -> [Entries -> Nat]]
    /\ exited \in [Activations -> [Entries -> Nat]]
    /\ uses \in [Activations -> [Entries -> SUBSET Entries]]
    /\ overtaken \in [Activations -> SUBSET Entries]
    /\ failures \in 0..MaxFailures
    /\ \A e \in Entries : claim[e] = None => watchers[e] = {}   \* no waiter without a claim

\* Overlapping callers of one activation compute an entry at most once: a second
\* computation happens only after the first one raised (module doc of scope.py).
ComputedOnce == \A a \in Activations, e \in Entries : made[a][e] <= 1

\* A resource is entered at most once per activation, is exited at most once and only
\* when its activation has ended.  A closed activation leaves one open only while the
\* entry is still under way, or because the storage was emptied after the entry had found
\* it filled and before it was on the list (_stack.py:176-179 and its three siblings).
ResourcesExitOnce ==
    \A a \in Activations, e \in Entries :
        /\ exited[a][e] <= entered[a][e] /\ entered[a][e] <= 1
        /\ exited[a][e] > 0 => Emptied(a)
        /\ phase[a] = "closed" /\ exited[a][e] < entered[a][e] /\ e \notin overtaken[a]
              => \E t \in Callers, d \in Depths :
                    frame[t][d].pc = "register" /\ frame[t][d].act = a /\ frame[t][d].entry = e

\* A computation that outlives its activation never puts a value back into the
\* emptied storage, where a later caller would take it for a live one.
EndedNotRefilled == \A a \in Activations : Emptied(a) => cached[a] = {}

\* The resources a resource was built from are still open when it is exited, if it was
\* registered before its activation's storage was emptied.
DependentsExitFirst ==
    \A a \in Activations : \A e \in Entries \ overtaken[a] :
        \A f \in uses[a][e] : exited[a][f] > 0 => exited[a][e] > 0

\* No group of callers waits on computations of the same group.
NoWaitCycle ==
    \A S \in (SUBSET Callers) \ {{}} :
        \E t \in S : \A e \in Entries : t \in watchers[e] => claim[e] \notin S

\* With functions that never call themselves, no caller is told that its call depends
\* on its own computation: claims do not outlive the call that took them.
NoSpuriousCycle == \A t \in Callers : outcome[t] # "Cycle"

\* Functions that never call themselves neither wait on one another in a circle nor are
\* told that they would, whatever fails between taking a claim and popping it.
NoCycle == NoWaitCycle /\ NoSpuriousCycle

\* Every call of a cached function returns or raises, whatever ends or fails meanwhile.
EveryCallReturns == \A t \in Callers : depth[t] > 0 ~> depth[t] = 0

\* A caller left with the storage of an ended activation is told so; the emptied
\* storage's own IndexError or KeyError never reaches it.  (Reread, TryClaim and Fetch
\* refute it: README, section 6.)
EmptiedStorageRaisesCleanly == \A t \in Callers : outcome[t] # "IndexError"

\* A cached call as whoever wrote the function sees it.
ViewOf(f) == [entry |-> f.entry, act |-> f.act, computing |-> f.pc \in Computing]

MemoCalls == [t \in Callers |-> [d \in 1..depth[t] |-> ViewOf(frame[t][d])]]
MemoLife == [a \in Activations |-> IF Emptied(a) THEN "over" ELSE phase[a]]
MemoAnswer ==
    [t \in Callers |-> IF outcome[t] \in {"none", "value"} THEN outcome[t] ELSE "error"]

Memo == INSTANCE ScopedMemo
            WITH active <- current, kept <- cached,
                 life <- MemoLife, calls <- MemoCalls, answer <- MemoAnswer

\* Slots, claims, watchers and storage emptied under the callers' feet together implement
\* the memo: nothing is computed twice or side by side, a value that was returned is there
\* for the next call, and no value of a finished activation is ever handed out again.
ImplementsMemo == Memo!MemoSpec

=============================================================================
