------------------------------ MODULE ScopeTree ------------------------------
(***************************************************************************)
(* Activations of the scopes of stratae.lifecycle (lifecycle/scope.py): a  *)
(* scope may require a parent, each activation counts on the activation of *)
(* the parent it found, and a shared scope has one activation for all      *)
(* threads where a context scope has one per execution context.  Threads   *)
(* interleave between the sections the scopes' locks guard; a context      *)
(* scope's activation is used by one thread at a time, as the module doc   *)
(* of scope.py assumes, so its steps are not split.  Storage is dense: an  *)
(* ended activation's emptied list has no slot to write to.  A call that   *)
(* is refused raises and changes nothing, so it is no step here.           *)
(***************************************************************************)
EXTENDS Integers, FiniteSets

CONSTANTS
    Contexts,           \* execution contexts: threads, and tasks with a copied context
    Scopes,
    Shared,             \* the scopes with isolation="shared"
    Requires,           \* Requires[s]: the scope that must be active before s, or None
    MaxActivations,     \* bound: activations in one behaviour
    None

Activations == 1..MaxActivations

ASSUME ScopesAssumption ==
    /\ Shared \subseteq Scopes
    /\ Requires \in [Scopes -> Scopes \cup {None}]
    /\ \A s \in Shared : Requires[s] \in Shared \cup {None}   \* _validate_requires
    /\ MaxActivations \in Nat
    /\ None \notin Contexts \cup Scopes \cup Activations

VARIABLES
    started,    \* the contexts that run
    sharedVar,  \* SharedVar.storage of each shared scope: an activation, or None
    contextVar, \* the ContextVar of each scope in each context
    inherited,  \* what a context held when it was copied
    phase,      \* how far each activation is
    scopeOf,    \* the scope of each activation
    parentOf,   \* slots[3]: the parent activation counted on, or None
    count,      \* slots[1]: dependents counted against each activation
    token,      \* slots[2]: the context that began it and what it found there
    emptied,    \* the activations whose storage is empty
    tokens,     \* the activations whose activate() or __enter__ returned
    twice,      \* the activations that stopped counting on their parent twice
    work        \* what each context is doing inside this module

vars == <<started, sharedVar, contextVar, inherited, phase, scopeOf, parentOf, count, token,
          emptied, tokens, twice, work>>

Phases == {"none", "new", "open", "ended", "closing", "done"}
PCs == {"idle", "set", "token", "unwind", "clear", "close", "release"}
Work == [pc : PCs, act : Activations \cup {None}]
Idle == [pc |-> "idle", act |-> None]

\* The activation of s that code running in context c sees.
Current(s, c) == IF s \in Shared THEN sharedVar[s] ELSE contextVar[s][c]

\* The truth of a storage: "if not slots".
Live(a) == a # None /\ a \notin emptied

\* An activation counts on its parent from the increment to the matching decrement.
Held(a) == phase[a] \in {"new", "open", "ended", "closing"}
Dependents(p) == {a \in Activations : Held(a) /\ parentOf[a] = p}

Does(c, pc) == work[c].pc = pc
Act(c) == work[c].act
Go(c, pc) == work' = [work EXCEPT ![c].pc = pc]
Finish(c) == work' = [work EXCEPT ![c] = Idle]

-----------------------------------------------------------------------------
(* Contexts                                                                *)

\* A thread with an empty context.
Start(c) ==
    /\ c \notin started
    /\ started' = started \cup {c}
    /\ UNCHANGED <<sharedVar, contextVar, inherited, phase, scopeOf, parentOf, count, token,
                   emptied, tokens, twice, work>>

\* A task or a thread that runs in a copy of c's context.
Fork(c, d) ==
    LET copied == [s \in Scopes |-> [contextVar[s] EXCEPT ![d] = contextVar[s][c]]] IN
    /\ c \in started /\ d \notin started
    /\ started' = started \cup {d}
    /\ contextVar' = copied
    /\ inherited' = [s \in Scopes |-> [inherited[s] EXCEPT ![d] = contextVar[s][c]]]
    /\ UNCHANGED <<sharedVar, phase, scopeOf, parentOf, count, token, emptied, tokens, twice,
                   work>>

-----------------------------------------------------------------------------
(* _activate                                                               *)

CountOn(p) == count' = IF p = None THEN count ELSE [count EXCEPT ![p] = @ + 1]

\* Under the parent's lock: refuse an inactive parent, or count on its activation.
BeginActivate(c, s) ==
    LET p == IF Requires[s] = None THEN None ELSE Current(Requires[s], c) IN
    /\ c \in started /\ Does(c, "idle")
    /\ Requires[s] = None \/ Live(p)
    /\ \E a \in Activations :
          /\ phase[a] = "none" /\ \A b \in Activations : b < a => phase[b] # "none"
          /\ phase' = [phase EXCEPT ![a] = "new"]
          /\ scopeOf' = [scopeOf EXCEPT ![a] = s]
          /\ parentOf' = [parentOf EXCEPT ![a] = p]
          /\ work' = [work EXCEPT ![c] = [pc |-> "set", act |-> a]]
    /\ CountOn(p)
    /\ UNCHANGED <<started, sharedVar, contextVar, inherited, token, emptied, tokens, twice>>

\* SharedVar.set rejects a second activation.
Occupied(s) == sharedVar[s] # None

\* self._var.set(slots): publish the storage, or give the parent back.
SetVar(c) ==
    LET a == Act(c)
        s == scopeOf[a] IN
    /\ Does(c, "set")
    /\ \/ /\ s \in Shared /\ Occupied(s)
          /\ IF parentOf[a] = None
             THEN Finish(c) /\ phase' = [phase EXCEPT ![a] = "done"]
             ELSE /\ Go(c, "unwind") /\ UNCHANGED phase
          /\ UNCHANGED <<sharedVar, contextVar, token, tokens>>
       \/ /\ s \in Shared /\ ~Occupied(s)
          /\ sharedVar' = [sharedVar EXCEPT ![s] = a]
          /\ phase' = [phase EXCEPT ![a] = "open"]
          /\ Go(c, "token")
          /\ UNCHANGED <<contextVar, token, tokens>>
       \/ /\ s \notin Shared
          /\ token' = [token EXCEPT ![a] = [ctx |-> c, old |-> contextVar[s][c]]]
          /\ contextVar' = [contextVar EXCEPT ![s][c] = a]
          /\ phase' = [phase EXCEPT ![a] = "open"]
          /\ tokens' = tokens \cup {a}
          /\ Finish(c)
          /\ UNCHANGED sharedVar
    /\ UNCHANGED <<started, inherited, scopeOf, parentOf, count, emptied, twice>>

\* slots[2] = the result of set(): once published, the activation may have been ended by
\* another thread, and an emptied list has no such slot.
StoreToken(c) ==
    LET a == Act(c) IN
    /\ Does(c, "token")
    /\ \/ /\ a \notin emptied
          /\ tokens' = tokens \cup {a}
          /\ Finish(c)
       \/ /\ a \in emptied
          /\ IF parentOf[a] = None
             THEN Finish(c)
             ELSE Go(c, "unwind")
          /\ UNCHANGED tokens
    /\ UNCHANGED <<started, sharedVar, contextVar, inherited, phase, scopeOf, parentOf, count,
                   token, emptied, twice>>

\* Mutated form: a parent's dependent is not discounted.
Discount_Forgotten(a) == UNCHANGED count

\* parent_slots[1] -= 1, under the parent's lock.
Discount(a) == count' = [count EXCEPT ![parentOf[a]] = @ - 1]

\* The except clause: the failed activation no longer counts on the parent.  One that was
\* published is ended by the thread that took it over, which gives the parent back as well.
Unwind(c) ==
    LET a == Act(c)
        p == parentOf[a] IN
    /\ Does(c, "unwind")
    /\ IF p \in emptied
       THEN UNCHANGED count   \* IndexError
       ELSE Discount(a)
    /\ IF phase[a] = "new"
       THEN phase' = [phase EXCEPT ![a] = "done"] /\ UNCHANGED twice
       ELSE /\ twice' = IF p \in emptied THEN twice ELSE twice \cup {a}
            /\ UNCHANGED phase
    /\ Finish(c)
    /\ UNCHANGED <<started, sharedVar, contextVar, inherited, scopeOf, parentOf, token, emptied,
                   tokens>>

-----------------------------------------------------------------------------
(* _end and deactivate                                                     *)

\* Mutated form: dependents do not keep the activation.
HasDependents_Ignored(a) == FALSE

\* "expected is not None and slots is not expected"
NotCurrent(x, a) == x # None /\ a # x

\* "slots[1] > 0"
HasDependents(a) == count[a] > 0

\* Mutated form: the outer activation of a nested context scope is not given back.
Restored_Lost(a) == None

\* ContextVar.reset(token)
Restored(a) == token[a].old

\* The checks and the reset, under the scope's own lock.  A context scope's storage is
\* emptied in the same breath; a shared one's after the lock was released.
BeginDeactivate(c, s, x) ==
    LET a == Current(s, c) IN
    /\ c \in started /\ Does(c, "idle")
    /\ x # None => x \in tokens /\ scopeOf[x] = s
    /\ ~NotCurrent(x, a) /\ Live(a) /\ ~HasDependents(a)
    /\ \/ /\ s \notin Shared /\ token[a].ctx = c
          /\ contextVar' = [contextVar EXCEPT ![s][c] = Restored(a)]
          /\ phase' = [phase EXCEPT ![a] = "closing"]
          /\ emptied' = emptied \cup {a}
          /\ work' = [work EXCEPT ![c] = [pc |-> "close", act |-> a]]
          /\ UNCHANGED sharedVar
       \/ /\ s \in Shared
          /\ sharedVar' = [sharedVar EXCEPT ![s] = None]
          /\ phase' = [phase EXCEPT ![a] = "ended"]
          /\ work' = [work EXCEPT ![c] = [pc |-> "clear", act |-> a]]
          /\ UNCHANGED <<contextVar, emptied>>
    /\ UNCHANGED <<started, inherited, scopeOf, parentOf, count, token, tokens, twice>>

\* slots.clear()
Clear(c) ==
    /\ Does(c, "clear")
    /\ emptied' = emptied \cup {Act(c)}
    /\ phase' = [phase EXCEPT ![Act(c)] = "closing"]
    /\ Go(c, "close")
    /\ UNCHANGED <<started, sharedVar, contextVar, inherited, scopeOf, parentOf, count, token,
                   tokens, twice>>

\* close(contexts) or await aclose(contexts) ends, with or without an exception.
Close(c) ==
    LET a == Act(c) IN
    /\ Does(c, "close")
    /\ IF parentOf[a] = None
       THEN Finish(c) /\ phase' = [phase EXCEPT ![a] = "done"]
       ELSE Go(c, "release") /\ UNCHANGED phase
    /\ UNCHANGED <<started, sharedVar, contextVar, inherited, scopeOf, parentOf, count, token,
                   emptied, tokens, twice>>

\* The finally clause: _release.
Release(c) ==
    LET a == Act(c) IN
    /\ Does(c, "release")
    /\ IF parentOf[a] \in emptied
       THEN UNCHANGED count   \* IndexError
       ELSE Discount(a)
    /\ Finish(c)
    /\ phase' = [phase EXCEPT ![a] = "done"]
    /\ UNCHANGED <<started, sharedVar, contextVar, inherited, scopeOf, parentOf, token, emptied,
                   tokens, twice>>

-----------------------------------------------------------------------------
NoToken == [ctx |-> None, old |-> None]

Init ==
    /\ started = {}
    /\ sharedVar = [s \in Scopes |-> None]
    /\ contextVar = [s \in Scopes |-> [c \in Contexts |-> None]]
    /\ inherited = [s \in Scopes |-> [c \in Contexts |-> None]]
    /\ phase = [a \in Activations |-> "none"]
    /\ scopeOf = [a \in Activations |-> None]
    /\ parentOf = [a \in Activations |-> None]
    /\ count = [a \in Activations |-> 0]
    /\ token = [a \in Activations |-> NoToken]
    /\ emptied = {}
    /\ tokens = {}
    /\ twice = {}
    /\ work = [c \in Contexts |-> Idle]

Next ==
    \E c \in Contexts :
        \/ Start(c)
        \/ \E d \in Contexts : Fork(c, d)
        \/ \E s \in Scopes : BeginActivate(c, s)
        \/ \E s \in Scopes, x \in Activations \cup {None} : BeginDeactivate(c, s, x)
        \/ SetVar(c) \/ StoreToken(c) \/ Unwind(c) \/ Clear(c) \/ Close(c) \/ Release(c)

Spec == Init /\ [][Next]_vars

-----------------------------------------------------------------------------
(* Properties                                                              *)

\* Type correctness.
TypeOK ==
    /\ started \subseteq Contexts
    /\ sharedVar \in [Scopes -> Activations \cup {None}]
    /\ contextVar \in [Scopes -> [Contexts -> Activations \cup {None}]]
    /\ inherited \in [Scopes -> [Contexts -> Activations \cup {None}]]
    /\ phase \in [Activations -> Phases]
    /\ scopeOf \in [Activations -> Scopes \cup {None}]
    /\ parentOf \in [Activations -> Activations \cup {None}]
    /\ count \in [Activations -> Int]
    /\ token \in [Activations -> [ctx : Contexts \cup {None}, old : Activations \cup {None}]]
    /\ emptied \subseteq Activations
    /\ tokens \subseteq Activations
    /\ twice \subseteq Activations
    /\ work \in [Contexts -> Work]

\* The dependents of p that were given back twice.
Surplus(p) == {a \in twice : parentOf[a] = p}

\* While an activation is under way, until its last resource is closed, the parent
\* activation it began under is neither ended nor emptied, in whatever thread - unless
\* some activation begun under that parent was ended inside its own activate().
ParentOutlivesDependents ==
    \A a \in Activations :
        Held(a) /\ parentOf[a] # None /\ Surplus(parentOf[a]) = {}
            => phase[parentOf[a]] = "open" /\ parentOf[a] \notin emptied

\* deactivate refuses to end an activation while a scope requiring it is active.
ActiveDependentKeepsParent ==
    \A a \in Activations :
        phase[a] = "open" /\ parentOf[a] # None => phase[parentOf[a]] = "open"

\* An activation counts exactly the dependents under way: one lost would let it end
\* under them, one too many would never let it end.  It is short of the count by those that
\* another thread ended while their activate(), which then never returned, was under way.
DependentsCounted ==
    /\ \A p \in Activations \ emptied :
          count[p] = Cardinality(Dependents(p)) - Cardinality(Surplus(p))
    /\ \A a \in twice : scopeOf[a] \in Shared /\ a \notin tokens /\ a \in emptied

\* A shared scope never has two live activations, and the one it has is the one its
\* variable shows: no activation is orphaned.
SharedOnce ==
    \A a \in Activations :
        phase[a] = "open" /\ scopeOf[a] \in Shared => sharedVar[scopeOf[a]] = a

\* Nested activations of a context scope end innermost first, each giving back the one
\* it found: a context sees its newest live activation, else the one it was copied with.
\* A shared scope, whose threads may activate it at one moment, has none to nest.
InnermostFirst ==
    /\ SharedOnce
    /\ \A s \in Scopes \ Shared, c \in Contexts :
          LET mine == {a \in Activations :
                          phase[a] = "open" /\ scopeOf[a] = s /\ token[a].ctx = c}
          IN  IF mine = {} THEN contextVar[s][c] = inherited[s][c]
                           ELSE contextVar[s][c] \in mine /\ \A a \in mine : a <= contextVar[s][c]

\* The stages of an activation that matter to those it depends on or that depend on it.
Stage(a) ==
    CASE phase[a] = "none" -> "unborn"
      [] phase[a] \in {"new", "open"} -> "open"
      [] phase[a] \in {"ended", "closing"} -> "closing"
      [] OTHER -> "over"

Tree == INSTANCE ActivationTree
            WITH state <- [a \in Activations |-> Stage(a)], parent <- parentOf,
                 deserted <- {parentOf[a] : a \in twice}

\* Threads, locks, tokens and copied contexts together implement the tree of activations.
ImplementsTree == Tree!Spec
=============================================================================
