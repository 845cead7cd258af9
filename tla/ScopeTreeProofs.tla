-------------------------- MODULE ScopeTreeProofs --------------------------
(***************************************************************************)
(* Proofs about ScopeTree, for any number of contexts, any graph of scopes *)
(* and any number of activations.  TreeInv is inductive: what the checks   *)
(* say of the counts and of the variables only lasts because no two        *)
(* contexts take the same steps of one activation (Exclusive; of one that  *)
(* another thread ends inside its own activate(), one context takes the    *)
(* steps of its beginning and another those of its end), because           *)
(* whoever finds an activation in a variable finds one that is open or     *)
(* emptied (VarsOK), and because the activations a context nests are a     *)
(* stack whose links are the tokens (StacksOK).                            *)
(***************************************************************************)
EXTENDS ScopeTree, TLAPS, FiniteSetTheorems

-----------------------------------------------------------------------------
(* The inductive invariant                                                 *)

\* Activations are numbered as they begin; one is emptied exactly when its closing begins.
BornOK ==
    \A a \in Activations :
        /\ phase[a] # "none" => /\ scopeOf[a] \in Scopes
                                /\ \A b \in Activations : b < a => phase[b] # "none"
        /\ phase[a] = "none" => token[a].old = None
        /\ phase[a] \in {"none", "new"} => a \notin tokens
        /\ phase[a] \in {"none", "new", "open", "ended"} => a \notin emptied
        /\ phase[a] = "closing" => a \in emptied

\* An activation of s that code may have found in a ContextVar: live, or seen to be over.
Found(s, a) == a # None => scopeOf[a] = s /\ (phase[a] = "open" \/ a \in emptied)

VarsOK ==
    /\ \A s \in Shared : sharedVar[s] # None =>
          scopeOf[sharedVar[s]] = s /\ phase[sharedVar[s]] = "open"
    /\ SharedOnce
    /\ \A s \in Scopes \ Shared, c \in Contexts :
          Found(s, contextVar[s][c]) /\ Found(s, inherited[s][c])
    /\ \A a \in Activations : scopeOf[a] \in Scopes \ Shared => Found(scopeOf[a], token[a].old)

\* The steps of activate() and those of deactivate(): no two contexts take the same ones of
\* one activation.
Begins(c) == work[c].pc \in {"set", "token", "unwind"}
Ends(c) == work[c].pc \in {"clear", "close", "release"}

WorkerOK(c) ==
    LET a == Act(c) IN
    /\ Does(c, "idle") => work[c] = Idle
    /\ ~Does(c, "idle") => c \in started /\ a \in Activations
    /\ Does(c, "set") => phase[a] = "new"
    /\ Does(c, "token") => /\ scopeOf[a] \in Shared /\ a \notin tokens
                           /\ phase[a] \in {"open", "ended", "closing", "done"}
    /\ Does(c, "unwind") /\ phase[a] # "new" =>
          /\ scopeOf[a] \in Shared /\ a \notin tokens /\ a \in emptied
          /\ phase[a] \in {"closing", "done"}
    /\ Begins(c) => a \notin twice
    /\ work[c].pc \in {"unwind", "release"} => parentOf[a] # None
    /\ Does(c, "clear") => phase[a] = "ended"
    /\ work[c].pc \in {"close", "release"} => phase[a] = "closing"

Exclusive ==
    \A c, d \in Contexts :
        c # d /\ ((Begins(c) /\ Begins(d)) \/ (Ends(c) /\ Ends(d))) => Act(c) # Act(d)

WorkOK == (\A c \in Contexts : WorkerOK(c)) /\ Exclusive

\* An activation and the parent it counts on.
ParentsOK ==
    /\ \A a \in Activations : phase[a] # "none" =>
          (parentOf[a] # None => Requires[scopeOf[a]] # None)
    /\ ParentOutlivesDependents
    /\ DependentsCounted
    /\ \A a \in twice : parentOf[a] # None /\ phase[a] \in {"closing", "done"}

\* The live activations of s that c began, and the newest of some of them.
Mine(s, c) == {a \in Activations : phase[a] = "open" /\ scopeOf[a] = s /\ token[a].ctx = c}
Newest(S, v, otherwise) == IF S = {} THEN v = otherwise ELSE v \in S /\ \A b \in S : b <= v

\* Each activation gives back the one before it.
StacksOK ==
    \A s \in Scopes \ Shared, c \in Contexts :
        /\ Newest(Mine(s, c), contextVar[s][c], inherited[s][c])
        /\ \A a \in Mine(s, c) :
              Newest({b \in Mine(s, c) : b < a}, token[a].old, inherited[s][c])
        /\ Does(c, "set") => \A b \in Mine(s, c) : b < Act(c)
        /\ Mine(s, c) # {} => c \in started

TreeInv == TypeOK /\ BornOK /\ VarsOK /\ WorkOK /\ ParentsOK /\ StacksOK

-----------------------------------------------------------------------------
(* Counting dependents                                                     *)

LEMMA DependentsFinite ==
    ASSUME NEW p
    PROVE  /\ IsFiniteSet(Dependents(p)) /\ Cardinality(Dependents(p)) \in Nat
           /\ TypeOK => IsFiniteSet(Surplus(p)) /\ Cardinality(Surplus(p)) \in Nat
<1>1. IsFiniteSet(Activations)
  BY ScopesAssumption, FS_Interval DEF Activations
<1>2. Dependents(p) \subseteq Activations /\ (TypeOK => Surplus(p) \subseteq Activations)
  BY DEF Dependents, Surplus, TypeOK
<1>3. IsFiniteSet(Dependents(p)) /\ (TypeOK => IsFiniteSet(Surplus(p)))
  BY <1>1, <1>2, FS_Subset
<1> QED
  BY <1>3, FS_CardinalityType

\* The first half of DependentsCounted.
Counted ==
    \A p \in Activations \ emptied :
        count[p] = Cardinality(Dependents(p)) - Cardinality(Surplus(p))

\* Only a, whose parent is p, comes to count.
LEMMA DependentGained ==
    ASSUME TypeOK, Counted, NEW a \in Activations, NEW p \in Activations \cup {None},
           ~Held(a), Held(a)', parentOf'[a] = p, CountOn(p), a \notin twice,
           UNCHANGED <<twice, emptied>>,
           \A b \in Activations \ {a} : (Held(b)' <=> Held(b)) /\ parentOf'[b] = parentOf[b]
    PROVE  Counted' /\ count' \in [Activations -> Int]
<1>1. \A q \in Activations : Dependents(q)' = IF q = p THEN Dependents(q) \cup {a} ELSE Dependents(q)
  BY DEF Dependents
<1>2. a \notin Dependents(p)
  BY DEF Dependents
<1>3. p # None => Cardinality(Dependents(p) \cup {a}) = Cardinality(Dependents(p)) + 1
  BY <1>2, DependentsFinite, FS_AddElement
<1>4. \A q \in Activations : count'[q] = IF q = p THEN count[q] + 1 ELSE count[q]
  BY ScopesAssumption DEF CountOn, TypeOK
<1>5. \A q : Surplus(q)' = Surplus(q)
  BY DEF Surplus, TypeOK
<1>6. Counted'
  <2> SUFFICES ASSUME NEW q \in Activations \ emptied
               PROVE  count'[q] = Cardinality(Dependents(q)') - Cardinality(Surplus(q)')
    BY DEF Counted
  <2>1. count[q] = Cardinality(Dependents(q)) - Cardinality(Surplus(q))
    BY DEF Counted
  <2>2. Cardinality(Dependents(q)) \in Nat /\ Cardinality(Surplus(q)) \in Nat
    BY DependentsFinite
  <2>3. CASE q = p
    <3>1. Cardinality(Dependents(q)') = Cardinality(Dependents(q)) + 1
      BY <1>1, <1>3, <2>3, ScopesAssumption
    <3>2. count'[q] = count[q] + 1 /\ Cardinality(Surplus(q)') = Cardinality(Surplus(q))
      BY <1>4, <1>5, <2>3
    <3> QED
      BY <2>1, <2>2, <3>1, <3>2
  <2>4. CASE q # p
    BY <1>1, <1>4, <1>5, <2>1, <2>4
  <2> QED
    BY <2>3, <2>4
<1>7. count' \in [Activations -> Int]
  BY DEF CountOn, TypeOK
<1> QED
  BY <1>6, <1>7

\* Only a stops counting: on a parent whose storage is not emptied yet.
LEMMA DependentLost ==
    ASSUME TypeOK, Counted, NEW a \in Activations, UNCHANGED <<parentOf, twice, emptied>>,
           Held(a), ~Held(a)', \A b \in Activations \ {a} : Held(b)' <=> Held(b),
           IF parentOf[a] \in {None} \cup emptied THEN count' = count ELSE Discount(a)
    PROVE  Counted' /\ count' \in [Activations -> Int]
<1> DEFINE p == parentOf[a]
<1>0. p \in Activations \cup {None}
  BY DEF TypeOK
<1>1. \A q \in Activations : Dependents(q)' = IF q = p THEN Dependents(q) \ {a} ELSE Dependents(q)
  BY DEF Dependents
<1>2. a \in Dependents(p)
  BY DEF Dependents
<1>3. Cardinality(Dependents(p) \ {a}) = Cardinality(Dependents(p)) - 1
  BY <1>2, DependentsFinite, FS_RemoveElement
<1>4. \A q \in Activations \ emptied : count'[q] = IF q = p THEN count[q] - 1 ELSE count[q]
  BY <1>0, ScopesAssumption DEF Discount, TypeOK
<1>5. \A q : Surplus(q)' = Surplus(q)
  BY DEF Surplus
<1>6. Counted'
  <2> SUFFICES ASSUME NEW q \in Activations \ emptied
               PROVE  count'[q] = Cardinality(Dependents(q)') - Cardinality(Surplus(q)')
    BY DEF Counted
  <2>1. count[q] = Cardinality(Dependents(q)) - Cardinality(Surplus(q))
    BY DEF Counted
  <2>2. Cardinality(Dependents(q)) \in Nat /\ Cardinality(Surplus(q)) \in Nat
    BY DependentsFinite
  <2> HIDE DEF p
  <2>3. CASE q = p
    BY <1>1, <1>3, <1>4, <1>5, <2>1, <2>2, <2>3
  <2>4. CASE q # p
    BY <1>1, <1>4, <1>5, <2>1, <2>4
  <2> QED
    BY <2>3, <2>4
<1>7. count' \in [Activations -> Int]
  BY DEF Discount, TypeOK
<1> QED
  BY <1>6, <1>7

\* a is given back once more than it counted.
LEMMA DependentDeserted ==
    ASSUME TypeOK, Counted, NEW a \in Activations, UNCHANGED <<parentOf, emptied>>,
           parentOf[a] # None, a \notin twice, twice' = twice \cup {a}, Discount(a),
           \A b \in Activations : Held(b)' <=> Held(b)
    PROVE  Counted' /\ count' \in [Activations -> Int]
<1> DEFINE p == parentOf[a]
<1>1. \A q : Dependents(q)' = Dependents(q)
  BY DEF Dependents
<1>2. \A q : Surplus(q)' = IF q = p THEN Surplus(q) \cup {a} ELSE Surplus(q)
  BY DEF Surplus
<1>3. Cardinality(Surplus(p) \cup {a}) = Cardinality(Surplus(p)) + 1
  <2>1. a \notin Surplus(p)
    BY DEF Surplus
  <2> QED
    BY <2>1, DependentsFinite, FS_AddElement
<1>4. \A q \in Activations : count'[q] = IF q = p THEN count[q] - 1 ELSE count[q]
  BY DEF Discount, TypeOK
<1>5. Counted'
  <2> SUFFICES ASSUME NEW q \in Activations \ emptied
               PROVE  count'[q] = Cardinality(Dependents(q)') - Cardinality(Surplus(q)')
    BY DEF Counted
  <2>1. count[q] = Cardinality(Dependents(q)) - Cardinality(Surplus(q))
    BY DEF Counted
  <2>2. Cardinality(Dependents(q)) \in Nat /\ Cardinality(Surplus(q)) \in Nat
    BY DependentsFinite
  <2> HIDE DEF p
  <2>3. CASE q = p
    <3>1. Cardinality(Surplus(q)') = Cardinality(Surplus(q)) + 1
      BY <1>2, <1>3, <2>3
    <3>2. count'[q] = count[q] - 1 /\ Cardinality(Dependents(q)') = Cardinality(Dependents(q))
      BY <1>1, <1>4, <2>3
    <3> QED
      BY <2>1, <2>2, <3>1, <3>2
  <2>4. CASE q # p
    BY <1>1, <1>2, <1>4, <2>1, <2>4
  <2> QED
    BY <2>3, <2>4
<1>6. count' \in [Activations -> Int]
  <2>1. count' = [count EXCEPT ![parentOf[a]] = count[parentOf[a]] - 1] /\ count \in [Activations -> Int]
    BY DEF Discount, TypeOK
  <2>2. parentOf[a] \in Activations
    BY DEF TypeOK
  <2> QED
    BY <2>1, <2>2
<1> QED
  BY <1>5, <1>6

LEMMA DependentsKept ==
    ASSUME TypeOK, Counted, UNCHANGED <<parentOf, count, twice>>, emptied \subseteq emptied',
           \A b \in Activations : Held(b)' <=> Held(b)
    PROVE  Counted' /\ count' \in [Activations -> Int]
<1>1. \A q : Dependents(q)' = Dependents(q) /\ Surplus(q)' = Surplus(q)
  BY DEF Dependents, Surplus
<1> QED
  BY <1>1 DEF Counted, TypeOK

LEMMA NoneDepends ==
    ASSUME TypeOK, Counted, NEW p \in Activations \ emptied, ~HasDependents(p), Surplus(p) = {}
    PROVE  \A a \in Activations : Held(a) => parentOf[a] # p
<1>1. count[p] \in Int /\ ~(count[p] > 0)
  BY DEF HasDependents, TypeOK
<1>2. count[p] = Cardinality(Dependents(p)) - 0
  BY FS_EmptySet DEF Counted
<1>3. Cardinality(Dependents(p)) = 0
  BY <1>1, <1>2, DependentsFinite
<1>4. Dependents(p) = {}
  BY <1>3, DependentsFinite, FS_EmptySet
<1> QED
  BY <1>4 DEF Dependents

-----------------------------------------------------------------------------
(* What the steps preserve                                                 *)

\* The state but for the count of dependents and the steps of the contexts.
places == <<sharedVar, contextVar, inherited, token>>
births == <<scopeOf, parentOf>>

\* What a step says of the counts, in parts.
LEMMA CountedParts ==
    DependentsCounted <=>
        Counted /\ \A a \in twice : scopeOf[a] \in Shared /\ a \notin tokens /\ a \in emptied
BY DEF DependentsCounted, Counted

LEMMA WorkTypes ==
    ASSUME TreeInv, NEW c \in Contexts, ~Does(c, "idle")
    PROVE  /\ Act(c) \in Activations /\ c \in started
           /\ work[c] \in Work /\ WorkerOK(c)
BY DEF TreeInv, TypeOK, WorkOK, WorkerOK

\* The activation a context works on is over, and no longer counts on its parent.
LEMMA OverInv ==
    ASSUME TreeInv, NEW c \in Contexts, work[c].pc \in {"set", "unwind", "close", "release"},
           phase[Act(c)] \in {"new", "closing"}, Does(c, "unwind") => phase[Act(c)] = "new",
           Finish(c), phase' = [phase EXCEPT ![Act(c)] = "done"],
           IF parentOf[Act(c)] \in {None} \cup emptied THEN count' = count ELSE Discount(Act(c)),
           UNCHANGED <<started, places, births, emptied, tokens, twice>>
    PROVE  TreeInv'
<1>0. PICK a \in Activations : a = Act(c) /\ phase[a] \in {"new", "closing"}
  BY WorkTypes DEF Does
<1>1. /\ phase'[a] = "done" /\ \A b \in Activations \ {a} : phase'[b] = phase[b]
      /\ work'[c] = Idle /\ \A d \in Contexts \ {c} : work'[d] = work[d]
      /\ parentOf' = parentOf /\ scopeOf' = scopeOf
  BY <1>0 DEF Finish, TreeInv, TypeOK, births
<1>2. Held(a) /\ ~Held(a)' /\ \A b \in Activations \ {a} : Held(b)' <=> Held(b)
  BY <1>0, <1>1 DEF Held
<1>3. Counted' /\ count' \in [Activations -> Int]
  BY <1>0, <1>1, <1>2, CountedParts, DependentLost DEF TreeInv, ParentsOK
<1>4. TypeOK'
  BY <1>0, <1>3 DEF Finish, TreeInv, TypeOK, places, births, Phases, Work, Idle, PCs
<1>5. BornOK'
  BY <1>0, <1>1 DEF TreeInv, BornOK, places
<1>6. VarsOK'
  BY <1>0, <1>1 DEF TreeInv, VarsOK, SharedOnce, Found, places, TypeOK
<1>7. WorkOK'
  <2>1. ASSUME NEW d \in Contexts \ {c} PROVE WorkerOK(d)'
    <3>1. (Begins(c) /\ phase[a] = "new") \/ (Ends(c) /\ phase[a] = "closing")
      BY <1>0, WorkTypes DEF Does, WorkerOK, Begins, Ends
    <3>2. WorkerOK(d)
      BY DEF TreeInv, WorkOK
    <3>3. (Begins(c) /\ Begins(d)) \/ (Ends(c) /\ Ends(d)) => Act(d) # a
      BY <1>0 DEF TreeInv, WorkOK, Exclusive
    <3> QED
      BY <1>0, <1>1, <3>1, <3>2, <3>3 DEF WorkerOK, Does, Act, Begins, Ends, Idle
  <2>2. WorkerOK(c)'
    BY <1>1 DEF WorkerOK, Does, Act, Begins, Idle
  <2>3. Exclusive'
    BY <1>1 DEF TreeInv, WorkOK, Exclusive, Begins, Ends, Act, Idle
  <2> QED
    BY <2>1, <2>2, <2>3 DEF WorkOK
<1>8. ParentsOK'
  <2>1. ParentOutlivesDependents'
    BY <1>0, <1>1, <1>2 DEF TreeInv, ParentsOK, ParentOutlivesDependents, TypeOK, Surplus
  <2>2. DependentsCounted'
    BY <1>1, <1>3, CountedParts DEF TreeInv, ParentsOK, DependentsCounted, Counted
  <2> QED
    BY <1>0, <1>1, <2>1, <2>2 DEF TreeInv, ParentsOK, TypeOK
<1>9. StacksOK'
  <2>1. \A s \in Scopes, d \in Contexts : Mine(s, d)' = Mine(s, d)
    BY <1>0, <1>1 DEF Mine, places
  <2>2. \A d \in Contexts : Does(d, "set")' => Does(d, "set") /\ Act(d)' = Act(d)
    BY <1>1 DEF Does, Act, Idle
  <2> QED
    BY <2>1, <2>2 DEF TreeInv, StacksOK, places
<1> QED
  BY <1>4, <1>5, <1>6, <1>7, <1>8, <1>9 DEF TreeInv

\* A context goes on to the next step, or is done, and nothing else changes.
LEMMA MovesInv ==
    ASSUME TreeInv, NEW c \in Contexts, NEW w \in Work, work' = [work EXCEPT ![c] = w],
           ~Does(c, "idle"), w.pc # "set", WorkerOK(c)',
           w.pc \in {"token", "unwind"} => Begins(c) /\ w.act = Act(c),
           w.pc \in {"clear", "close", "release"} => Ends(c) /\ w.act = Act(c),
           tokens' \in SUBSET Activations,
           tokens \subseteq tokens' /\ tokens' \subseteq tokens \cup {Act(c)},
           tokens' # tokens => Begins(c) /\ phase[Act(c)] \notin {"none", "new"},
           UNCHANGED <<started, places, births, phase, emptied>>,
           \/ UNCHANGED <<count, twice>>
           \/ /\ Does(c, "unwind") /\ w.pc = "idle" /\ phase[Act(c)] # "new"
              /\ Discount(Act(c)) /\ twice' = twice \cup {Act(c)} /\ tokens' = tokens
    PROVE  TreeInv'
<1>1. work'[c] = w /\ \A d \in Contexts \ {c} : work'[d] = work[d]
  BY DEF TreeInv, TypeOK
<1>0. Act(c) \in Activations /\ WorkerOK(c)
  BY WorkTypes
<1>a. Counted' /\ count' \in [Activations -> Int]
  <2>1. CASE UNCHANGED <<count, twice>>
    BY <2>1, CountedParts, DependentsKept DEF TreeInv, ParentsOK, Held, births
  <2>2. CASE Does(c, "unwind") /\ Discount(Act(c)) /\ twice' = twice \cup {Act(c)}
    <3>1. Act(c) \notin twice /\ parentOf[Act(c)] # None
      BY <1>0, <2>2 DEF WorkerOK, Begins, Does
    <3> QED
      BY <1>0, <2>2, <3>1, CountedParts, DependentDeserted DEF TreeInv, ParentsOK, Held, births
  <2> QED
    BY <2>1, <2>2
<1>b. twice' \in SUBSET Activations /\ twice \subseteq twice' /\ twice' \subseteq twice \cup {Act(c)}
      /\ (twice' # twice => Begins(c))
  BY <1>0 DEF TreeInv, TypeOK, Begins, Does
<1>2. TypeOK'
  BY <1>a, <1>b DEF TreeInv, TypeOK, places, births
<1>3. BornOK'
  BY DEF TreeInv, BornOK, births, places
<1>4. VarsOK'
  BY DEF TreeInv, VarsOK, SharedOnce, Found, places, births
<1>5. WorkOK'
  <2>1. ASSUME NEW d \in Contexts \ {c} PROVE WorkerOK(d)'
    <3>1. WorkerOK(d)
      BY DEF TreeInv, WorkOK
    <3>2. Does(d, "token") => Act(d) \notin tokens'
      BY <3>1 DEF TreeInv, WorkOK, Exclusive, WorkerOK, Begins, Does
    <3>3. Begins(d) => Act(d) \notin twice'
      BY <1>b, <3>1 DEF TreeInv, WorkOK, Exclusive, WorkerOK
    <3>4. Does(d, "unwind") /\ phase[Act(d)] # "new" => Act(d) \notin tokens'
      BY <3>1 DEF TreeInv, WorkOK, Exclusive, WorkerOK, Begins, Does
    <3> QED
      BY <1>1, <3>1, <3>2, <3>3, <3>4 DEF WorkerOK, Does, Act, Idle, births, Begins
  <2>2. Exclusive'
    BY <1>1 DEF TreeInv, WorkOK, Exclusive, Begins, Ends, Act
  <2> QED
    BY <2>1, <2>2 DEF WorkOK
<1>6. ParentsOK'
  <2>1. ASSUME NEW b \in twice'
        PROVE  /\ scopeOf[b] \in Shared /\ b \notin tokens' /\ b \in emptied
               /\ parentOf[b] # None /\ phase[b] \in {"closing", "done"}
    <3>1. CASE b \in twice
      <4>1. /\ scopeOf[b] \in Shared /\ b \notin tokens /\ b \in emptied
            /\ parentOf[b] # None /\ phase[b] \in {"closing", "done"}
        BY <3>1, CountedParts DEF TreeInv, ParentsOK
      <4>2. Begins(c) => Act(c) # b
        BY <1>0, <3>1 DEF WorkerOK
      <4> QED
        BY <4>1, <4>2
    <3>2. CASE b \notin twice
      <4>1. /\ b = Act(c) /\ Does(c, "unwind") /\ phase[b] # "new" /\ tokens' = tokens
        BY <2>1, <3>2
      <4> QED
        BY <1>0, <4>1 DEF WorkerOK, Does
    <3> QED
      BY <3>1, <3>2
  <2>2. DependentsCounted'
    BY <1>a, <2>1, CountedParts DEF DependentsCounted, Counted, births
  <2>3. ParentOutlivesDependents'
    BY <1>b DEF TreeInv, ParentsOK, ParentOutlivesDependents, Held, births, Surplus
  <2> QED
    BY <2>1, <2>2, <2>3 DEF TreeInv, ParentsOK, births
<1>7. StacksOK'
  <2>1. \A s \in Scopes, d \in Contexts : Mine(s, d)' = Mine(s, d)
    BY DEF Mine, places, births
  <2>2. \A d \in Contexts : Does(d, "set")' => Does(d, "set") /\ Act(d)' = Act(d)
    BY <1>1 DEF Does, Act
  <2> QED
    BY <2>1, <2>2 DEF TreeInv, StacksOK, places
<1> QED
  BY <1>2, <1>3, <1>4, <1>5, <1>6, <1>7 DEF TreeInv

\* The parent is given back: by whoever ends the activation, or by an activate() that failed.
LEMMA ReleaseInv ==
    ASSUME TreeInv, NEW c \in Contexts, Unwind(c) \/ Release(c)
    PROVE  TreeInv'
<1> DEFINE a == Act(c)
<1>1. /\ work[c].pc \in {"unwind", "release"} /\ ~Does(c, "idle") /\ Finish(c)
      /\ IF parentOf[a] \in emptied THEN UNCHANGED count ELSE Discount(a)
      /\ UNCHANGED <<started, places, births, emptied, tokens>>
  BY DEF Unwind, Release, Does, places, births
<1>2. a \in Activations /\ parentOf[a] # None /\ WorkerOK(c)
  BY <1>1, WorkTypes DEF WorkerOK, Does
<1>3. CASE /\ phase[a] \in {"new", "closing"} /\ UNCHANGED twice
           /\ phase' = [phase EXCEPT ![a] = "done"]
           /\ Does(c, "unwind") => phase[a] = "new"
  BY <1>1, <1>2, <1>3, OverInv
<1>4. CASE /\ Does(c, "unwind") /\ phase[a] # "new" /\ UNCHANGED phase
           /\ twice' = IF parentOf[a] \in emptied THEN twice ELSE twice \cup {a}
  <2>1. work' = [work EXCEPT ![c] = Idle] /\ Idle \in Work /\ Idle.pc = "idle"
    BY <1>1 DEF Finish, Idle, Work, PCs
  <2>2. WorkerOK(c)'
    BY <2>1 DEF WorkerOK, Does, Act, Idle, TreeInv, TypeOK, Begins
  <2> HIDE DEF Idle
  <2> QED
    BY <1>1, <1>2, <1>4, <2>1, <2>2, MovesInv DEF Does, TreeInv, TypeOK
<1>5. Release(c) => phase[a] = "closing"
  BY <1>2 DEF Release, WorkerOK, Does
<1> QED
  BY <1>3, <1>4, <1>5 DEF Unwind, Release, Does

LEMMA ClosedInv ==
    ASSUME TreeInv, NEW c \in Contexts, Close(c)
    PROVE  TreeInv'
<1>0. /\ Act(c) \in Activations /\ phase[Act(c)] = "closing" /\ work[c] \in Work
      /\ work[c].pc = "close" /\ c \in started
  BY WorkTypes DEF Close, WorkerOK, Does
<1>1. CASE parentOf[Act(c)] = None
  BY <1>0, <1>1, OverInv DEF Close, places, births, Does
<1>2. CASE parentOf[Act(c)] # None
  <2> DEFINE w == [work[c] EXCEPT !.pc = "release"]
  <2>1. work' = [work EXCEPT ![c] = w] /\ UNCHANGED <<started, places, births, phase, count,
                                                      emptied, tokens, twice>>
    BY <1>2 DEF Close, Go, places, births
  <2>2. w \in Work /\ w.pc = "release" /\ w.act = Act(c)
    BY <1>0 DEF Work, PCs, Act
  <2> HIDE DEF w
  <2>3. work'[c] = w
    BY <2>1 DEF TreeInv, TypeOK
  <2>4. WorkerOK(c)'
    BY <1>0, <1>2, <2>1, <2>2, <2>3 DEF WorkerOK, Does, Act, births, Begins
  <2> QED
    BY <1>0, <2>1, <2>2, <2>4, MovesInv DEF Ends, Does, TreeInv, TypeOK
<1> QED
  BY <1>1, <1>2

LEMMA StoreTokenInv ==
    ASSUME TreeInv, NEW c \in Contexts, StoreToken(c)
    PROVE  TreeInv'
<1>0. /\ Act(c) \in Activations /\ scopeOf[Act(c)] \in Shared /\ work[c].pc = "token"
      /\ phase[Act(c)] \in {"open", "ended", "closing", "done"} /\ work[c] \in Work
      /\ Act(c) \notin tokens /\ Act(c) \notin twice /\ c \in started
  BY WorkTypes DEF StoreToken, WorkerOK, Does, Begins
<1>1. /\ tokens' \in {tokens, tokens \cup {Act(c)}}
      /\ UNCHANGED <<started, places, births, phase, count, emptied, twice>>
  BY <1>0 DEF StoreToken, places, births
<1>2. CASE Finish(c)
  <2>1. work' = [work EXCEPT ![c] = Idle] /\ Idle \in Work /\ Idle.pc = "idle"
    BY <1>2 DEF Finish, Idle, Work, PCs
  <2>2. WorkerOK(c)'
    BY <2>1 DEF WorkerOK, Does, Act, Idle, TreeInv, TypeOK, Begins
  <2> HIDE DEF Idle
  <2> QED
    BY <1>0, <1>1, <2>1, <2>2, MovesInv DEF Begins, Does, TreeInv, TypeOK
<1>3. CASE Go(c, "unwind") /\ Act(c) \in emptied /\ parentOf[Act(c)] # None /\ UNCHANGED tokens
  <2> DEFINE w == [work[c] EXCEPT !.pc = "unwind"]
  <2>1. work' = [work EXCEPT ![c] = w]
    BY <1>3 DEF Go
  <2>2. w \in Work /\ w.pc = "unwind" /\ w.act = Act(c)
    BY <1>0 DEF Work, PCs, Act
  <2> HIDE DEF w
  <2>3. work'[c] = w
    BY <2>1 DEF TreeInv, TypeOK
  <2>4. phase[Act(c)] \in {"closing", "done"}
    BY <1>0, <1>3 DEF TreeInv, BornOK
  <2>5. WorkerOK(c)'
    BY <1>0, <1>1, <1>3, <2>2, <2>3, <2>4 DEF WorkerOK, Does, Act, births, Begins
  <2> QED
    BY <1>0, <1>1, <1>3, <2>1, <2>2, <2>5, MovesInv DEF Begins, Does, TreeInv, TypeOK
<1> QED
  BY <1>2, <1>3 DEF StoreToken

LEMMA ClearInv ==
    ASSUME TreeInv, NEW c \in Contexts, Clear(c)
    PROVE  TreeInv'
<1>0. PICK a \in Activations : a = Act(c) /\ phase[a] = "ended"
  BY WorkTypes DEF Clear, WorkerOK, Does
<1>1. /\ emptied' = emptied \cup {a} /\ phase' = [phase EXCEPT ![a] = "closing"]
      /\ work' = [work EXCEPT ![c].pc = "close"] /\ work[c].pc = "clear" /\ c \in started
      /\ work[c] \in Work
      /\ UNCHANGED <<started, places, births, count, tokens, twice>>
  BY <1>0, WorkTypes DEF Clear, Go, places, births, Does, WorkerOK
<1>2. /\ phase'[a] = "closing" /\ \A b \in Activations \ {a} : phase'[b] = phase[b]
      /\ work'[c] = [work[c] EXCEPT !.pc = "close"]
      /\ \A d \in Contexts \ {c} : work'[d] = work[d]
      /\ parentOf' = parentOf /\ scopeOf' = scopeOf
  BY <1>1 DEF TreeInv, TypeOK, births
<1>3. work'[c].pc = "close" /\ work'[c].act = a
  BY <1>0, <1>1, <1>2 DEF Work, Act
<1>4. \A b \in Activations : Held(b)' <=> Held(b)
  BY <1>0, <1>2 DEF Held
<1>5. Counted'
  BY <1>1, <1>2, <1>4, CountedParts, DependentsKept DEF TreeInv, ParentsOK
<1>6. TypeOK'
  BY <1>1, <1>2 DEF TreeInv, TypeOK, places, births, Phases, Work, PCs
<1>7. BornOK'
  BY <1>0, <1>1, <1>2 DEF TreeInv, BornOK, places
<1>8. VarsOK'
  BY <1>0, <1>1, <1>2 DEF TreeInv, VarsOK, SharedOnce, Found, places, TypeOK
<1>9. WorkOK'
  <2>1. ASSUME NEW d \in Contexts \ {c} PROVE WorkerOK(d)'
    <3>1. WorkerOK(d) /\ (Ends(d) => Act(d) # a)
      BY <1>0, <1>1 DEF TreeInv, WorkOK, Exclusive, Ends
    <3> QED
      BY <1>0, <1>1, <1>2, <3>1 DEF WorkerOK, Does, Act, Begins, Ends
  <2>2. WorkerOK(c)'
    BY <1>0, <1>1, <1>2, <1>3 DEF WorkerOK, Does, Act, Begins
  <2>3. Exclusive'
    BY <1>0, <1>1, <1>2, <1>3 DEF TreeInv, WorkOK, Exclusive, Begins, Ends, Act
  <2> QED
    BY <2>1, <2>2, <2>3 DEF WorkOK
<1>10. ParentsOK'
  <2>1. ParentOutlivesDependents'
    BY <1>0, <1>1, <1>2, <1>4 DEF TreeInv, ParentsOK, ParentOutlivesDependents, TypeOK,
       Surplus
  <2>2. DependentsCounted'
    BY <1>0, <1>1, <1>2, <1>5, CountedParts DEF TreeInv, ParentsOK, DependentsCounted, Counted
  <2> QED
    BY <1>0, <1>1, <1>2, <2>1, <2>2 DEF TreeInv, ParentsOK, TypeOK
<1>11. StacksOK'
  <2>1. \A s \in Scopes, d \in Contexts : Mine(s, d)' = Mine(s, d)
    BY <1>0, <1>1, <1>2 DEF Mine, places
  <2>2. \A d \in Contexts : Does(d, "set")' => Does(d, "set") /\ Act(d)' = Act(d)
    BY <1>2, <1>3 DEF Does, Act
  <2> QED
    BY <1>1, <2>1, <2>2 DEF TreeInv, StacksOK, places
<1> QED
  BY <1>6, <1>7, <1>8, <1>9, <1>10, <1>11 DEF TreeInv

LEMMA StartInv ==
    ASSUME TreeInv, NEW c \in Contexts, Start(c)
    PROVE  TreeInv'
<1>0. /\ started' = started \cup {c}
      /\ UNCHANGED <<places, births, phase, count, emptied, tokens, twice, work>>
  BY DEF Start, places, births
<1>1. TypeOK'
  BY <1>0 DEF TreeInv, TypeOK, places, births
<1>2. BornOK' /\ VarsOK'
  BY <1>0 DEF TreeInv, BornOK, VarsOK, SharedOnce, Found, places, births
<1>3. WorkOK'
  BY <1>0 DEF TreeInv, WorkOK, WorkerOK, Exclusive, Begins, Ends, Does, Act, places, births
<1>4. ParentsOK'
  BY <1>0 DEF TreeInv, ParentsOK, ParentOutlivesDependents, DependentsCounted, Dependents, Held, Surplus,
              places, births
<1>5. StacksOK'
  <2>1. \A s \in Scopes, d \in Contexts : Mine(s, d)' = Mine(s, d)
    BY <1>0 DEF Mine, places, births
  <2> QED
    BY <1>0, <2>1 DEF TreeInv, StacksOK, places, Does, Act
<1> QED
  BY <1>1, <1>2, <1>3, <1>4, <1>5 DEF TreeInv

LEMMA ForkInv ==
    ASSUME TreeInv, NEW c \in Contexts, NEW d \in Contexts, Fork(c, d)
    PROVE  TreeInv'
<1>0. /\ started' = started \cup {d} /\ c \in started /\ d \notin started
      /\ UNCHANGED <<sharedVar, token, births, phase, count, emptied, tokens, twice, work>>
      /\ contextVar' = [s \in Scopes |-> [contextVar[s] EXCEPT ![d] = contextVar[s][c]]]
      /\ inherited' = [s \in Scopes |-> [inherited[s] EXCEPT ![d] = contextVar[s][c]]]
  BY DEF Fork, births
<1>1. TypeOK'
  BY <1>0 DEF TreeInv, TypeOK, births
<1>2. \A s \in Scopes :
         /\ contextVar'[s][d] = contextVar[s][c] /\ inherited'[s][d] = contextVar[s][c]
         /\ \A e \in Contexts \ {d} : contextVar'[s][e] = contextVar[s][e]
                                      /\ inherited'[s][e] = inherited[s][e]
  BY <1>0 DEF TreeInv, TypeOK
<1>3. BornOK'
  BY <1>0 DEF TreeInv, BornOK, births
<1>4. VarsOK'
  BY <1>0, <1>2 DEF TreeInv, VarsOK, SharedOnce, Found, births
<1>5. WorkOK'
  BY <1>0 DEF TreeInv, WorkOK, WorkerOK, Exclusive, Begins, Ends, Does, Act, births
<1>6. ParentsOK'
  BY <1>0 DEF TreeInv, ParentsOK, ParentOutlivesDependents, DependentsCounted, Dependents, Held, Surplus,
              births
<1>7. StacksOK'
  <2>1. \A s \in Scopes, e \in Contexts : Mine(s, e)' = Mine(s, e)
    BY <1>0 DEF Mine, births
  <2>2. \A s \in Scopes \ Shared : Mine(s, d) = {}
    BY <1>0 DEF TreeInv, StacksOK
  <2>3. ASSUME NEW s \in Scopes \ Shared, NEW e \in Contexts
        PROVE  /\ Newest(Mine(s, e)', contextVar'[s][e], inherited'[s][e])
               /\ \A a \in Mine(s, e)' :
                     Newest({b \in Mine(s, e)' : b < a}, token'[a].old, inherited'[s][e])
    <3>1. CASE e = d
      BY <1>2, <2>1, <2>2, <3>1 DEF Newest
    <3>2. CASE e # d
      <4>1. /\ Mine(s, e)' = Mine(s, e) /\ token' = token
            /\ contextVar'[s][e] = contextVar[s][e] /\ inherited'[s][e] = inherited[s][e]
        BY <1>0, <1>2, <2>1, <3>2
      <4>2. /\ Newest(Mine(s, e), contextVar[s][e], inherited[s][e])
            /\ \A a \in Mine(s, e) :
                  Newest({b \in Mine(s, e) : b < a}, token[a].old, inherited[s][e])
        BY DEF TreeInv, StacksOK
      <4> QED
        BY <4>1, <4>2, Zenon
    <3> QED
      BY <3>1, <3>2
  <2>4. ASSUME NEW s \in Scopes \ Shared, NEW e \in Contexts
        PROVE  /\ Does(e, "set")' => \A b \in Mine(s, e)' : b < Act(e)'
               /\ Mine(s, e)' # {} => e \in started'
    BY <1>0, <2>1 DEF TreeInv, StacksOK, Does, Act
  <2> QED
    BY <2>3, <2>4 DEF StacksOK, Newest
<1> QED
  BY <1>1, <1>3, <1>4, <1>5, <1>6, <1>7 DEF TreeInv

\* A shared scope's variable is set: the activation is open, and the one it has.
LEMMA SetSharedInv ==
    ASSUME TreeInv, NEW c \in Contexts, Does(c, "set"), NEW s \in Shared, s = scopeOf[Act(c)],
           ~Occupied(s), sharedVar' = [sharedVar EXCEPT ![s] = Act(c)],
           phase' = [phase EXCEPT ![Act(c)] = "open"], Go(c, "token"),
           UNCHANGED <<started, contextVar, inherited, token, births, count, emptied, tokens, twice>>
    PROVE  TreeInv'
<1>0. PICK a \in Activations :
         /\ a = Act(c) /\ phase[a] = "new" /\ c \in started
         /\ work[c] \in Work /\ work[c].pc = "set" /\ a \notin twice
  BY WorkTypes DEF WorkerOK, Does, Begins
<1>1. /\ phase'[a] = "open" /\ \A b \in Activations \ {a} : phase'[b] = phase[b]
      /\ work'[c] = [work[c] EXCEPT !.pc = "token"]
      /\ \A d \in Contexts \ {c} : work'[d] = work[d]
      /\ sharedVar'[s] = a /\ \A q \in Scopes \ {s} : sharedVar'[q] = sharedVar[q]
      /\ parentOf' = parentOf /\ scopeOf' = scopeOf /\ scopeOf[a] = s /\ s \in Scopes
      /\ sharedVar[s] = None
  BY <1>0, ScopesAssumption DEF TreeInv, TypeOK, births, Go, Occupied
<1>2. work'[c].pc = "token" /\ work'[c].act = a
  BY <1>0, <1>1 DEF Work, Act
<1>3. \A b \in Activations : Held(b)' <=> Held(b)
  BY <1>0, <1>1 DEF Held
<1>4. Counted'
  BY <1>1, <1>3, CountedParts, DependentsKept DEF TreeInv, ParentsOK
<1>5. TypeOK'
  <2>1. work' \in [Contexts -> Work]
    BY <1>0 DEF Go, TreeInv, TypeOK, Work, PCs
  <2>2. sharedVar' \in [Scopes -> Activations \cup {None}] /\ phase' \in [Activations -> Phases]
    BY <1>0, <1>1 DEF TreeInv, TypeOK, Phases
  <2> QED
    BY <2>1, <2>2 DEF TreeInv, TypeOK, births
<1>6. BornOK'
  BY <1>0, <1>1 DEF TreeInv, BornOK
<1>7. VarsOK'
  <2>1. \A q \in Shared : sharedVar'[q] # None =>
           scopeOf[sharedVar'[q]] = q /\ phase'[sharedVar'[q]] = "open"
    BY <1>0, <1>1, ScopesAssumption DEF TreeInv, VarsOK, TypeOK
  <2>2. SharedOnce'
    BY <1>0, <1>1, ScopesAssumption DEF TreeInv, VarsOK, SharedOnce, TypeOK
  <2>3. \A q, b : Found(q, b) => Found(q, b)'
    BY <1>0, <1>1 DEF TreeInv, TypeOK, Found
  <2> QED
    BY <1>1, <2>1, <2>2, <2>3 DEF TreeInv, VarsOK
<1>8. WorkOK'
  <2>1. ASSUME NEW d \in Contexts \ {c} PROVE WorkerOK(d)'
    <3>1. WorkerOK(d) /\ (Begins(d) => Act(d) # a)
      BY <1>0 DEF TreeInv, WorkOK, Exclusive, Begins, Does
    <3> QED
      BY <1>0, <1>1, <3>1 DEF WorkerOK, Does, Act, Begins
  <2>2. WorkerOK(c)'
    BY <1>0, <1>1, <1>2 DEF WorkerOK, Does, Act, TreeInv, WorkOK, BornOK, TypeOK, Begins
  <2>3. Exclusive'
    <3>1. ASSUME NEW d \in Contexts, NEW e \in Contexts, d # e,
                 (Begins(d)' /\ Begins(e)') \/ (Ends(d)' /\ Ends(e)')
          PROVE  Act(d)' # Act(e)'
      <4>1. (Begins(d) /\ Begins(e)) \/ (Ends(d) /\ Ends(e))
        BY <1>0, <1>1, <1>2, <3>1 DEF Begins, Ends, Does
      <4>2. Act(d) # Act(e)
        BY <3>1, <4>1 DEF TreeInv, WorkOK, Exclusive
      <4>3. Act(d)' = Act(d) /\ Act(e)' = Act(e)
        BY <1>0, <1>1, <1>2 DEF Act
      <4> QED
        BY <4>2, <4>3
    <3> QED
      BY <3>1, Zenon DEF Exclusive
  <2> QED
    BY <2>1, <2>2, <2>3 DEF WorkOK
<1>9. ParentsOK'
  <2>1. ParentOutlivesDependents'
    BY <1>0, <1>1, <1>3 DEF TreeInv, ParentsOK, ParentOutlivesDependents, TypeOK, Surplus
  <2>2. \A b \in twice : b # a
    BY <1>0 DEF TreeInv, ParentsOK
  <2>3. DependentsCounted'
    BY <1>1, <1>4, <2>2, CountedParts DEF TreeInv, ParentsOK, DependentsCounted, Counted
  <2> QED
    BY <1>0, <1>1, <2>1, <2>2, <2>3 DEF TreeInv, ParentsOK, TypeOK
<1>10. StacksOK'
  <2>1. \A q \in Scopes \ Shared, d \in Contexts : Mine(q, d)' = Mine(q, d)
    BY <1>0, <1>1 DEF Mine
  <2>2. \A d \in Contexts : Does(d, "set")' => Does(d, "set") /\ Act(d)' = Act(d)
    BY <1>1, <1>2 DEF Does, Act
  <2> QED
    BY <1>1, <2>1, <2>2 DEF TreeInv, StacksOK
<1> QED
  BY <1>5, <1>6, <1>7, <1>8, <1>9, <1>10 DEF TreeInv

\* A context scope's variable is set: the activation is the newest of its context, and keeps
\* what it found.
LEMMA SetContextInv ==
    ASSUME TreeInv, NEW c \in Contexts, Does(c, "set"), NEW s \in Scopes \ Shared,
           s = scopeOf[Act(c)],
           token' = [token EXCEPT ![Act(c)] = [ctx |-> c, old |-> contextVar[s][c]]],
           contextVar' = [contextVar EXCEPT ![s][c] = Act(c)],
           phase' = [phase EXCEPT ![Act(c)] = "open"],
           tokens' = tokens \cup {Act(c)}, Finish(c),
           UNCHANGED <<started, sharedVar, inherited, births, count, emptied, twice>>
    PROVE  TreeInv'
<1>0. PICK a \in Activations :
         a = Act(c) /\ phase[a] = "new" /\ c \in started /\ work[c].pc = "set"
  BY WorkTypes DEF WorkerOK, Does
<1>1. /\ phase'[a] = "open" /\ \A b \in Activations \ {a} : phase'[b] = phase[b]
      /\ work'[c] = Idle /\ \A d \in Contexts \ {c} : work'[d] = work[d]
      /\ token'[a] = [ctx |-> c, old |-> contextVar[s][c]]
      /\ \A b \in Activations \ {a} : token'[b] = token[b]
      /\ contextVar'[s][c] = a
      /\ \A q \in Scopes, d \in Contexts : q # s \/ d # c => contextVar'[q][d] = contextVar[q][d]
      /\ parentOf' = parentOf /\ scopeOf' = scopeOf /\ scopeOf[a] = s
  BY <1>0 DEF TreeInv, TypeOK, births, Finish
<1>3. \A b \in Activations : Held(b)' <=> Held(b)
  BY <1>0, <1>1 DEF Held
<1>4. Counted'
  BY <1>1, <1>3, CountedParts, DependentsKept DEF TreeInv, ParentsOK
<1>5. TypeOK'
  <2>1. work' \in [Contexts -> Work]
    BY DEF Finish, TreeInv, TypeOK, Work, PCs, Idle
  <2>2. /\ contextVar' \in [Scopes -> [Contexts -> Activations \cup {None}]]
        /\ phase' \in [Activations -> Phases]
    BY <1>0 DEF TreeInv, TypeOK, Phases
  <2>3. token' \in [Activations -> [ctx : Contexts \cup {None}, old : Activations \cup {None}]]
    BY <1>0 DEF TreeInv, TypeOK
  <2> QED
    BY <1>0, <2>1, <2>2, <2>3 DEF TreeInv, TypeOK, births
<1>6. BornOK'
  BY <1>0, <1>1 DEF TreeInv, BornOK
<1>7. VarsOK'
  <2>1. \A q \in Shared : sharedVar[q] # None =>
           scopeOf[sharedVar[q]] = q /\ phase'[sharedVar[q]] = "open"
    BY <1>0, <1>1, ScopesAssumption DEF TreeInv, VarsOK, TypeOK
  <2>2. SharedOnce'
    BY <1>0, <1>1 DEF TreeInv, VarsOK, SharedOnce
  <2>3. \A q, b : Found(q, b) => Found(q, b)'
    BY <1>0, <1>1 DEF TreeInv, TypeOK, Found
  <2>4. Found(s, a)' /\ Found(s, contextVar[s][c])
    BY <1>1 DEF TreeInv, VarsOK, Found
  <2>5. \A q \in Scopes \ Shared, d \in Contexts : Found(q, contextVar[q][d]) /\ Found(q, inherited[q][d])
    BY DEF TreeInv, VarsOK
  <2>6. \A q \in Scopes \ Shared, d \in Contexts : Found(q, contextVar[q][d])' /\ Found(q, inherited[q][d])'
    <3> SUFFICES ASSUME NEW q \in Scopes \ Shared, NEW d \in Contexts
                 PROVE  Found(q, contextVar[q][d])' /\ Found(q, inherited[q][d])'
      OBVIOUS
    <3>1. Found(q, inherited[q][d])'
      BY <2>3, <2>5 DEF Found
    <3>2. CASE q = s /\ d = c
      BY <1>1, <2>4, <3>1, <3>2 DEF Found
    <3>3. CASE q # s \/ d # c
      BY <1>1, <2>3, <2>5, <3>1, <3>3 DEF Found
    <3> QED
      BY <3>2, <3>3
  <2>7. \A b \in Activations : scopeOf[b] \in Scopes \ Shared => Found(scopeOf[b], token[b].old)'
    <3> SUFFICES ASSUME NEW b \in Activations, scopeOf[b] \in Scopes \ Shared
                 PROVE  Found(scopeOf[b], token[b].old)'
      OBVIOUS
    <3>1. CASE b = a
      BY <1>1, <2>3, <2>4, <3>1 DEF Found
    <3>2. CASE b # a
      <4>1. Found(scopeOf[b], token[b].old)
        BY DEF TreeInv, VarsOK
      <4> QED
        BY <1>1, <2>3, <3>2, <4>1 DEF Found
    <3> QED
      BY <3>1, <3>2
  <2> QED
    BY <1>1, <2>1, <2>2, <2>6, <2>7 DEF VarsOK
<1>8. WorkOK'
  <2>1. ASSUME NEW d \in Contexts \ {c} PROVE WorkerOK(d)'
    <3>1. WorkerOK(d) /\ (Begins(d) => Act(d) # a)
      BY <1>0 DEF TreeInv, WorkOK, Exclusive, Begins, Does
    <3> QED
      BY <1>0, <1>1, <3>1 DEF WorkerOK, Does, Act, Begins, Idle
  <2>2. WorkerOK(c)'
    BY <1>1 DEF WorkerOK, Does, Act, Begins, Idle
  <2>3. Exclusive'
    BY <1>1 DEF TreeInv, WorkOK, Exclusive, Begins, Ends, Act, Idle
  <2> QED
    BY <2>1, <2>2, <2>3 DEF WorkOK
<1>9. ParentsOK'
  <2>1. ParentOutlivesDependents'
    BY <1>0, <1>1, <1>3 DEF TreeInv, ParentsOK, ParentOutlivesDependents, TypeOK, Surplus
  <2>2. \A b \in twice : b # a
    BY <1>0 DEF TreeInv, ParentsOK
  <2>3. DependentsCounted'
    BY <1>1, <1>4, <2>2, CountedParts DEF TreeInv, ParentsOK, DependentsCounted, Counted
  <2> QED
    BY <1>0, <1>1, <2>1, <2>2, <2>3 DEF TreeInv, ParentsOK, TypeOK
<1>10. StacksOK'
  <2>1. /\ Mine(s, c)' = Mine(s, c) \cup {a} /\ a \notin Mine(s, c)
        /\ \A b \in Mine(s, c) : b < a
        /\ Mine(s, c) \subseteq Activations
    <3>1. Mine(s, c)' = Mine(s, c) \cup {a}
      BY <1>0, <1>1 DEF Mine
    <3>2. a \notin Mine(s, c) /\ Mine(s, c) \subseteq Activations
      BY <1>0 DEF Mine
    <3>3. \A b \in Mine(s, c) : b < a
      BY <1>0 DEF TreeInv, StacksOK
    <3> QED
      BY <3>1, <3>2, <3>3
  <2>2. \A q \in Scopes \ Shared, d \in Contexts : q # s \/ d # c => Mine(q, d)' = Mine(q, d)
    BY <1>0, <1>1 DEF Mine
  <2>3. \A d \in Contexts : Does(d, "set")' => d # c /\ Does(d, "set") /\ Act(d)' = Act(d)
    BY <1>1 DEF Does, Act, Idle
  <2>4. ASSUME NEW q \in Scopes \ Shared, NEW d \in Contexts
        PROVE  /\ Newest(Mine(q, d)', contextVar'[q][d], inherited'[q][d])
               /\ \A b \in Mine(q, d)' :
                     Newest({x \in Mine(q, d)' : x < b}, token'[b].old, inherited'[q][d])
    <3>1. /\ Newest(Mine(q, d), contextVar[q][d], inherited[q][d])
          /\ \A b \in Mine(q, d) :
                Newest({x \in Mine(q, d) : x < b}, token[b].old, inherited[q][d])
      BY DEF TreeInv, StacksOK
    <3>2. CASE q # s \/ d # c
      <4>1. /\ Mine(q, d)' = Mine(q, d) /\ inherited' = inherited
            /\ contextVar'[q][d] = contextVar[q][d]
            /\ \A b \in Mine(q, d) : token'[b] = token[b]
        BY <1>0, <1>1, <2>2, <3>2 DEF Mine
      <4> QED
        BY <3>1, <4>1, Zenon
    <3>3. CASE q = s /\ d = c
      <4>1. Newest(Mine(q, d)', contextVar'[q][d], inherited'[q][d])
        BY <1>0, <1>1, <2>1, <3>3 DEF Newest, Activations
      <4>2. ASSUME NEW b \in Mine(q, d)'
            PROVE  Newest({x \in Mine(q, d)' : x < b}, token'[b].old, inherited'[q][d])
        <5>1. CASE b = a
          <6>1. {x \in Mine(q, d)' : x < b} = Mine(q, d)
            BY <1>0, <2>1, <3>3, <5>1 DEF Activations
          <6>2. token'[b].old = contextVar[q][d]
            BY <1>1, <3>3, <5>1
          <6> QED
            BY <3>1, <6>1, <6>2
        <5>2. CASE b # a
          <6>1. b \in Mine(q, d) /\ token'[b] = token[b] /\ b < a
            BY <1>1, <2>1, <3>3, <5>2
          <6>2. {x \in Mine(q, d)' : x < b} = {x \in Mine(q, d) : x < b}
            BY <1>0, <2>1, <3>3, <6>1 DEF Activations
          <6> QED
            BY <3>1, <6>1, <6>2
        <5> QED
          BY <5>1, <5>2
      <4> QED
        BY <4>1, <4>2
    <3> QED
      BY <3>2, <3>3
  <2>5. ASSUME NEW q \in Scopes \ Shared, NEW d \in Contexts
        PROVE  /\ Does(d, "set")' => \A b \in Mine(q, d)' : b < Act(d)'
               /\ Mine(q, d)' # {} => d \in started'
    BY <1>0, <2>1, <2>2, <2>3 DEF TreeInv, StacksOK
  <2> QED
    BY <2>4, <2>5 DEF StacksOK, Newest
<1> QED
  BY <1>5, <1>6, <1>7, <1>8, <1>9, <1>10 DEF TreeInv

LEMMA SetVarInv ==
    ASSUME TreeInv, NEW c \in Contexts, SetVar(c)
    PROVE  TreeInv'
<1>0. /\ Does(c, "set") /\ ~Does(c, "idle") /\ Act(c) \in Activations /\ phase[Act(c)] = "new"
      /\ work[c] \in Work /\ c \in started /\ Act(c) \notin twice
  BY WorkTypes DEF SetVar, WorkerOK, Does, Begins
<1>1. scopeOf[Act(c)] \in Scopes
  BY <1>0 DEF TreeInv, BornOK
<1>2. CASE scopeOf[Act(c)] \in Shared /\ Occupied(scopeOf[Act(c)])
  <2>1. CASE parentOf[Act(c)] = None
    BY <1>0, <1>2, <2>1, OverInv DEF SetVar, places, births, Does
  <2>2. CASE parentOf[Act(c)] # None
    <3> DEFINE w == [work[c] EXCEPT !.pc = "unwind"]
    <3>1. work' = [work EXCEPT ![c] = w] /\ UNCHANGED <<started, places, births, phase, count,
                                                        emptied, tokens, twice>>
      BY <1>2, <2>2 DEF SetVar, Go, places, births
    <3>2. w \in Work /\ w.pc = "unwind" /\ w.act = Act(c)
      BY <1>0 DEF Work, PCs, Act
    <3> HIDE DEF w
    <3>3. work'[c] = w
      BY <3>1 DEF TreeInv, TypeOK
    <3>4. WorkerOK(c)'
      BY <1>0, <2>2, <3>1, <3>2, <3>3 DEF WorkerOK, Does, Act, births, Begins
    <3> QED
      BY <1>0, <3>1, <3>2, <3>4, MovesInv DEF Begins, Does, TreeInv, TypeOK
  <2> QED
    BY <2>1, <2>2
<1>3. CASE scopeOf[Act(c)] \in Shared /\ ~Occupied(scopeOf[Act(c)])
  BY <1>0, <1>3, SetSharedInv DEF SetVar, births
<1>4. CASE scopeOf[Act(c)] \notin Shared
  BY <1>0, <1>1, <1>4, SetContextInv DEF SetVar, births
<1> QED
  BY <1>2, <1>3, <1>4

\* What a scope finds of the scope it requires is open while it is live.
LEMMA LiveIsOpen ==
    ASSUME TreeInv, NEW s \in Scopes, NEW c \in Contexts, Live(Current(s, c))
    PROVE  /\ Current(s, c) \in Activations /\ scopeOf[Current(s, c)] = s
           /\ phase[Current(s, c)] = "open" /\ Current(s, c) \notin emptied
<1>1. CASE s \in Shared
  BY <1>1 DEF TreeInv, TypeOK, VarsOK, BornOK, Live, Current
<1>2. CASE s \notin Shared
  BY <1>2 DEF TreeInv, TypeOK, VarsOK, BornOK, Live, Current, Found
<1> QED
  BY <1>1, <1>2

LEMMA BeginActivateInv ==
    ASSUME TreeInv, NEW c \in Contexts, NEW s \in Scopes, BeginActivate(c, s)
    PROVE  TreeInv'
<1> DEFINE found == IF Requires[s] = None THEN None ELSE Current(Requires[s], c)
<1>0. PICK p \in Activations \cup {None}, a \in Activations :
         /\ p = found
         /\ phase[a] = "none" /\ \A b \in Activations : b < a => phase[b] # "none"
         /\ phase' = [phase EXCEPT ![a] = "new"]
         /\ scopeOf' = [scopeOf EXCEPT ![a] = s]
         /\ parentOf' = [parentOf EXCEPT ![a] = p]
         /\ work' = [work EXCEPT ![c] = [pc |-> "set", act |-> a]]
         /\ CountOn(p)
  <2>1. found \in Activations \cup {None}
    BY ScopesAssumption DEF TreeInv, TypeOK, Current
  <2> QED
    BY <2>1 DEF BeginActivate
<1>1. /\ c \in started /\ work[c].pc = "idle"
      /\ UNCHANGED <<started, places, emptied, tokens, twice>>
      /\ p # None => Requires[s] # None /\ phase[p] = "open" /\ p \notin emptied
  <2>1. Requires[s] # None => Requires[s] \in Scopes /\ Live(Current(Requires[s], c))
    BY ScopesAssumption DEF BeginActivate
  <2>2. p # None => Requires[s] # None /\ phase[p] = "open" /\ p \notin emptied
    BY <1>0, <2>1, LiveIsOpen
  <2> QED
    BY <2>2 DEF BeginActivate, Does, places
<1>2. /\ phase'[a] = "new" /\ scopeOf'[a] = s /\ parentOf'[a] = p
      /\ \A b \in Activations \ {a} :
            phase'[b] = phase[b] /\ scopeOf'[b] = scopeOf[b] /\ parentOf'[b] = parentOf[b]
      /\ work'[c] = [pc |-> "set", act |-> a]
      /\ \A d \in Contexts \ {c} : work'[d] = work[d]
  BY <1>0 DEF TreeInv, TypeOK
<1> HIDE DEF found
<1>3. /\ ~Held(a) /\ Held(a)'
      /\ \A b \in Activations \ {a} : (Held(b)' <=> Held(b)) /\ parentOf'[b] = parentOf[b]
  BY <1>0, <1>2 DEF Held
<1>a. \A b \in twice : b # a
  BY <1>0 DEF TreeInv, ParentsOK
<1>4. Counted' /\ count' \in [Activations -> Int]
  BY <1>0, <1>1, <1>2, <1>3, <1>a, CountedParts, DependentGained DEF TreeInv, ParentsOK
<1>5. TypeOK'
  <2>1. work' \in [Contexts -> Work]
    BY <1>0 DEF TreeInv, TypeOK, Work, PCs
  <2>2. /\ phase' \in [Activations -> Phases] /\ scopeOf' \in [Activations -> Scopes \cup {None}]
        /\ parentOf' \in [Activations -> Activations \cup {None}]
    BY <1>0 DEF TreeInv, TypeOK, Phases
  <2> QED
    BY <1>1, <1>4, <2>1, <2>2 DEF TreeInv, TypeOK, places
<1>6. BornOK'
  BY <1>0, <1>1, <1>2 DEF TreeInv, BornOK, places, Activations
<1>7. VarsOK'
  <2>1. \A q \in Shared : sharedVar[q] # None =>
           scopeOf'[sharedVar[q]] = q /\ phase'[sharedVar[q]] = "open"
    BY <1>0, <1>2, ScopesAssumption DEF TreeInv, VarsOK, TypeOK
  <2>2. SharedOnce'
    BY <1>0, <1>1, <1>2 DEF TreeInv, VarsOK, SharedOnce, places
  <2>3. \A b \in Activations : scopeOf'[b] \in Scopes \ Shared => Found(scopeOf[b], token[b].old)'
    <3> SUFFICES ASSUME NEW b \in Activations, scopeOf'[b] \in Scopes \ Shared
                 PROVE  Found(scopeOf[b], token[b].old)'
      OBVIOUS
    <3>1. CASE b = a
      BY <1>0, <1>1, <3>1 DEF TreeInv, BornOK, Found, places
    <3>2. CASE b # a
      <4>1. Found(scopeOf[b], token[b].old)
        BY <1>2, <3>2 DEF TreeInv, VarsOK
      <4>2. Found(scopeOf[b], token[b].old)'
        BY <1>0, <1>1, <1>2, <3>2, <4>1 DEF TreeInv, TypeOK, BornOK, Found, places
      <4> QED
        BY <4>2
    <3> QED
      BY <3>1, <3>2
  <2>4. \A q \in Scopes \ Shared, d \in Contexts :
           Found(q, contextVar[q][d])' /\ Found(q, inherited[q][d])'
    <3> SUFFICES ASSUME NEW q \in Scopes \ Shared, NEW d \in Contexts
                 PROVE  Found(q, contextVar[q][d])' /\ Found(q, inherited[q][d])'
      OBVIOUS
    <3>1. Found(q, contextVar[q][d]) /\ Found(q, inherited[q][d])
      BY DEF TreeInv, VarsOK
    <3>2. contextVar' = contextVar /\ inherited' = inherited
      BY <1>1 DEF places
    <3> QED
      BY <1>0, <1>1, <1>2, <3>1, <3>2 DEF TreeInv, TypeOK, BornOK, Found
  <2>5. sharedVar' = sharedVar
    BY <1>1 DEF places
  <2> QED
    BY <2>1, <2>2, <2>3, <2>4, <2>5 DEF VarsOK
<1>8. WorkOK'
  <2>1. ASSUME NEW d \in Contexts \ {c} PROVE WorkerOK(d)' /\ (Begins(d) => Act(d) # a)
    <3>1. WorkerOK(d) /\ work[d] \in Work
      BY DEF TreeInv, WorkOK, TypeOK
    <3>2. Begins(d) \/ Ends(d) => Act(d) # a
      BY <1>0, <3>1 DEF WorkerOK, Does, Begins, Ends
    <3> QED
      BY <1>0, <1>1, <1>2, <3>1, <3>2 DEF WorkerOK, Does, Act, Begins, Ends, Work, PCs
  <2>2. WorkerOK(c)'
    BY <1>1, <1>2, <1>a DEF WorkerOK, Does, Act, Begins, TreeInv, ParentsOK
  <2>3. Exclusive'
    <3>1. ASSUME NEW d \in Contexts, NEW e \in Contexts, d # e,
                 (Begins(d)' /\ Begins(e)') \/ (Ends(d)' /\ Ends(e)')
          PROVE  Act(d)' # Act(e)'
      <4>1. CASE d # c /\ e # c
        <5>1. (Begins(d) /\ Begins(e)) \/ (Ends(d) /\ Ends(e))
          BY <1>2, <3>1, <4>1 DEF Begins, Ends
        <5>2. Act(d) # Act(e)
          BY <3>1, <5>1 DEF TreeInv, WorkOK, Exclusive
        <5> QED
          BY <1>2, <4>1, <5>2 DEF Act
      <4>2. CASE d = c \/ e = c
        BY <1>2, <2>1, <3>1, <4>2 DEF Begins, Ends, Act
      <4> QED
        BY <4>1, <4>2
    <3> QED
      BY <3>1, Zenon DEF Exclusive
  <2> QED
    BY <2>1, <2>2, <2>3 DEF WorkOK
<1>9. ParentsOK'
  <2>1. ParentOutlivesDependents'
    <3>1. \A q : Surplus(q)' = Surplus(q)
      BY <1>1, <1>2, <1>a DEF Surplus, TreeInv, TypeOK
    <3> SUFFICES ASSUME NEW b \in Activations, Held(b)', parentOf'[b] # None,
                        Surplus(parentOf[b])' = {}
                 PROVE  phase'[parentOf'[b]] = "open" /\ parentOf'[b] \notin emptied'
      BY DEF ParentOutlivesDependents
    <3>2. CASE b = a
      BY <1>0, <1>1, <1>2, <3>2
    <3>3. CASE b # a
      <4>1. Held(b) /\ parentOf'[b] = parentOf[b] /\ parentOf[b] \in Activations
        BY <1>2, <1>3, <3>3 DEF TreeInv, TypeOK
      <4>2. Surplus(parentOf[b]) = {}
        BY <3>1, <4>1
      <4>3. phase[parentOf[b]] = "open" /\ parentOf[b] \notin emptied
        BY <4>1, <4>2 DEF TreeInv, ParentsOK, ParentOutlivesDependents
      <4> QED
        BY <1>0, <1>1, <1>2, <4>1, <4>3
    <3> QED
      BY <3>2, <3>3
  <2>2. DependentsCounted'
    BY <1>1, <1>2, <1>4, <1>a, CountedParts
       DEF TreeInv, TypeOK, ParentsOK, DependentsCounted, Counted
  <2>3. \A b \in twice : parentOf'[b] # None /\ phase'[b] \in {"closing", "done"}
    BY <1>2, <1>a DEF TreeInv, TypeOK, ParentsOK
  <2> QED
    BY <1>0, <1>1, <1>2, <2>1, <2>2, <2>3 DEF TreeInv, ParentsOK
<1>10. StacksOK'
  <2>1. \A q \in Scopes, d \in Contexts : Mine(q, d)' = Mine(q, d)
    BY <1>0, <1>1, <1>2 DEF Mine, places
  <2>2. \A d \in Contexts \ {c} : Does(d, "set")' => Does(d, "set") /\ Act(d)' = Act(d)
    BY <1>2 DEF Does, Act
  <2>3. \A q \in Scopes : \A b \in Mine(q, c) : b < a
    BY <1>0 DEF TreeInv, BornOK, Mine, Activations
  <2>4. Act(c)' = a
    BY <1>2 DEF Act
  <2> QED
    BY <1>1, <2>1, <2>2, <2>3, <2>4 DEF TreeInv, StacksOK, places
<1> QED
  BY <1>5, <1>6, <1>7, <1>8, <1>9, <1>10 DEF TreeInv

\* What deactivate checked before it takes the current activation away.
LEMMA Deactivates ==
    ASSUME TreeInv, NEW c \in Contexts, NEW s \in Scopes,
           NEW x \in Activations \cup {None}, BeginDeactivate(c, s, x)
    PROVE  \E a \in Activations :
              /\ a = Current(s, c) /\ scopeOf[a] = s /\ phase[a] = "open" /\ a \notin emptied
              /\ c \in started /\ work[c].pc = "idle"
              /\ Surplus(a) = {} => \A b \in Activations : Held(b) => parentOf[b] # a
              /\ UNCHANGED <<started, inherited, births, count, token, tokens, twice>>
<1>1. PICK a \in Activations :
         a = Current(s, c) /\ scopeOf[a] = s /\ phase[a] = "open" /\ a \notin emptied
  BY LiveIsOpen DEF BeginDeactivate
<1>2. /\ c \in started /\ work[c].pc = "idle" /\ ~HasDependents(a)
      /\ UNCHANGED <<started, inherited, births, count, token, tokens, twice>>
  BY <1>1 DEF BeginDeactivate, Does, births
<1>3. Surplus(a) = {} => \A b \in Activations : Held(b) => parentOf[b] # a
  BY <1>1, <1>2, CountedParts, NoneDepends DEF TreeInv, ParentsOK
<1> QED
  BY <1>1, <1>2, <1>3

LEMMA EndSharedInv ==
    ASSUME TreeInv, NEW c \in Contexts, NEW s \in Shared,
           NEW x \in Activations \cup {None}, BeginDeactivate(c, s, x)
    PROVE  TreeInv'
<1>0. s \in Scopes
  BY ScopesAssumption
<1>1. PICK a \in Activations :
         /\ a = Current(s, c) /\ scopeOf[a] = s /\ phase[a] = "open" /\ a \notin emptied
         /\ c \in started /\ work[c].pc = "idle"
         /\ Surplus(a) = {} => \A b \in Activations : Held(b) => parentOf[b] # a
         /\ UNCHANGED <<started, inherited, births, count, token, tokens, twice>>
  BY <1>0, Deactivates
<1>2. /\ sharedVar' = [sharedVar EXCEPT ![s] = None]
      /\ phase' = [phase EXCEPT ![a] = "ended"]
      /\ work' = [work EXCEPT ![c] = [pc |-> "clear", act |-> a]]
      /\ UNCHANGED <<contextVar, emptied>>
  BY <1>1 DEF BeginDeactivate
<1>3. /\ phase'[a] = "ended" /\ \A b \in Activations \ {a} : phase'[b] = phase[b]
      /\ work'[c] = [pc |-> "clear", act |-> a]
      /\ \A d \in Contexts \ {c} : work'[d] = work[d]
      /\ sharedVar'[s] = None /\ \A q \in Scopes \ {s} : sharedVar'[q] = sharedVar[q]
      /\ parentOf' = parentOf /\ scopeOf' = scopeOf /\ sharedVar[s] = a
  BY <1>0, <1>1, <1>2 DEF TreeInv, TypeOK, births, Current
<1>4. \A b \in Activations : Held(b)' <=> Held(b)
  BY <1>1, <1>3 DEF Held
<1>5. Counted'
  BY <1>1, <1>2, <1>3, <1>4, CountedParts, DependentsKept DEF TreeInv, ParentsOK
<1>a. \A q : Surplus(q)' = Surplus(q)
  BY <1>1, <1>3 DEF Surplus
<1>6. TypeOK'
  BY <1>1, <1>2 DEF TreeInv, TypeOK, births, Work, PCs, Phases
<1>7. BornOK'
  BY <1>1, <1>2, <1>3 DEF TreeInv, BornOK
<1>8. VarsOK'
  <2>1. \A q \in Shared : sharedVar'[q] # None =>
           scopeOf[sharedVar'[q]] = q /\ phase'[sharedVar'[q]] = "open"
    BY <1>1, <1>3, ScopesAssumption DEF TreeInv, VarsOK, TypeOK
  <2>2. SharedOnce'
    BY <1>1, <1>3, ScopesAssumption DEF TreeInv, VarsOK, SharedOnce, TypeOK
  <2>3. /\ \A q \in Scopes \ Shared, d \in Contexts :
              Found(q, contextVar[q][d])' /\ Found(q, inherited[q][d])'
        /\ \A b \in Activations : scopeOf[b] \in Scopes \ Shared => Found(scopeOf[b], token[b].old)'
    BY <1>1, <1>2, <1>3 DEF TreeInv, TypeOK, VarsOK, Found
  <2> QED
    BY <1>3, <2>1, <2>2, <2>3 DEF VarsOK
<1>9. WorkOK'
  <2>1. ASSUME NEW d \in Contexts \ {c} PROVE WorkerOK(d)' /\ (Ends(d) => Act(d) # a)
    <3>1. WorkerOK(d) /\ (Ends(d) => Act(d) # a)
      BY <1>1 DEF TreeInv, WorkOK, WorkerOK, Ends, Does
    <3> QED
      BY <1>1, <1>2, <1>3, <3>1 DEF WorkerOK, Does, Act, Begins, Ends, Idle
  <2>2. WorkerOK(c)'
    BY <1>1, <1>3 DEF WorkerOK, Does, Act, Begins
  <2>3. Exclusive'
    <3>1. ASSUME NEW d \in Contexts, NEW e \in Contexts, d # e,
                 (Begins(d)' /\ Begins(e)') \/ (Ends(d)' /\ Ends(e)')
          PROVE  Act(d)' # Act(e)'
      <4>1. CASE d # c /\ e # c
        <5>1. (Begins(d) /\ Begins(e)) \/ (Ends(d) /\ Ends(e))
          BY <1>3, <3>1, <4>1 DEF Begins, Ends
        <5>2. Act(d) # Act(e)
          BY <3>1, <5>1 DEF TreeInv, WorkOK, Exclusive
        <5> QED
          BY <1>3, <4>1, <5>2 DEF Act
      <4>2. CASE d = c \/ e = c
        BY <1>3, <2>1, <3>1, <4>2 DEF Begins, Ends, Act
      <4> QED
        BY <4>1, <4>2
    <3> QED
      BY <3>1, Zenon DEF Exclusive
  <2> QED
    BY <2>1, <2>2, <2>3 DEF WorkOK
<1>10. ParentsOK'
  <2>1. ParentOutlivesDependents'
    BY <1>1, <1>2, <1>3, <1>4, <1>a DEF TreeInv, ParentsOK, ParentOutlivesDependents, TypeOK
  <2>2. \A b \in twice : b # a
    BY <1>1 DEF TreeInv, ParentsOK
  <2>3. DependentsCounted'
    BY <1>1, <1>2, <1>3, <1>5, CountedParts DEF TreeInv, ParentsOK, DependentsCounted, Counted
  <2> QED
    BY <1>1, <1>3, <2>1, <2>2, <2>3 DEF TreeInv, ParentsOK, TypeOK
<1>11. StacksOK'
  <2>1. \A q \in Scopes \ Shared, d \in Contexts : Mine(q, d)' = Mine(q, d)
    BY <1>1, <1>3 DEF Mine
  <2>2. \A d \in Contexts : Does(d, "set")' => Does(d, "set") /\ Act(d)' = Act(d)
    BY <1>3 DEF Does, Act
  <2> QED
    BY <1>1, <1>2, <2>1, <2>2 DEF TreeInv, StacksOK
<1> QED
  BY <1>6, <1>7, <1>8, <1>9, <1>10, <1>11 DEF TreeInv

LEMMA EndContextInv ==
    ASSUME TreeInv, NEW c \in Contexts, NEW s \in Scopes \ Shared,
           NEW x \in Activations \cup {None}, BeginDeactivate(c, s, x)
    PROVE  TreeInv'
<1>1. PICK a \in Activations :
         /\ a = Current(s, c) /\ scopeOf[a] = s /\ phase[a] = "open" /\ a \notin emptied
         /\ c \in started /\ work[c].pc = "idle"
         /\ Surplus(a) = {} => \A b \in Activations : Held(b) => parentOf[b] # a
         /\ UNCHANGED <<started, inherited, births, count, token, tokens, twice>>
  BY Deactivates
<1>2. /\ contextVar' = [contextVar EXCEPT ![s][c] = token[a].old] /\ token[a].ctx = c
      /\ phase' = [phase EXCEPT ![a] = "closing"]
      /\ emptied' = emptied \cup {a}
      /\ work' = [work EXCEPT ![c] = [pc |-> "close", act |-> a]]
      /\ UNCHANGED sharedVar
  BY <1>1 DEF BeginDeactivate, Restored
<1>3. /\ phase'[a] = "closing" /\ \A b \in Activations \ {a} : phase'[b] = phase[b]
      /\ work'[c] = [pc |-> "close", act |-> a]
      /\ \A d \in Contexts \ {c} : work'[d] = work[d]
      /\ contextVar'[s][c] = token[a].old /\ contextVar[s][c] = a
      /\ \A q \in Scopes, d \in Contexts : q # s \/ d # c => contextVar'[q][d] = contextVar[q][d]
      /\ parentOf' = parentOf /\ scopeOf' = scopeOf
  BY <1>1, <1>2 DEF TreeInv, TypeOK, births, Current
<1>4. \A b \in Activations : Held(b)' <=> Held(b)
  BY <1>1, <1>3 DEF Held
<1>5. Counted'
  BY <1>1, <1>2, <1>3, <1>4, CountedParts, DependentsKept DEF TreeInv, ParentsOK
<1>a. \A q : Surplus(q)' = Surplus(q)
  BY <1>1, <1>3 DEF Surplus
<1>6. TypeOK'
  <2>1. work' \in [Contexts -> Work] /\ phase' \in [Activations -> Phases]
    BY <1>1, <1>2 DEF TreeInv, TypeOK, Work, PCs, Phases
  <2>2. token[a].old \in Activations \cup {None}
    BY DEF TreeInv, TypeOK
  <2> QED
    BY <1>1, <1>2, <2>1, <2>2 DEF TreeInv, TypeOK, births
<1>7. BornOK'
  BY <1>1, <1>2, <1>3 DEF TreeInv, BornOK
<1>8. VarsOK'
  <2>1. \A q \in Shared : sharedVar[q] # None =>
           scopeOf[sharedVar[q]] = q /\ phase'[sharedVar[q]] = "open"
    BY <1>1, <1>3, ScopesAssumption DEF TreeInv, VarsOK, TypeOK
  <2>2. SharedOnce'
    BY <1>1, <1>2, <1>3 DEF TreeInv, VarsOK, SharedOnce
  <2>3. ASSUME NEW q \in Scopes, NEW b \in Activations \cup {None}, Found(q, b)
        PROVE  b # None => scopeOf'[b] = q /\ (phase'[b] = "open" \/ b \in emptied')
    BY <1>1, <1>2, <1>3, <2>3 DEF Found
  <2>4. ASSUME NEW q \in Scopes \ Shared, NEW d \in Contexts
        PROVE  Found(q, contextVar[q][d])' /\ Found(q, inherited[q][d])'
    <3>1. /\ Found(q, contextVar[q][d]) /\ Found(q, inherited[q][d]) /\ Found(s, token[a].old)
          /\ contextVar[q][d] \in Activations \cup {None} /\ token[a].old \in Activations \cup {None}
          /\ inherited[q][d] \in Activations \cup {None}
      BY <1>1 DEF TreeInv, VarsOK, TypeOK
    <3>2. contextVar'[q][d] = (IF q = s /\ d = c THEN token[a].old ELSE contextVar[q][d])
          /\ inherited'[q][d] = inherited[q][d]
      BY <1>1, <1>3
    <3> QED
      BY <2>3, <3>1, <3>2 DEF Found
  <2>5. ASSUME NEW b \in Activations, scopeOf[b] \in Scopes \ Shared
        PROVE  Found(scopeOf[b], token[b].old)'
    <3>1. Found(scopeOf[b], token[b].old) /\ token[b].old \in Activations \cup {None}
      BY <2>5 DEF TreeInv, VarsOK, TypeOK
    <3> QED
      BY <1>1, <1>3, <2>3, <2>5, <3>1 DEF Found
  <2> QED
    BY <1>2, <1>3, <2>1, <2>2, <2>4, <2>5 DEF VarsOK
<1>9. WorkOK'
  <2>1. ASSUME NEW d \in Contexts \ {c} PROVE WorkerOK(d)' /\ (Ends(d) => Act(d) # a)
    <3>1. WorkerOK(d) /\ (Ends(d) => Act(d) # a)
      BY <1>1 DEF TreeInv, WorkOK, WorkerOK, Ends, Does
    <3> QED
      BY <1>1, <1>2, <1>3, <3>1 DEF WorkerOK, Does, Act, Begins, Ends, Idle
  <2>2. WorkerOK(c)'
    BY <1>1, <1>3 DEF WorkerOK, Does, Act, Begins
  <2>3. Exclusive'
    <3>1. ASSUME NEW d \in Contexts, NEW e \in Contexts, d # e,
                 (Begins(d)' /\ Begins(e)') \/ (Ends(d)' /\ Ends(e)')
          PROVE  Act(d)' # Act(e)'
      <4>1. CASE d # c /\ e # c
        <5>1. (Begins(d) /\ Begins(e)) \/ (Ends(d) /\ Ends(e))
          BY <1>3, <3>1, <4>1 DEF Begins, Ends
        <5>2. Act(d) # Act(e)
          BY <3>1, <5>1 DEF TreeInv, WorkOK, Exclusive
        <5> QED
          BY <1>3, <4>1, <5>2 DEF Act
      <4>2. CASE d = c \/ e = c
        BY <1>3, <2>1, <3>1, <4>2 DEF Begins, Ends, Act
      <4> QED
        BY <4>1, <4>2
    <3> QED
      BY <3>1, Zenon DEF Exclusive
  <2> QED
    BY <2>1, <2>2, <2>3 DEF WorkOK
<1>10. ParentsOK'
  <2>1. ParentOutlivesDependents'
    BY <1>1, <1>2, <1>3, <1>4, <1>a DEF TreeInv, ParentsOK, ParentOutlivesDependents, TypeOK
  <2>2. \A b \in twice : b # a
    BY <1>1 DEF TreeInv, ParentsOK
  <2>3. DependentsCounted'
    BY <1>1, <1>2, <1>3, <1>5, CountedParts DEF TreeInv, ParentsOK, DependentsCounted, Counted
  <2> QED
    BY <1>1, <1>3, <2>1, <2>2, <2>3 DEF TreeInv, ParentsOK, TypeOK
<1>11. StacksOK'
  <2>1. a \in Mine(s, c)
    BY <1>1, <1>2 DEF Mine
  <2>2. /\ Mine(s, c)' = Mine(s, c) \ {a} /\ Mine(s, c) \subseteq Activations
        /\ \A b \in Mine(s, c) : b <= a
        /\ Newest({b \in Mine(s, c) : b < a}, token[a].old, inherited[s][c])
    <3>1. Mine(s, c)' = Mine(s, c) \ {a} /\ Mine(s, c) \subseteq Activations
      BY <1>1, <1>3 DEF Mine
    <3>2. /\ Newest(Mine(s, c), a, inherited[s][c])
          /\ Newest({b \in Mine(s, c) : b < a}, token[a].old, inherited[s][c])
      BY <1>3, <2>1 DEF TreeInv, StacksOK
    <3> QED
      BY <2>1, <3>1, <3>2 DEF Newest
  <2>3. \A q \in Scopes \ Shared, d \in Contexts : q # s \/ d # c => Mine(q, d)' = Mine(q, d)
    BY <1>1, <1>2, <1>3 DEF Mine
  <2>4. \A d \in Contexts : Does(d, "set")' => d # c /\ Does(d, "set") /\ Act(d)' = Act(d)
    BY <1>3 DEF Does, Act
  <2>5. ASSUME NEW q \in Scopes \ Shared, NEW d \in Contexts
        PROVE  /\ Newest(Mine(q, d)', contextVar'[q][d], inherited'[q][d])
               /\ \A b \in Mine(q, d)' :
                     Newest({y \in Mine(q, d)' : y < b}, token'[b].old, inherited'[q][d])
    <3>1. /\ Newest(Mine(q, d), contextVar[q][d], inherited[q][d])
          /\ \A b \in Mine(q, d) :
                Newest({y \in Mine(q, d) : y < b}, token[b].old, inherited[q][d])
      BY DEF TreeInv, StacksOK
    <3>2. CASE q # s \/ d # c
      <4>1. /\ Mine(q, d)' = Mine(q, d) /\ inherited' = inherited /\ token' = token
            /\ contextVar'[q][d] = contextVar[q][d]
        BY <1>1, <1>3, <2>3, <3>2
      <4> QED
        BY <3>1, <4>1, Zenon
    <3>3. CASE q = s /\ d = c
      <4>1. {b \in Mine(s, c) : b < a} = Mine(q, d)'
        BY <2>2, <3>3 DEF Activations
      <4>2. Newest(Mine(q, d)', contextVar'[q][d], inherited'[q][d])
        BY <1>1, <1>3, <2>2, <3>3, <4>1
      <4>3. ASSUME NEW b \in Mine(q, d)'
            PROVE  Newest({y \in Mine(q, d)' : y < b}, token'[b].old, inherited'[q][d])
        <5>1. b \in Mine(q, d) /\ b <= a /\ b # a
          BY <2>2, <3>3, <4>3
        <5>2. {y \in Mine(q, d)' : y < b} = {y \in Mine(q, d) : y < b}
          BY <2>2, <3>3, <5>1 DEF Activations
        <5> QED
          BY <1>1, <3>1, <5>1, <5>2
      <4> QED
        BY <4>2, <4>3
    <3> QED
      BY <3>2, <3>3
  <2>6. ASSUME NEW q \in Scopes \ Shared, NEW d \in Contexts
        PROVE  /\ Does(d, "set")' => \A b \in Mine(q, d)' : b < Act(d)'
               /\ Mine(q, d)' # {} => d \in started'
    BY <1>1, <2>2, <2>3, <2>4 DEF TreeInv, StacksOK
  <2> QED
    BY <2>5, <2>6 DEF StacksOK, Newest
<1> QED
  BY <1>6, <1>7, <1>8, <1>9, <1>10, <1>11 DEF TreeInv

LEMMA TreeNext == TreeInv /\ [Next]_vars => TreeInv'
<1> SUFFICES ASSUME TreeInv, [Next]_vars PROVE TreeInv'
  OBVIOUS
<1>1. CASE UNCHANGED vars
  <2>1. \A s \in Scopes, d \in Contexts : Mine(s, d)' = Mine(s, d)
    BY <1>1 DEF vars, Mine
  <2>2. StacksOK'
    BY <1>1, <2>1 DEF vars, TreeInv, StacksOK, Does, Act
  <2>3. ParentsOK'
    BY <1>1 DEF vars, TreeInv, ParentsOK, ParentOutlivesDependents, DependentsCounted, Dependents,
                Held, Surplus
  <2> QED
    BY <1>1, <2>2, <2>3 DEF vars, TreeInv, TypeOK, BornOK, VarsOK, SharedOnce, Found, WorkOK,
       WorkerOK, Exclusive, Begins, Ends, Does, Act
<1>2. ASSUME NEW c \in Contexts, NEW s \in Scopes, NEW x \in Activations \cup {None},
             BeginDeactivate(c, s, x)
      PROVE  TreeInv'
  BY <1>2, EndSharedInv, EndContextInv
<1>3. CASE Next
  BY <1>2, <1>3, StartInv, ForkInv, BeginActivateInv, SetVarInv, StoreTokenInv, ClearInv, ClosedInv,
     ReleaseInv DEF Next
<1> QED
  BY <1>1, <1>3

LEMMA TreeInit == Init => TreeInv
<1> SUFFICES ASSUME Init PROVE TreeInv
  OBVIOUS
<1>1. TypeOK
  BY DEF Init, TypeOK, Phases, Work, PCs, Idle, NoToken
<1>2. \A p : Dependents(p) = {} /\ Surplus(p) = {}
  BY DEF Init, Dependents, Held, Surplus
<1>3. ParentsOK
  BY <1>2, FS_EmptySet DEF Init, ParentsOK, ParentOutlivesDependents, DependentsCounted, Held
<1>4. \A s \in Scopes, c \in Contexts : Mine(s, c) = {}
  BY DEF Init, Mine
<1>5. StacksOK
  BY <1>4 DEF Init, StacksOK, Newest, Does, Idle
<1>6. BornOK /\ VarsOK
  BY ScopesAssumption DEF Init, BornOK, VarsOK, SharedOnce, Found, NoToken
<1>7. WorkOK
  BY DEF Init, WorkOK, WorkerOK, Exclusive, Begins, Ends, Does, Act, Idle
<1> QED
  BY <1>1, <1>3, <1>5, <1>6, <1>7 DEF TreeInv

-----------------------------------------------------------------------------
(* The theorems                                                            *)

\* Every step of activate(), deactivate() and of a copied context keeps the inductive invariant.
THEOREM TreeInvariant == Spec => []TreeInv
BY TreeInit, TreeNext, PTL DEF Spec

\* Type correctness.
THEOREM TypeCorrect == Spec => []TypeOK
<1>1. TreeInv => TypeOK
  BY DEF TreeInv
<1> QED
  BY <1>1, TreeInvariant, PTL

\* Whatever threads do meanwhile, the parent activation is neither ended nor emptied before
\* the last activation begun under it has closed its last resource - unless another thread
\* ended one of those before its activate() returned.
THEOREM ParentsOutlive == Spec => []ParentOutlivesDependents
<1>1. TreeInv => ParentOutlivesDependents
  BY DEF TreeInv, ParentsOK
<1> QED
  BY <1>1, TreeInvariant, PTL

\* Until an activation's storage is emptied, its count is that of the dependents under way
\* less those given back twice; and those are activations of shared scopes that another
\* thread ended before their activate() could return.
THEOREM CountsExact == Spec => []DependentsCounted
<1>1. TreeInv => DependentsCounted
  BY DEF TreeInv, ParentsOK
<1> QED
  BY <1>1, TreeInvariant, PTL

\* A shared scope shows its one live activation; nested ones of a context scope end innermost
\* first, each giving back the one it found, also in contexts that were copied meanwhile.
THEOREM NestingRespected == Spec => []InnermostFirst
<1>1. TreeInv => InnermostFirst
  <2> SUFFICES ASSUME TreeInv PROVE InnermostFirst
    OBVIOUS
  <2>1. SharedOnce
    BY DEF TreeInv, VarsOK
  <2>2. \A s \in Scopes \ Shared, c \in Contexts :
           Newest(Mine(s, c), contextVar[s][c], inherited[s][c])
    BY DEF TreeInv, StacksOK
  <2> QED
    BY <2>1, <2>2 DEF InnermostFirst, Newest, Mine
<1> QED
  BY <1>1, TreeInvariant, PTL

-----------------------------------------------------------------------------
(* The refinement                                                          *)

stages == [a \in Activations |-> Stage(a)]
left == {parentOf[a] : a \in twice}

\* Nothing is under way beneath an activation that is not open, or that nothing counts on,
\* unless it was deserted.
LEMMA StandsAlone ==
    ASSUME TreeInv, NEW a \in Activations,
           phase[a] # "open" \/ (Surplus(a) = {} => \A b \in Activations : Held(b) => parentOf[b] # a)
    PROVE  Tree!MayEnd(a)
<1>1. CASE Surplus(a) # {}
  BY <1>1 DEF Surplus, Tree!MayEnd
<1>2. CASE Surplus(a) = {}
  <2>1. \A b \in Activations : parentOf[b] = a => ~Held(b)
    BY <1>2, ScopesAssumption DEF TreeInv, ParentsOK, ParentOutlivesDependents
  <2>2. \A b \in Activations : ~Held(b) => stages[b] \in {"unborn", "over"}
    BY DEF TreeInv, TypeOK, Phases, Held, stages, Stage
  <2> QED
    BY <2>1, <2>2 DEF Tree!Alone, Tree!MayEnd, stages
<1> QED
  BY <1>1, <1>2

\* One activation changes its stage, or none does.
LEMMA StageMoves ==
    ASSUME TreeInv, NEW a \in Activations, NEW p, phase' = [phase EXCEPT ![a] = p]
    PROVE  /\ p \in {"new", "open"} => stages' = [stages EXCEPT ![a] = "open"]
           /\ p \in {"ended", "closing"} => stages' = [stages EXCEPT ![a] = "closing"]
           /\ p = "done" => stages' = [stages EXCEPT ![a] = "over"]
BY DEF TreeInv, TypeOK, stages, Stage

LEMMA TreeStep == TreeInv /\ [Next]_vars => [Tree!Next]_<<stages, parentOf, left>>
<1> SUFFICES ASSUME TreeInv, [Next]_vars
             PROVE  [Tree!Next]_<<stages, parentOf, left>>
  OBVIOUS
<1>0. ASSUME parentOf' = parentOf, twice' = twice PROVE left' = left
  BY <1>0 DEF left
<1>1. ASSUME phase' = phase, parentOf' = parentOf, twice' = twice
      PROVE  UNCHANGED <<stages, parentOf, left>>
  BY <1>0, <1>1 DEF stages, Stage
<1>2. ASSUME NEW a \in Activations, phase[a] \in {"new", "ended", "closing"},
             phase' = [phase EXCEPT ![a] = "done"], parentOf' = parentOf, twice' = twice
      PROVE  Tree!Next
  <2>1. stages[a] \in {"open", "closing"} /\ Tree!MayEnd(a) /\ left' = left
    BY <1>0, <1>2, StandsAlone DEF stages, Stage
  <2>2. Tree!BeOver(a)
    BY <1>2, <2>1, StageMoves DEF Tree!BeOver, stages, left
  <2> QED
    BY <2>2 DEF Tree!Next
<1>3. ASSUME NEW c \in Contexts, NEW d \in Contexts,
             Start(c) \/ Fork(c, d) \/ StoreToken(c)
      PROVE  UNCHANGED <<stages, parentOf, left>>
  BY <1>1, <1>3 DEF Start, Fork, StoreToken
<1>4. ASSUME NEW c \in Contexts, NEW s \in Scopes, BeginActivate(c, s) PROVE Tree!Next
  <2>0. PICK p \in Activations \cup {None} :
           /\ p = IF Requires[s] = None THEN None ELSE Current(Requires[s], c)
           /\ p # None => phase[p] = "open"
    <3>1. CASE Requires[s] = None
      BY <3>1
    <3>2. CASE Requires[s] # None
      <4>1. Requires[s] \in Scopes /\ Live(Current(Requires[s], c))
        BY <1>4, <3>2, ScopesAssumption DEF BeginActivate
      <4> QED
        BY <3>2, <4>1, LiveIsOpen
    <3> QED
      BY <3>1, <3>2
  <2>1. PICK a \in Activations :
           /\ phase[a] = "none" /\ phase' = [phase EXCEPT ![a] = "new"]
           /\ parentOf' = [parentOf EXCEPT ![a] = p] /\ twice' = twice
    BY <1>4, <2>0 DEF BeginActivate
  <2>2. stages[a] = "unborn" /\ (p # None => stages[p] = "open")
    BY <2>0, <2>1 DEF stages, Stage
  <2>3. left' = left
    <3>1. \A b \in twice : b # a /\ b \in Activations
      BY <2>1 DEF TreeInv, TypeOK, ParentsOK
    <3>2. \A b \in twice : parentOf'[b] = parentOf[b]
      BY <2>1, <3>1 DEF TreeInv, TypeOK
    <3> QED
      BY <2>1, <3>2 DEF left
  <2>4. Tree!Begin(a, p)
    BY <2>1, <2>2, <2>3, StageMoves DEF Tree!Begin, stages, left
  <2> QED
    BY <2>4 DEF Tree!Next
<1>5. ASSUME NEW c \in Contexts, SetVar(c) PROVE [Tree!Next]_<<stages, parentOf, left>>
  <2>1. Act(c) \in Activations /\ phase[Act(c)] = "new" /\ UNCHANGED <<parentOf, twice>>
    BY <1>5, WorkTypes DEF SetVar, WorkerOK, Does
  <2>2. CASE phase' = [phase EXCEPT ![Act(c)] = "open"]
    <3>1. stages' = stages
      BY <2>1, <2>2 DEF stages, Stage, TreeInv, TypeOK
    <3> QED
      BY <1>0, <2>1, <3>1
  <2>3. CASE phase' = phase
    BY <1>1, <2>1, <2>3
  <2>4. CASE phase' = [phase EXCEPT ![Act(c)] = "done"]
    BY <1>2, <2>1, <2>4
  <2> QED
    BY <1>5, <2>2, <2>3, <2>4 DEF SetVar
<1>6. ASSUME NEW c \in Contexts, NEW s \in Scopes, NEW x \in Activations \cup {None},
             BeginDeactivate(c, s, x)
      PROVE  Tree!Next
  <2>1. PICK a \in Activations :
           /\ a = Current(s, c) /\ phase[a] = "open" /\ UNCHANGED <<births, twice>>
           /\ Surplus(a) = {} => \A b \in Activations : Held(b) => parentOf[b] # a
    BY <1>6, Deactivates
  <2>2. PICK p \in {"ended", "closing"} : phase' = [phase EXCEPT ![a] = p]
    BY <1>6, <2>1 DEF BeginDeactivate
  <2>3. stages[a] = "open" /\ Tree!MayEnd(a) /\ parentOf' = parentOf /\ left' = left
    BY <1>0, <2>1, StandsAlone DEF stages, Stage, births
  <2>4. Tree!StartClosing(a)
    BY <2>2, <2>3, StageMoves DEF Tree!StartClosing, stages, left
  <2> QED
    BY <2>4 DEF Tree!Next
<1>7. ASSUME NEW c \in Contexts, Clear(c) PROVE UNCHANGED <<stages, parentOf, left>>
  <2>1. Act(c) \in Activations /\ phase[Act(c)] = "ended"
        /\ phase' = [phase EXCEPT ![Act(c)] = "closing"] /\ UNCHANGED <<parentOf, twice>>
    BY <1>7, WorkTypes DEF Clear, WorkerOK, Does
  <2> QED
    BY <1>0, <2>1 DEF stages, Stage, TreeInv, TypeOK
<1>8. ASSUME NEW c \in Contexts, Unwind(c) \/ Close(c) \/ Release(c)
      PROVE  [Tree!Next]_<<stages, parentOf, left>>
  <2>1. /\ Act(c) \in Activations /\ parentOf' = parentOf
        /\ \/ phase' = phase /\ twice' = twice
           \/ /\ phase[Act(c)] \in {"new", "closing"} /\ twice' = twice
              /\ phase' = [phase EXCEPT ![Act(c)] = "done"]
           \/ /\ phase[Act(c)] \in {"closing", "done"} /\ phase' = phase
              /\ twice' = twice \cup {Act(c)} /\ parentOf[Act(c)] \in Activations
    BY <1>8, WorkTypes DEF Unwind, Close, Release, WorkerOK, Does, TreeInv, TypeOK
  <2>2. CASE /\ phase[Act(c)] \in {"closing", "done"} /\ phase' = phase
             /\ twice' = twice \cup {Act(c)} /\ parentOf[Act(c)] \in Activations
    <3>1. PICK p \in Activations : p = parentOf[Act(c)]
      BY <2>2
    <3>2. /\ stages' = stages /\ left' = left \cup {p} /\ parentOf' = parentOf
          /\ stages[Act(c)] \in {"closing", "over"}
      BY <2>1, <2>2, <3>1 DEF stages, Stage, left
    <3>3. Tree!Desert(p)
      BY <2>1, <3>1, <3>2 DEF Tree!Desert, stages, left
    <3>4. Tree!Next
      BY <3>3 DEF Tree!Next
    <3> QED
      BY <3>4
  <2> QED
    BY <1>1, <1>2, <2>1, <2>2
<1>9. CASE UNCHANGED vars
  BY <1>1, <1>9 DEF vars
<1> QED
  BY <1>3, <1>4, <1>5, <1>6, <1>7, <1>8, <1>9 DEF Next

\* Threads, locks, tokens and copied contexts together implement the tree of activations: one
\* begins under an open parent, and closes only when all that was begun under it is over, or
\* when one of these was ended before its activate() returned.
THEOREM TreeImplemented == Spec => ImplementsTree
<1>1. Init => Tree!Init
  BY DEF Init, Tree!Init, Stage
<1>2. TreeInv /\ [Next]_vars
         => [Tree!Next]_<<[a \in Activations |-> Stage(a)], parentOf, {parentOf[a] : a \in twice}>>
  BY TreeStep DEF stages, left
<1> QED
  BY <1>1, <1>2, TreeInvariant, PTL DEF Spec, ImplementsTree, Tree!Spec
=============================================================================
