-------------------------- MODULE InjectionProofs ---------------------------
(* What holds of the decorators and the overrides of every program of         *)
(* Injection: any providers, any blocks of overrides, any threads and         *)
(* contexts.  OverridesEnd and OwnOverride follow from what the blocks in     *)
(* progress keep of the values they replaced, ResolutionSound from what a     *)
(* walk over the graph has left behind it and has still to do.                *)
EXTENDS Injection, TLAPS, FiniteSetTheorems, SequenceTheorems, WellFoundedInduction

-----------------------------------------------------------------------------
(* Types                                                                      *)

Provides == [dependency : {"raw", "resolved"}, provide : {"raw", "resolved", "override"},
             count : Nat, resolved : BOOLEAN]
Given == {Unset, Lost} \cup (Contexts \X Nat)
Block == [items : Seq(Registered), tokens : Seq(Given),
          stage : {"entering", "in", "exiting"}]
Frames == Seq([fn : Callables, at : Nat \ {0}])
Outcomes == {"none", "ok", "refused", "async", "circular"}

\* Every variable has its type, and the program is one the code can run.
TypeOK ==
  /\ program \in Configurations
  /\ provider \in [Registered -> Provides]
  /\ value \in [Contexts -> [Registered -> Given]]
  /\ blocks \in [Contexts -> Seq(Block)]
  /\ lost \in [Registered -> Nat]
  /\ stack \in [Threads -> Frames]
  /\ resolving \in [Threads -> SUBSET Callables]
  /\ outcome \in [program.roots -> Outcomes]

LEMMA Program == ASSUME TypeOK PROVE IsProgram(program)
BY ProgramsAssumption DEF TypeOK

LEMMA Parameters ==
    ASSUME TypeOK, NEW f \in Callables
    PROVE  /\ Deps(f) \in Seq(Callables) /\ Range(Deps(f)) \subseteq Registered
           /\ \A i \in 1..Len(Deps(f)) : /\ Deps(f)[i] \in Registered
                                         /\ Deps(f)[i] \in Range(Deps(f))
           /\ \A g \in Range(Deps(f)) : \E i \in 1..Len(Deps(f)) : g = Deps(f)[i]
<1>1. Deps(f) \in Seq(Callables)
  BY Program DEF IsProgram, Deps
<1>2. Range(Deps(f)) \subseteq Registered
  BY DEF Registered
<1>3. DOMAIN Deps(f) = 1..Len(Deps(f))
  BY <1>1
<1> QED
  BY <1>1, <1>2, <1>3 DEF Range

LEMMA RegisteredCallables == ASSUME TypeOK PROVE Registered \subseteq Callables
<1> SUFFICES ASSUME NEW f \in Callables PROVE Range(Deps(f)) \subseteq Callables
  BY DEF Registered
<1>1. Deps(f) \in Seq(Callables)
  BY Parameters
<1> QED
  BY <1>1 DEF Range

LEMMA Initially == ASSUME Init PROVE TypeOK
<1>1. program \in Configurations /\ IsProgram(program)
  BY ProgramsAssumption DEF Init
<1>2. provider \in [Registered -> Provides]
  BY DEF Init, NewProvider, Provides
<1>3. /\ value \in [Contexts -> [Registered -> Given]]
      /\ blocks \in [Contexts -> Seq(Block)]
  BY DEF Init, Given
<1>6. lost \in [Registered -> Nat]
  BY DEF Init
<1>4. stack \in [Threads -> Frames] /\ resolving \in [Threads -> SUBSET Callables]
  BY DEF Init, Frames
<1>5. outcome \in [program.roots -> Outcomes]
  BY DEF Init, Outcomes
<1> QED
  BY <1>1, <1>2, <1>3, <1>4, <1>5, <1>6 DEF TypeOK

-----------------------------------------------------------------------------
(* The operators                                                              *)

LEMMA WithoutLast ==
    ASSUME NEW S, NEW s \in Seq(S), s # <<>>
    PROVE  /\ Len(s) \in Nat \ {0} /\ Last(s) = s[Len(s)] /\ s[Len(s)] \in S
           /\ Front(s) \in Seq(S) /\ Len(Front(s)) = Len(s) - 1
           /\ \A i \in 1..(Len(s) - 1) : Front(s)[i] = s[i]
<1>1. Len(s) \in Nat \ {0} /\ s[Len(s)] \in S
  OBVIOUS
<1>2. PICK r : r = SubSeq(s, 1, Len(s) - 1)
  OBVIOUS
<1>3. Len(r) = Len(s) - 1 /\ r \in Seq(S) /\ \A i \in 1..(Len(s) - 1) : r[i] = s[i]
  <2>1. PICK n \in Int : n = Len(s) - 1
    BY <1>1
  <2>2. \A i \in 1..n : s[i] \in S
    BY <1>1, <2>1
  <2>3. r = SubSeq(s, 1, n) /\ r \in Seq(S)
    BY <1>2, <2>1, <2>2, SubSeqProperties
  <2>4. Len(r) = IF 1 <= n THEN n - 1 + 1 ELSE 0
    BY <2>2, <2>3, SubSeqProperties
  <2>5. \A i \in 1..(n - 1 + 1) : SubSeq(s, 1, n)[i] = s[1 + i - 1]
    BY <2>2, SubSeqProperties
  <2>6. \A i \in 1..n : r[i] = s[i]
    BY <2>1, <2>3, <2>5
  <2> QED
    BY <1>1, <2>1, <2>3, <2>4, <2>6
<1>4. Last(s) = s[Len(s)] /\ Front(s) = r
  BY <1>2 DEF Last, Front
<1> QED
  BY <1>1, <1>3, <1>4

LEMMA LastReplaced ==
    ASSUME NEW S, NEW s \in Seq(S), s # <<>>, NEW e \in S
    PROVE  LET r == [s EXCEPT ![Len(s)] = e] IN
           /\ r \in Seq(S) /\ Len(r) = Len(s) /\ r[Len(s)] = e
           /\ \A i \in 1..Len(s) : i # Len(s) => r[i] = s[i]
OBVIOUS

\* A set of numbers up to a bound has a greatest one.
LEMMA Greatest ==
    ASSUME NEW k \in Nat, NEW E, E \subseteq 1..k, E # {}
    PROVE  \E n \in E : \A m \in E : m <= n
<1> DEFINE T == {i \in Nat : k - i \in E}
<1>1. PICK n \in E : TRUE
  OBVIOUS
<1>2. k - n \in T
  BY <1>1
<1>3. PICK i \in T : \A j \in T : ~(<<j, i>> \in OpToRel(<, Nat))
  BY <1>2, NatLessThanWellFounded, WFMin
<1>4. \A j \in T : ~(j < i)
  BY <1>3 DEF OpToRel
<1>5. \A m \in E : k - m \in T /\ m <= k - i
  BY <1>4
<1> QED
  BY <1>5

-----------------------------------------------------------------------------
(* What the proofs strengthen the properties to                               *)

\* A block keeps the token of every override it has entered, and no callable is
\* overridden twice by one block.
Enters(b) == /\ IsInjective(b.items) /\ Len(b.tokens) <= Len(b.items)
             /\ b.stage = "entering" => Len(b.tokens) < Len(b.items)
             /\ b.stage # "entering" => b.tokens # <<>>
BlocksOK ==
  \A c \in Contexts : /\ \A n \in 1..Len(blocks[c]) : Enters(blocks[c][n])
                      /\ blocks[c] # <<>> => c \in alive

\* The count of a provider is the number of the overrides of it that are held or
\* lost, and what it provides follows from the count, unless an entry was cut
\* before it counted.
Counted(p) ==
  /\ IsFiniteSet(Held(p)) /\ provider[p].count = Cardinality(Held(p)) + lost[p]
  /\ provider[p].count # 0 => provider[p].provide = "override"
  /\ provider[p].provide # "override" => provider[p].provide = provider[p].dependency
  /\ provider[p].count = 0 /\ p \notin torn => provider[p].provide = provider[p].dependency
CountsOK == \A p \in Registered : Counted(p)

\* n is the greatest of the numbers E, if there is one.
IsGreatest(n, E) == n \in E /\ \A m \in E : m <= n

\* The blocks of c below the one at depth m that have entered an override of p.
Below(c, p, m) == {k \in EnteredAt(c, p) : k < m}

\* What context c sees of p, and what it will see again when it leaves a block,
\* is what the innermost of its blocks, or of those below, has set, or what an
\* interrupted entry left.
ValuesOK ==
  \A c \in Contexts :
    /\ \A p \in Registered : \A n \in EnteredAt(c, p) :
         IsGreatest(n, EnteredAt(c, p)) => value[c][p] \in {<<c, n>>, Lost}
    /\ \A m \in 1..Len(blocks[c]) : \A i \in 1..Len(blocks[c][m].tokens), p \in Registered :
         p = blocks[c][m].items[i] =>
           \A n \in 1..m : IsGreatest(n, Below(c, p, m))
                             => blocks[c][m].tokens[i] \in {<<c, n>>, Lost}

OverridingInv == BlocksOK /\ CountsOK /\ ValuesOK

\* What a walk has behind it: parameters that are resolved and have no default,
\* of callables that are not refused.
Behind(s) ==
  \A i \in 1..Len(s) :
    /\ s[i].at <= Len(Deps(s[i].fn)) + 1
    /\ i < Len(s) => s[i].at <= Len(Deps(s[i].fn))
    /\ i < Len(s) \/ s[i].at > 1 => program.refused[s[i].fn] # "early"
    /\ \A j \in 1..(s[i].at - 1) : /\ provider[Deps(s[i].fn)[j]].resolved
                                   /\ <<s[i].fn, Deps(s[i].fn)[j]>> \notin program.defaulted
    /\ i < Len(s) => <<s[i].fn, s[i + 1].fn>> \notin program.defaulted

\* The walk is a path through the graph from the callable it decorates.
Path(s) ==
  /\ \A i \in 1..(Len(s) - 1) : s[i + 1].fn = Deps(s[i].fn)[s[i].at]
  /\ \A i, j \in 1..Len(s) : i < j => s[j].fn \in Reachable(s[i].fn)

OnStack(s, g) == \E i \in 1..Len(s) : s[i].fn = g

\* A walk begins at a callable behind decorated ones; what it has begun to
\* resolve is on its stack or resolved.
Walk(t) ==
  LET s == stack[t] IN
  /\ Behind(s) /\ Path(s)
  /\ Running(t) =>
       /\ s[1].fn \in program.roots /\ outcome[s[1].fn] # "ok"
       /\ \A g \in Reachable(s[1].fn) \cap program.roots : outcome[g] = "ok"
       /\ \A i \in 2..Len(s) : s[i].fn \notin program.roots
       /\ \A g \in resolving[t] : OnStack(s, g) \/ (g \in Registered /\ provider[g].resolved)

\* No two threads decorate the same callable.
Apart ==
  \A t, u \in Threads :
    t # u /\ Running(t) /\ Running(u) => stack[t][1].fn # stack[u][1].fn
WalksOK == (\A t \in Threads : Walk(t)) /\ Apart

\* The callables that can be run, and what makes them so.
Resolveds == {g \in Registered : provider[g].resolved}
Decorateds == {g \in program.roots : outcome[g] = "ok"}
Runnable(g) ==
  /\ Range(Deps(g)) \subseteq Resolveds /\ g \notin Reachable(g)
  /\ program.refused[g] # "early" /\ ~(program.refused[g] = "late" /\ Deps(g) # <<>>)
  /\ \A h \in Range(Deps(g)) : <<g, h>> \notin program.defaulted
  /\ ~Unawaitable(g)
GraphOK == \A g \in Resolveds \cup Decorateds : Runnable(g)

\* A decorator that raised had the reason it gave.
Justified(f, error) ==
  /\ error = "circular" => Cycle(f)
  /\ error = "async" => \E g \in Reachable(f) \cup {f} : Unawaitable(g)
  /\ error = "refused" => Refuses(f)
ErrorsOK == \A f \in program.roots : Justified(f, outcome[f])

ResolutionInv == WalksOK /\ GraphOK /\ ErrorsOK

-----------------------------------------------------------------------------
(* Steps that preserve the types                                              *)

\* Nothing but the program decides what a callable needs.
LEMMA SameProgram ==
    ASSUME program' = program
    PROVE  /\ Registered' = Registered /\ Closed' = Closed
           /\ \A f : Deps(f)' = Deps(f) /\ Reachable(f)' = Reachable(f)
                     /\ Unawaitable(f)' = Unawaitable(f) /\ Refuses(f)' = Refuses(f)
                     /\ Cycle(f)' = Cycle(f)
<1>1. \A f : Deps(f)' = Deps(f)
  BY DEF Deps
<1>2. Registered' = Registered /\ Closed' = Closed
  BY <1>1 DEF Registered, Closed
<1>3. \A f : Reachable(f)' = Reachable(f)
  BY <1>1, <1>2 DEF Reachable
<1>4. \A f : Unawaitable(f)' = Unawaitable(f)
  BY <1>1 DEF Unawaitable, AwaitsNothing, IsAsync
<1>5. ASSUME NEW f PROVE Refuses(f)' = Refuses(f) /\ Cycle(f)' = Cycle(f)
  <2>1. Cycle(f)' = Cycle(f)
    BY <1>3 DEF Cycle
  <2>2. Refuses(f)' = Refuses(f)
    <3> DEFINE Own(g) == \/ program.refused[g] = "early"
                         \/ program.refused[g] = "late" /\ Deps(g) # <<>>
                         \/ \E h \in Range(Deps(g)) : <<g, h>> \in program.defaulted
    <3>1. \A g : Own(g)' = Own(g)
      BY <1>1
    <3>2. (\E g \in Reachable(f) \cup {f} : Own(g))' = \E g \in Reachable(f) \cup {f} : Own(g)
      <4> HIDE DEF Own
      <4> QED
        BY <1>3, <3>1
    <3> QED
      BY <3>2 DEF Refuses
  <2> QED
    BY <2>1, <2>2
<1> QED
  BY <1>1, <1>2, <1>3, <1>4, <1>5

\* The provider g is given its dependency, resolved.
Resolves(g) == provider' = [provider EXCEPT ![g] = [Updated(@) EXCEPT !.resolved = TRUE]]

LEMMA ResolvesIs ==
    ASSUME TypeOK, NEW g, Resolves(g)
    PROVE  /\ provider' \in [Registered -> Provides]
           /\ g \in Registered => provider'[g].resolved
           /\ \A p \in Registered :
                /\ provider'[p].count = provider[p].count
                /\ provider[p].resolved => provider'[p].resolved
                /\ p # g => provider'[p] = provider[p]
                /\ provider'[p].provide =
                     IF p = g /\ provider[p].count = 0 THEN "resolved" ELSE provider[p].provide
                /\ p = g => provider'[p].dependency = "resolved"
<1>1. CASE g \notin Registered
  BY <1>1 DEF TypeOK, Resolves
<1>2. CASE g \in Registered
  <2>1. PICK q \in Provides : q = provider[g]
    BY <1>2 DEF TypeOK
  <2>2. PICK r : r = [Updated(q) EXCEPT !.resolved = TRUE]
    OBVIOUS
  <2>3. /\ r \in Provides /\ r.resolved /\ r.count = q.count /\ r.dependency = "resolved"
        /\ r.provide = IF q.count = 0 THEN "resolved" ELSE q.provide
    BY <2>1, <2>2 DEF Updated, Provides
  <2>4. provider' = [provider EXCEPT ![g] = r]
    BY <2>1, <2>2 DEF Resolves
  <2> QED
    BY <1>2, <2>1, <2>3, <2>4 DEF TypeOK
<1> QED
  BY <1>1, <1>2

LEMMA Elements ==
    ASSUME NEW S, NEW s \in Seq(S), s # <<>>
    PROVE  Len(s) \in Nat \ {0} /\ \A i \in 1..Len(s) : s[i] \in S
OBVIOUS

LEMMA Stacks ==
    ASSUME TypeOK, NEW t \in Threads, Running(t)
    PROVE  /\ Len(stack[t]) \in Nat \ {0} /\ Frame_(t) = stack[t][Len(stack[t])]
           /\ \A i \in 1..Len(stack[t]) : /\ stack[t][i].fn \in Callables
                                          /\ stack[t][i].at \in Nat \ {0}
           /\ stack[t] \in Frames
<1>1. stack[t] \in Frames /\ stack[t] # <<>>
  BY DEF TypeOK, Running
<1>2. Len(stack[t]) \in Nat \ {0} /\ Frame_(t) = stack[t][Len(stack[t])]
  BY <1>1, WithoutLast DEF Frames, Frame_
<1>3. \A i \in 1..Len(stack[t]) : stack[t][i] \in [fn : Callables, at : Nat \ {0}]
  BY <1>1, Elements DEF Frames
<1> QED
  BY <1>1, <1>2, <1>3

\* The walk s goes on with the next parameter of its innermost callable.
LEMMA AdvancedIs ==
    ASSUME NEW s \in Frames
    PROVE  /\ Advanced(s) \in Frames /\ Len(Advanced(s)) = Len(s)
           /\ \A i \in 1..Len(s) :
                /\ Advanced(s)[i].fn = s[i].fn
                /\ Advanced(s)[i].at = IF i = Len(s) THEN s[i].at + 1 ELSE s[i].at
<1>1. CASE s = <<>>
  BY <1>1 DEF Advanced, Frames
<1>2. CASE s # <<>>
  <2> DEFINE S == [fn : Callables, at : Nat \ {0}]
  <2>0. s \in Seq(S)
    BY DEF Frames
  <2> HIDE DEF S
  <2>1. Len(s) \in Nat \ {0} /\ s[Len(s)] \in S
    BY <1>2, <2>0, Elements
  <2>2. PICK e : e = [s[Len(s)] EXCEPT !.at = @ + 1]
    OBVIOUS
  <2>3. e \in S /\ e.fn = s[Len(s)].fn /\ e.at = s[Len(s)].at + 1
    BY <2>1, <2>2 DEF S
  <2>4. Advanced(s) = [s EXCEPT ![Len(s)] = e]
    BY <1>2, <2>2 DEF Advanced
  <2>5. /\ Advanced(s) \in Seq(S) /\ Len(Advanced(s)) = Len(s) /\ Advanced(s)[Len(s)] = e
        /\ \A i \in 1..Len(s) : i # Len(s) => Advanced(s)[i] = s[i]
    BY <1>2, <2>0, <2>3, <2>4, LastReplaced
  <2>6. Advanced(s) \in Frames
    BY <2>5 DEF Frames, S
  <2> QED
    BY <2>1, <2>3, <2>5, <2>6 DEF S
<1> QED
  BY <1>1, <1>2

\* The walk goes into the callable g.
LEMMA PushedIs ==
    ASSUME NEW s \in Frames, NEW g \in Callables
    PROVE  LET r == Append(s, Frame(g)) IN
           /\ r \in Frames /\ Len(r) = Len(s) + 1
           /\ r[Len(s) + 1].fn = g /\ r[Len(s) + 1].at = 1
           /\ \A i \in 1..Len(s) : r[i] = s[i]
<1> DEFINE S == [fn : Callables, at : Nat \ {0}]
<1>1. Frame(g) \in S /\ Frame(g).fn = g /\ Frame(g).at = 1
  BY DEF Frame
<1>2. s \in Seq(S)
  BY DEF Frames
<1> HIDE DEF S
<1>3. LET r == Append(s, Frame(g)) IN
      /\ r \in Seq(S) /\ Len(r) = Len(s) + 1 /\ r[Len(s) + 1] = Frame(g)
      /\ \A i \in 1..Len(s) : r[i] = s[i]
  BY <1>1, <1>2, AppendProperties
<1> QED
  BY <1>1, <1>3 DEF Frames, S

LEMMA FrontIs ==
    ASSUME NEW s \in Frames, s # <<>>
    PROVE  /\ Front(s) \in Frames /\ Len(Front(s)) = Len(s) - 1 /\ Len(s) \in Nat \ {0}
           /\ \A i \in 1..(Len(s) - 1) : Front(s)[i] = s[i]
BY WithoutLast DEF Frames

-----------------------------------------------------------------------------
(* The graph                                                                  *)

\* What a callable needs contains its parameters and what they need.
LEMMA ReachableGrows ==
    ASSUME TypeOK, NEW f \in Callables
    PROVE  /\ Range(Deps(f)) \subseteq Reachable(f)
           /\ \A g \in Reachable(f) : Range(Deps(g)) \subseteq Reachable(f)
           /\ Reachable(f) \subseteq Callables
<1>1. Range(Deps(f)) \subseteq Callables
  BY Parameters, RegisteredCallables
<1>2. Range(Deps(f)) \subseteq Reachable(f)
  BY <1>1 DEF Reachable
<1>3. ASSUME NEW g \in Reachable(f), NEW h \in Range(Deps(g)) PROVE h \in Reachable(f)
  <2>1. g \in Callables /\ h \in Callables
    BY <1>3, Parameters, RegisteredCallables DEF Reachable
  <2>2. ASSUME NEW S \in Closed, Range(Deps(f)) \subseteq S PROVE h \in S
    BY <1>3, <2>2 DEF Closed, Reachable
  <2> QED
    BY <2>1, <2>2 DEF Reachable
<1> QED
  BY <1>2, <1>3 DEF Reachable

\* It is the least such set.
LEMMA ReachableLeast ==
    ASSUME TypeOK, NEW f \in Callables, NEW S, S \subseteq Callables,
           Range(Deps(f)) \subseteq S, \A g \in S : Range(Deps(g)) \subseteq S
    PROVE  Reachable(f) \subseteq S
BY DEF Reachable, Closed

\* What is resolved needs nothing but what is resolved.
LEMMA ResolvedReach ==
    ASSUME TypeOK, GraphOK, NEW f \in Callables, Range(Deps(f)) \subseteq Resolveds
    PROVE  Reachable(f) \subseteq Resolveds
<1>1. Resolveds \subseteq Callables
  BY RegisteredCallables DEF Resolveds
<1>2. \A g \in Resolveds : Range(Deps(g)) \subseteq Resolveds
  BY DEF GraphOK, Runnable
<1> QED
  BY <1>1, <1>2, ReachableLeast

-----------------------------------------------------------------------------
(* A step of a walk preserves what is known of the walks                      *)

\* More is resolved and decorated after the step.
Further == /\ program' = program
           /\ \A g \in Registered : provider[g].resolved => provider'[g].resolved
           /\ \A f \in program.roots : outcome[f] = "ok" => outcome'[f] = "ok"

\* A thread that has no callable to decorate.
LEMMA NoWalk == ASSUME NEW t \in Threads, stack'[t] = <<>> PROVE Walk(t)'
BY DEF Walk, Behind, Path, Running

LEMMA Starts ==
    ASSUME TypeOK, TypeOK', NEW t \in Threads, NEW f \in Callables, Decorate(t, f)
    PROVE  Walk(t)'
<1>1. /\ stack'[t] = <<Frame(f)>> /\ resolving'[t] = {f} /\ program' = program
      /\ outcome' = outcome /\ outcome[f] # "ok" /\ f \in program.roots
      /\ \A g \in Reachable(f) \cap program.roots : outcome[g] = "ok"
  BY DEF Decorate, TypeOK
<1>2. PICK s : s = <<Frame(f)>>
  OBVIOUS
<1>3. Len(s) = 1 /\ s[1].fn = f /\ s[1].at = 1
  BY <1>2 DEF Frame
<1>4. Len(Deps(f)) \in Nat
  BY Parameters
<1>5. Behind(s)' /\ Path(s)' /\ OnStack(s, f)
  <2>1. Len(Deps(f))' = Len(Deps(f))
    BY <1>1, SameProgram
  <2> QED
    BY <1>3, <1>4, <2>1 DEF Behind, Path, OnStack
<1>6. \A g \in (Reachable(f) \cap program.roots)' : outcome'[g] = "ok"
  BY <1>1, SameProgram
<1>7. stack'[t] = s
  BY <1>1, <1>2
<1> QED
  BY <1>1, <1>3, <1>5, <1>6, <1>7 DEF Walk, OnStack

\* The other threads' walks are not disturbed.
LEMMA OtherWalk ==
    ASSUME TypeOK, NEW u \in Threads, Walk(u), Further, stack'[u] = stack[u],
           resolving'[u] = resolving[u], Running(u) => outcome'[stack[u][1].fn] # "ok"
    PROVE  Walk(u)'
<1>0. PICK s : s = stack[u]
  OBVIOUS
<1>1. /\ Registered' = Registered /\ program' = program
      /\ \A f : Deps(f)' = Deps(f) /\ Reachable(f)' = Reachable(f)
  BY SameProgram DEF Further
<1>2. CASE ~Running(u)
  BY <1>2, NoWalk DEF Running
<1>3. CASE Running(u)
  <2>1. /\ Len(s) \in Nat \ {0}
        /\ \A i \in 1..Len(s) : s[i].fn \in Callables /\ s[i].at \in Nat \ {0}
    BY <1>0, <1>3, Stacks
  <2>2. Behind(s) /\ Path(s)
    BY <1>0 DEF Walk
  <2>3. Path(s)'
    BY <1>1, <2>2 DEF Path
  <2>4. ASSUME NEW i \in 1..Len(s), NEW j \in 1..(s[i].at - 1)
        PROVE  provider'[Deps(s[i].fn)[j]].resolved
    <3>0. Deps(s[i].fn) \in Seq(Callables)
      BY <2>1, Parameters
    <3>1. s[i].at <= Len(Deps(s[i].fn)) + 1 /\ Len(Deps(s[i].fn)) \in Nat
      <4>1. s[i].at <= Len(Deps(s[i].fn)) + 1
        BY <2>2 DEF Behind
      <4>2. Len(Deps(s[i].fn)) \in Nat
        BY <3>0
      <4> QED
        BY <4>1, <4>2
    <3>2. j \in 1..Len(Deps(s[i].fn))
      BY <2>1, <3>1
    <3>3. Deps(s[i].fn)[j] \in Registered /\ provider[Deps(s[i].fn)[j]].resolved
      BY <2>1, <2>2, <3>2, Parameters DEF Behind
    <3> QED
      BY <3>3 DEF Further
  <2>5. Behind(s)'
    BY <1>1, <2>2, <2>4 DEF Behind
  <2>6. /\ s[1].fn \in program.roots
        /\ \A g \in Reachable(s[1].fn) \cap program.roots : outcome[g] = "ok"
        /\ \A i \in 2..Len(s) : s[i].fn \notin program.roots
        /\ \A g \in resolving[u] : OnStack(s, g) \/ (g \in Registered /\ provider[g].resolved)
    BY <1>0, <1>3 DEF Walk
  <2>7. \A g \in (Reachable(s[1].fn) \cap program.roots) : outcome'[g] = "ok"
    BY <2>6 DEF Further
  <2>8. \A g \in resolving[u] : OnStack(s, g) \/ (g \in Registered /\ provider'[g].resolved)
    BY <2>6 DEF Further
  <2>9. stack'[u] = s /\ resolving'[u] = resolving[u] /\ outcome'[s[1].fn] # "ok"
    BY <1>0, <1>3
  <2> QED
    BY <1>1, <1>3, <2>3, <2>5, <2>6, <2>7, <2>8, <2>9 DEF Walk, OnStack, Running
<1> QED
  BY <1>2, <1>3

\* The callables s is a walk over have parameters, and what it has resolved before
\* a step it has resolved after it.
LEMMA BehindLater ==
    ASSUME TypeOK, NEW s \in Frames, Behind(s), Further
    PROVE  /\ \A i \in 1..Len(s) :
                /\ s[i].fn \in Callables /\ s[i].at \in Nat \ {0}
                /\ Len(Deps(s[i].fn)) \in Nat /\ s[i].at <= Len(Deps(s[i].fn)) + 1
           /\ \A i \in 1..Len(s) : \A j \in 1..(s[i].at - 1) :
                provider'[Deps(s[i].fn)[j]].resolved
<1> DEFINE S == [fn : Callables, at : Nat \ {0}]
<1>1. ASSUME NEW i \in 1..Len(s)
      PROVE  /\ s[i].fn \in Callables /\ s[i].at \in Nat \ {0}
             /\ Len(Deps(s[i].fn)) \in Nat /\ s[i].at <= Len(Deps(s[i].fn)) + 1
             /\ Deps(s[i].fn) \in Seq(Callables)
  <2>1. s \in Seq(S) /\ s # <<>>
    BY <1>1 DEF Frames
  <2>2. s[i] \in S
    <3> HIDE DEF S
    <3> QED
      BY <1>1, <2>1, Elements
  <2>3. s[i].fn \in Callables /\ s[i].at \in Nat \ {0}
    BY <2>2
  <2>4. Deps(s[i].fn) \in Seq(Callables)
    BY <2>3, Parameters
  <2>5. s[i].at <= Len(Deps(s[i].fn)) + 1
    BY <1>1 DEF Behind
  <2> QED
    BY <2>3, <2>4, <2>5
<1>2. ASSUME NEW i \in 1..Len(s), NEW j \in 1..(s[i].at - 1)
      PROVE  provider'[Deps(s[i].fn)[j]].resolved
  <2>1. j \in 1..Len(Deps(s[i].fn))
    BY <1>1, <1>2
  <2>2. Deps(s[i].fn)[j] \in Registered
    BY <1>1, <2>1, Parameters
  <2>3. provider[Deps(s[i].fn)[j]].resolved
    BY <1>2 DEF Behind
  <2> QED
    BY <2>2, <2>3 DEF Further
<1> QED
  BY <1>1, <1>2

\* The walk r follows s when it has resolved the next parameter of s.
LEMMA BehindNext ==
    ASSUME TypeOK, NEW s \in Frames, s # <<>>, Behind(s), Path(s), Further,
           NEW f, f = s[Len(s)].fn, NEW k, k = s[Len(s)].at,
           k <= Len(Deps(f)), program.refused[f] # "early",
           <<f, Deps(f)[k]>> \notin program.defaulted, provider'[Deps(f)[k]].resolved
    PROVE  Behind(Advanced(s))' /\ Path(Advanced(s))'
<1>1. PICK r : r = Advanced(s)
  OBVIOUS
<1>2. /\ Len(r) = Len(s) /\ Len(s) \in Nat \ {0}
      /\ \A i \in 1..Len(s) : /\ r[i].fn = s[i].fn
                              /\ r[i].at = IF i = Len(s) THEN s[i].at + 1 ELSE s[i].at
  BY <1>1, AdvancedIs, FrontIs
<1>3. /\ program' = program
      /\ \A g : Deps(g)' = Deps(g) /\ Reachable(g)' = Reachable(g)
  BY SameProgram DEF Further
<1>4. Path(r)'
  <2>1. \A i \in 1..(Len(s) - 1) : i \in 1..Len(s) /\ i + 1 \in 1..Len(s) /\ i # Len(s)
    BY <1>2
  <2>2. \A i \in 1..(Len(s) - 1) : r[i + 1].fn = Deps(r[i].fn)[r[i].at]
    BY <1>2, <2>1 DEF Path
  <2>3. \A i, j \in 1..Len(s) : i < j => r[j].fn \in Reachable(r[i].fn)
    BY <1>2 DEF Path
  <2> QED
    BY <1>2, <1>3, <2>2, <2>3 DEF Path
<1>5. ASSUME NEW i \in 1..Len(s)
      PROVE  /\ r[i].at <= Len(Deps(r[i].fn)) + 1
             /\ i < Len(s) => r[i].at <= Len(Deps(r[i].fn))
             /\ i < Len(s) \/ r[i].at > 1 => program.refused[r[i].fn] # "early"
             /\ i < Len(s) => <<r[i].fn, r[i + 1].fn>> \notin program.defaulted
             /\ \A j \in 1..(r[i].at - 1) :
                  /\ provider'[Deps(r[i].fn)[j]].resolved
                  /\ <<r[i].fn, Deps(r[i].fn)[j]>> \notin program.defaulted
  <2>1. s[i].at \in Nat \ {0} /\ Len(Deps(s[i].fn)) \in Nat
    BY BehindLater
  <2>2. CASE i = Len(s)
    <3>1. r[i].fn = f /\ r[i].at = k + 1 /\ k \in Nat \ {0}
      BY <1>2, <2>1, <2>2
    <3>2. ASSUME NEW j \in 1..k
          PROVE  /\ provider'[Deps(f)[j]].resolved /\ <<f, Deps(f)[j]>> \notin program.defaulted
      <4>1. CASE j = k
        BY <4>1
      <4>2. CASE j # k
        <5>1. j \in 1..(s[i].at - 1)
          BY <2>2, <3>1, <3>2, <4>2
        <5> QED
          BY <2>2, <5>1, BehindLater DEF Behind
      <4> QED
        BY <4>1, <4>2
    <3> QED
      BY <1>2, <2>1, <2>2, <3>1, <3>2
  <2>3. CASE i # Len(s)
    <3>1. r[i].fn = s[i].fn /\ r[i].at = s[i].at /\ i + 1 \in 1..Len(s) /\ r[i + 1].fn = s[i + 1].fn
      BY <1>2, <2>3
    <3>2. \A j \in 1..(s[i].at - 1) : provider'[Deps(s[i].fn)[j]].resolved
      BY BehindLater
    <3> QED
      BY <2>3, <3>1, <3>2 DEF Behind
  <2> QED
    BY <2>2, <2>3
<1>6. Behind(r)'
  BY <1>2, <1>3, <1>5 DEF Behind
<1> QED
  BY <1>1, <1>4, <1>6

\* The walk goes into its next parameter.
LEMMA BehindInto ==
    ASSUME TypeOK, NEW s \in Frames, s # <<>>, Behind(s), Path(s), Further,
           NEW f, f = s[Len(s)].fn, NEW k, k = s[Len(s)].at, NEW g \in Callables,
           k <= Len(Deps(f)), program.refused[f] # "early", g = Deps(f)[k],
           <<f, g>> \notin program.defaulted
    PROVE  Behind(Append(s, Frame(g)))' /\ Path(Append(s, Frame(g)))'
<1>1. PICK r : r = Append(s, Frame(g))
  OBVIOUS
<1>2. /\ Len(r) = Len(s) + 1 /\ Len(s) \in Nat \ {0}
      /\ r[Len(s) + 1].fn = g /\ r[Len(s) + 1].at = 1
      /\ \A i \in 1..Len(s) : r[i] = s[i]
  BY <1>1, PushedIs, FrontIs
<1>3. /\ program' = program
      /\ \A h : Deps(h)' = Deps(h) /\ Reachable(h)' = Reachable(h)
  BY SameProgram DEF Further
<1>4. \A i \in 1..Len(s) : /\ s[i].fn \in Callables /\ s[i].at \in Nat \ {0}
                           /\ Len(Deps(s[i].fn)) \in Nat
  BY BehindLater
<1>5. f \in Callables /\ k \in Nat \ {0} /\ Len(s) \in 1..Len(s) /\ g \in Range(Deps(f))
  <2>1. f \in Callables /\ k \in Nat \ {0} /\ Len(Deps(f)) \in Nat
    BY <1>2, <1>4
  <2>2. k \in 1..Len(Deps(f))
    BY <2>1
  <2> QED
    BY <1>2, <2>1, <2>2, Parameters
<1>6. Path(r)'
  <2>1. ASSUME NEW i \in 1..Len(s)
        PROVE  r[i + 1].fn = Deps(r[i].fn)[r[i].at]
    <3>1. CASE i = Len(s)
      BY <1>2, <3>1
    <3>2. CASE i # Len(s)
      <4>1. i \in 1..(Len(s) - 1) /\ i + 1 \in 1..Len(s)
        BY <1>2, <3>2
      <4> QED
        BY <1>2, <4>1 DEF Path
    <3> QED
      BY <3>1, <3>2
  <2>2. ASSUME NEW i \in 1..Len(s) PROVE g \in Reachable(s[i].fn)
    <3>1. s[i].fn \in Callables
      BY <1>4
    <3>2. CASE i = Len(s)
      BY <1>5, <3>2, ReachableGrows
    <3>3. CASE i # Len(s)
      <4>1. f \in Reachable(s[i].fn)
        BY <1>2, <1>5, <3>3 DEF Path
      <4> QED
        BY <1>5, <3>1, <4>1, ReachableGrows
    <3> QED
      BY <3>2, <3>3
  <2>3. ASSUME NEW i \in 1..Len(r), NEW j \in 1..Len(r), i < j
        PROVE  r[j].fn \in Reachable(r[i].fn)
    <3>1. i \in 1..Len(s) /\ r[i] = s[i]
      BY <1>2, <2>3
    <3>2. CASE j = Len(s) + 1
      BY <1>2, <2>2, <3>1, <3>2
    <3>3. CASE j # Len(s) + 1
      <4>1. j \in 1..Len(s) /\ r[j] = s[j]
        BY <1>2, <3>3
      <4> QED
        BY <2>3, <3>1, <4>1 DEF Path
    <3> QED
      BY <3>2, <3>3
  <2>4. \A i \in 1..(Len(r) - 1) : r[i + 1].fn = Deps(r[i].fn)[r[i].at]
    BY <1>2, <2>1
  <2> QED
    BY <1>3, <2>3, <2>4 DEF Path
<1>7. ASSUME NEW i \in 1..Len(r)
      PROVE  /\ r[i].at <= Len(Deps(r[i].fn)) + 1
             /\ i < Len(r) => r[i].at <= Len(Deps(r[i].fn))
             /\ i < Len(r) \/ r[i].at > 1 => program.refused[r[i].fn] # "early"
             /\ i < Len(r) => <<r[i].fn, r[i + 1].fn>> \notin program.defaulted
             /\ \A j \in 1..(r[i].at - 1) :
                  /\ provider'[Deps(r[i].fn)[j]].resolved
                  /\ <<r[i].fn, Deps(r[i].fn)[j]>> \notin program.defaulted
  <2>1. CASE i = Len(s) + 1
    <3>1. r[i].fn = g /\ r[i].at = 1 /\ Deps(g) \in Seq(Callables)
      BY <1>2, <2>1, Parameters
    <3>2. Len(Deps(g)) \in Nat
      BY <3>1
    <3> QED
      BY <1>2, <2>1, <3>1, <3>2
  <2>2. CASE i = Len(s)
    <3>1. r[i] = s[i] /\ r[i + 1].fn = g /\ r[i].fn = f /\ r[i].at = k
      BY <1>2, <2>2
    <3>2. \A j \in 1..(k - 1) : /\ provider'[Deps(f)[j]].resolved
                                /\ <<f, Deps(f)[j]>> \notin program.defaulted
      BY <1>5, BehindLater DEF Behind
    <3>3. Len(Deps(f)) \in Nat
      BY <1>4, <1>5
    <3> QED
      BY <1>2, <1>5, <2>2, <3>1, <3>2, <3>3, SMTT(30)
  <2>3. CASE i < Len(s)
    <3>1. i \in 1..Len(s) /\ r[i] = s[i] /\ i + 1 \in 1..Len(s) /\ r[i + 1] = s[i + 1]
      BY <1>2, <2>3
    <3>2. \A j \in 1..(s[i].at - 1) : provider'[Deps(s[i].fn)[j]].resolved
      BY <3>1, BehindLater
    <3> QED
      BY <1>2, <2>3, <3>1, <3>2 DEF Behind
  <2> QED
    BY <1>2, <2>1, <2>2, <2>3
<1>8. Behind(r)'
  BY <1>2, <1>3, <1>7 DEF Behind
<1> QED
  BY <1>1, <1>6, <1>8

\* The walk without its innermost callable.
LEMMA BehindFront ==
    ASSUME NEW s \in Frames, s # <<>>, Behind(s), Path(s)
    PROVE  Behind(Front(s)) /\ Path(Front(s))
<1>1. PICK r : r = Front(s)
  OBVIOUS
<1>2. /\ Len(r) = Len(s) - 1 /\ Len(s) \in Nat \ {0}
      /\ \A i \in 1..(Len(s) - 1) : r[i] = s[i]
  BY <1>1, FrontIs
<1>3. ASSUME NEW i \in 1..Len(r)
      PROVE  /\ r[i] = s[i] /\ i \in 1..Len(s) /\ i < Len(s)
             /\ i < Len(r) => i + 1 \in 1..Len(r) /\ r[i + 1] = s[i + 1]
  BY <1>2
<1>4. Behind(r)
  BY <1>2, <1>3 DEF Behind
<1>5. Path(r)
  <2>1. ASSUME NEW i \in 1..(Len(r) - 1) PROVE r[i + 1].fn = Deps(r[i].fn)[r[i].at]
    <3>1. i \in 1..(Len(s) - 1) /\ i \in 1..Len(r) /\ i < Len(r)
      BY <1>2, <2>1
    <3> QED
      BY <1>3, <3>1 DEF Path
  <2> QED
    BY <1>3, <2>1 DEF Path
<1> QED
  BY <1>1, <1>4, <1>5

LEMMA SameRoot ==
    ASSUME TypeOK, NEW t \in Threads, Walk(t), Running(t), Further, outcome' = outcome,
           NEW r, stack'[t] = r, Behind(r)', Path(r)', r[1].fn = stack[t][1].fn,
           \A i \in 2..Len(r) : r[i].fn \notin program.roots,
           \A g \in resolving'[t] : OnStack(r, g) \/ (g \in Registered /\ provider'[g].resolved)
    PROVE  Walk(t)'
<1>1. /\ Registered' = Registered /\ program' = program
      /\ \A f : Reachable(f)' = Reachable(f)
  BY SameProgram DEF Further
<1>2. PICK f : f = stack[t][1].fn
  OBVIOUS
<1>3. /\ f \in program.roots /\ outcome[f] # "ok"
      /\ \A g \in Reachable(f) \cap program.roots : outcome[g] = "ok"
  BY <1>2 DEF Walk
<1>4. \A g \in (Reachable(f) \cap program.roots)' : outcome'[g] = "ok"
  BY <1>1, <1>3
<1>5. r[1].fn = f
  BY <1>2
<1> QED
  BY <1>1, <1>3, <1>4, <1>5 DEF Walk, OnStack

LEMMA Going ==
    ASSUME TypeOK, NEW t \in Threads, Walk(t), Running(t), Further, outcome' = outcome,
           NEW f, f = Frame_(t).fn, NEW k, k = Frame_(t).at,
           stack'[t] = Advanced(stack[t]), resolving'[t] = resolving[t],
           k <= Len(Deps(f)), program.refused[f] # "early",
           <<f, Deps(f)[k]>> \notin program.defaulted, provider'[Deps(f)[k]].resolved
    PROVE  Walk(t)'
<1>1. PICK s : s = stack[t]
  OBVIOUS
<1>2. /\ s \in Frames /\ s # <<>> /\ Len(s) \in Nat \ {0}
      /\ f = s[Len(s)].fn /\ k = s[Len(s)].at
  BY <1>1, Stacks DEF Running
<1>3. Behind(s) /\ Path(s)
  BY <1>1 DEF Walk
<1>4. Behind(Advanced(s))' /\ Path(Advanced(s))'
  BY <1>2, <1>3, BehindNext
<1>5. PICK r : r = Advanced(s)
  OBVIOUS
<1>6. Len(r) = Len(s) /\ \A i \in 1..Len(s) : r[i].fn = s[i].fn
  BY <1>2, <1>5, AdvancedIs
<1>7. \A i \in 2..Len(r) : r[i].fn \notin program.roots
  BY <1>1, <1>2, <1>6 DEF Walk
<1>8. ASSUME NEW g \in resolving[t]
      PROVE  OnStack(r, g) \/ (g \in Registered /\ provider'[g].resolved)
  <2>1. OnStack(s, g) \/ (g \in Registered /\ provider[g].resolved)
    BY <1>1 DEF Walk
  <2>2. OnStack(s, g) => OnStack(r, g)
    BY <1>6 DEF OnStack
  <2> QED
    BY <2>1, <2>2 DEF Further
<1>9. r[1].fn = s[1].fn
  BY <1>2, <1>6
<1>10. Behind(r)' /\ Path(r)' /\ stack'[t] = r
  BY <1>1, <1>4, <1>5
<1> QED
  BY <1>1, <1>7, <1>8, <1>9, <1>10, SameRoot

LEMMA GoingInto ==
    ASSUME TypeOK, NEW t \in Threads, Walk(t), Running(t), Further, outcome' = outcome,
           NEW f, f = Frame_(t).fn, NEW k, k = Frame_(t).at, NEW g \in Callables,
           stack'[t] = Append(stack[t], Frame(g)), resolving'[t] = resolving[t] \cup {g},
           k <= Len(Deps(f)), program.refused[f] # "early", g = Deps(f)[k],
           <<f, g>> \notin program.defaulted, g \notin program.roots
    PROVE  Walk(t)'
<1>1. PICK s : s = stack[t]
  OBVIOUS
<1>2. /\ s \in Frames /\ s # <<>> /\ Len(s) \in Nat \ {0}
      /\ f = s[Len(s)].fn /\ k = s[Len(s)].at
  BY <1>1, Stacks DEF Running
<1>3. Behind(s) /\ Path(s)
  BY <1>1 DEF Walk
<1>4. Behind(Append(s, Frame(g)))' /\ Path(Append(s, Frame(g)))'
  BY <1>2, <1>3, BehindInto
<1>5. PICK r : r = Append(s, Frame(g))
  OBVIOUS
<1>6. Len(r) = Len(s) + 1 /\ r[Len(s) + 1].fn = g /\ \A i \in 1..Len(s) : r[i] = s[i]
  <2>1. s \in Frames
    BY <1>2
  <2> QED
    BY <1>5, <2>1, PushedIs
<1>7. ASSUME NEW i \in 2..Len(r) PROVE r[i].fn \notin program.roots
  <2>1. i = Len(s) + 1 \/ (i \in 2..Len(s) /\ i \in 1..Len(s))
    BY <1>2, <1>6
  <2>2. \A j \in 2..Len(s) : s[j].fn \notin program.roots
    BY <1>1 DEF Walk
  <2> QED
    BY <1>6, <2>1, <2>2
<1>8. ASSUME NEW h \in resolving'[t]
      PROVE  OnStack(r, h) \/ (h \in Registered /\ provider'[h].resolved)
  <2>1. CASE h = g
    <3>1. Len(s) + 1 \in 1..Len(r) /\ r[Len(s) + 1].fn = h
      BY <1>2, <1>6, <2>1
    <3> QED
      BY <3>1 DEF OnStack
  <2>2. CASE h # g
    <3>1. OnStack(s, h) \/ (h \in Registered /\ provider[h].resolved)
      BY <1>1, <2>2 DEF Walk
    <3>2. \A i \in 1..Len(s) : i \in 1..Len(r)
      BY <1>2, <1>6
    <3>3. OnStack(s, h) => OnStack(r, h)
      BY <1>6, <3>2 DEF OnStack
    <3> QED
      BY <3>1, <3>3 DEF Further
  <2> QED
    BY <2>1, <2>2
<1>9. r[1].fn = s[1].fn
  BY <1>2, <1>6
<1>10. Behind(r)' /\ Path(r)' /\ stack'[t] = r
  BY <1>1, <1>4, <1>5
<1> QED
  BY <1>1, <1>7, <1>8, <1>9, <1>10, SameRoot

\* The walk goes back to the callable whose parameter it has resolved.
LEMMA GoingBack ==
    ASSUME TypeOK, NEW t \in Threads, Walk(t), Running(t), Further, outcome' = outcome,
           NEW f, f = Frame_(t).fn, Len(stack[t]) # 1,
           stack'[t] = Advanced(Front(stack[t])), resolving'[t] = resolving[t],
           f \in Registered => provider'[f].resolved
    PROVE  Walk(t)' /\ f \in Registered
<1>1. PICK s : s = stack[t]
  OBVIOUS
<1>2. /\ s \in Frames /\ s # <<>> /\ Len(s) \in Nat /\ Len(s) > 1 /\ f = s[Len(s)].fn
  <2>1. Len(s) \in Nat \ {0} /\ Len(s) # 1 /\ s \in Frames /\ f = s[Len(s)].fn
    BY <1>1, Stacks
  <2>2. PICK n \in Nat : n = Len(s)
    BY <2>1
  <2>3. n > 1
    BY <2>1, <2>2
  <2> QED
    BY <1>1, <2>1, <2>2, <2>3 DEF Running
<1>3. Behind(s) /\ Path(s)
  BY <1>1 DEF Walk
<1>4. PICK u : u = Front(s)
  OBVIOUS
<1>5. /\ u \in Frames /\ Len(u) = Len(s) - 1 /\ \A i \in 1..(Len(s) - 1) : u[i] = s[i]
      /\ Behind(u) /\ Path(u) /\ u # <<>> /\ Len(u) \in 1..Len(u)
  <2>1. u \in Frames /\ Len(u) = Len(s) - 1 /\ \A i \in 1..(Len(s) - 1) : u[i] = s[i]
    BY <1>2, <1>4, FrontIs
  <2>2. Behind(u) /\ Path(u)
    BY <1>2, <1>3, <1>4, BehindFront
  <2> QED
    BY <1>2, <2>1, <2>2
<1>6. PICK g, k : g = u[Len(u)].fn /\ k = u[Len(u)].at
  OBVIOUS
<1>7. /\ k <= Len(Deps(g)) /\ program.refused[g] # "early" /\ Deps(g)[k] = f
      /\ <<g, f>> \notin program.defaulted /\ g \in Callables /\ k \in Nat \ {0}
  <2>1. u[Len(u)] = s[Len(s) - 1] /\ Len(s) - 1 \in 1..(Len(s) - 1) /\ Len(s) - 1 + 1 = Len(s)
    BY <1>2, <1>5
  <2>2. Len(s) - 1 \in 1..Len(s) /\ Len(s) - 1 < Len(s)
    BY <1>2
  <2>3. k <= Len(Deps(g)) /\ program.refused[g] # "early" /\ <<g, f>> \notin program.defaulted
    BY <1>2, <1>3, <1>6, <2>1, <2>2 DEF Behind
  <2>4. Deps(g)[k] = f
    BY <1>2, <1>3, <1>6, <2>1 DEF Path
  <2>5. g \in Callables /\ k \in Nat \ {0}
    <3> DEFINE S == [fn : Callables, at : Nat \ {0}]
    <3>1. u \in Seq(S)
      BY <1>5 DEF Frames
    <3>2. u[Len(u)] \in S
      <4> HIDE DEF S
      <4> QED
        BY <1>5, <3>1, Elements
    <3> QED
      BY <1>6, <3>2
  <2> QED
    BY <2>3, <2>4, <2>5
<1>8. f \in Registered
  <2>1. Deps(g) \in Seq(Callables)
    BY <1>7, Parameters
  <2>2. k \in 1..Len(Deps(g))
    BY <1>7, <2>1
  <2> QED
    BY <1>7, <2>2, Parameters
<1>9. PICK r : r = Advanced(u)
  OBVIOUS
<1>10. Behind(r)' /\ Path(r)' /\ stack'[t] = r
  <2>1. Behind(Advanced(u))' /\ Path(Advanced(u))'
    BY <1>5, <1>6, <1>7, <1>8, BehindNext
  <2> QED
    BY <1>1, <1>4, <1>9, <2>1
<1>11. Len(r) = Len(s) - 1 /\ \A i \in 1..(Len(s) - 1) : r[i].fn = s[i].fn
  BY <1>5, <1>9, AdvancedIs
<1>12. r[1].fn = s[1].fn
  BY <1>2, <1>11
<1>13. ASSUME NEW i \in 2..Len(r) PROVE r[i].fn \notin program.roots
  <2>1. i \in 2..Len(s) /\ i \in 1..(Len(s) - 1)
    BY <1>2, <1>11
  <2> QED
    BY <1>1, <1>11, <2>1 DEF Walk
<1>14. ASSUME NEW h \in resolving'[t]
       PROVE  OnStack(r, h) \/ (h \in Registered /\ provider'[h].resolved)
  <2>1. OnStack(s, h) \/ (h \in Registered /\ provider[h].resolved)
    BY <1>1 DEF Walk
  <2>2. ASSUME OnStack(s, h), h # f PROVE OnStack(r, h)
    <3>1. PICK i \in 1..Len(s) : s[i].fn = h
      BY <2>2 DEF OnStack
    <3>2. i \in 1..Len(r) /\ i \in 1..(Len(s) - 1)
      BY <1>2, <1>11, <2>2, <3>1
    <3> QED
      BY <1>11, <3>1, <3>2 DEF OnStack
  <2> QED
    BY <1>8, <2>1, <2>2 DEF Further
<1> QED
  BY <1>1, <1>8, <1>10, <1>12, <1>13, <1>14, SameRoot

-----------------------------------------------------------------------------
(* What a step of a decorator does                                            *)

\* The callables on the stack of a walk are the one it decorates and what it needs.
LEMMA OnTheWay ==
    ASSUME TypeOK, NEW t \in Threads, Walk(t), Running(t), NEW f, f = Frame_(t).fn,
           NEW root, root = stack[t][1].fn
    PROVE  /\ f \in Callables /\ root \in program.roots /\ root \in Callables
           /\ f \in Reachable(root) \cup {root}
           /\ f \in Callables => Range(Deps(f)) \subseteq Reachable(root)
<1>1. PICK s : s = stack[t]
  OBVIOUS
<1>2. /\ s \in Frames /\ Len(s) \in Nat \ {0} /\ f = s[Len(s)].fn
      /\ \A i \in 1..Len(s) : s[i].fn \in Callables
  BY <1>1, Stacks
<1>3. 1 \in 1..Len(s) /\ Len(s) \in 1..Len(s)
  BY <1>2
<1>4. f \in Callables /\ root \in Callables /\ root \in program.roots
  BY <1>1, <1>2, <1>3 DEF Walk
<1>5. f \in Reachable(root) \cup {root}
  <2>1. Path(s)
    BY <1>1 DEF Walk
  <2>2. CASE Len(s) = 1
    BY <1>1, <1>2, <2>2
  <2>3. CASE Len(s) # 1
    <3>1. PICK n \in Nat : n = Len(s)
      BY <1>2
    <3>2. 1 < n
      BY <1>2, <2>3, <3>1
    <3> QED
      BY <1>1, <1>2, <1>3, <2>1, <3>1, <3>2 DEF Path
  <2> QED
    BY <2>2, <2>3
<1>6. Range(Deps(f)) \subseteq Reachable(root)
  BY <1>4, <1>5, ReachableGrows
<1> QED
  BY <1>4, <1>5, <1>6

\* A walk that is back where it is already has gone round a cycle.
LEMMA RoundACycle ==
    ASSUME TypeOK, NEW t \in Threads, Walk(t), Running(t), NEW f, f = Frame_(t).fn,
           NEW g \in Range(Deps(f)), g \in resolving[t], ~provider[g].resolved
    PROVE  Cycle(stack[t][1].fn)
<1>1. PICK s : s = stack[t]
  OBVIOUS
<1>2. /\ s \in Frames /\ Len(s) \in Nat \ {0} /\ f = s[Len(s)].fn /\ f \in Callables
      /\ Len(s) \in 1..Len(s) /\ \A i \in 1..Len(s) : s[i].fn \in Callables
  BY <1>1, Stacks, OnTheWay
<1>3. PICK i \in 1..Len(s) : s[i].fn = g
  BY <1>1 DEF Walk, OnStack
<1>4. f \in Reachable(g) \cup {g}
  <2>1. CASE i = Len(s)
    BY <1>2, <1>3, <2>1
  <2>2. CASE i # Len(s)
    <3>1. i < Len(s)
      BY <1>2, <2>2
    <3> QED
      BY <1>1, <1>2, <1>3, <3>1 DEF Walk, Path
  <2> QED
    BY <2>1, <2>2
<1>5. g \in Callables
  BY <1>2, <1>3
<1>6. g \in Reachable(g)
  BY <1>2, <1>4, <1>5, ReachableGrows
<1>7. g \in Reachable(stack[t][1].fn)
  BY <1>2, OnTheWay
<1> QED
  BY <1>6, <1>7 DEF Cycle

\* A decorator raises the error e.
Raises(t, e) == /\ Fails(t, e) /\ Running(t) /\ e \in Outcomes \ {"none", "ok"}
                /\ Justified(stack[t][1].fn, e)

LEMMA RejectedIs ==
    ASSUME TypeOK, NEW t \in Threads, Walk(t), Rejected(t)
    PROVE  Raises(t, "refused")
<1>1. PICK f : f = Frame_(t).fn
  OBVIOUS
<1>2. Running(t) /\ program.refused[f] = "early" /\ Fails(t, "refused")
  BY <1>1 DEF Rejected
<1>3. f \in Reachable(stack[t][1].fn) \cup {stack[t][1].fn}
  BY <1>1, <1>2, OnTheWay
<1>4. Refuses(stack[t][1].fn)
  BY <1>2, <1>3 DEF Refuses
<1> QED
  BY <1>2, <1>4 DEF Raises, Justified, Outcomes

LEMMA ParameterIs ==
    ASSUME TypeOK, NEW t \in Threads, Walk(t), Parameter(t),
           NEW f, f = Frame_(t).fn, NEW k, k = Frame_(t).at, NEW g, g = Deps(f)[k]
    PROVE  /\ Running(t) /\ k <= Len(Deps(f)) /\ program.refused[f] # "early"
           /\ f \in Callables /\ g \in Range(Deps(f)) /\ g \in Registered /\ g \in Callables
           /\ UNCHANGED <<program, overriding>>
           /\ \/ \E e \in Outcomes : Raises(t, e)
              \/ /\ <<f, g>> \notin program.defaulted /\ provider[g].resolved
                 /\ stack' = [stack EXCEPT ![t] = Advanced(@)]
                 /\ UNCHANGED <<provider, resolving, outcome>>
              \/ /\ <<f, g>> \notin program.defaulted /\ g \in program.roots /\ Resolves(g)
                 /\ stack' = [stack EXCEPT ![t] = Advanced(@)]
                 /\ UNCHANGED <<resolving, outcome>>
              \/ /\ <<f, g>> \notin program.defaulted /\ g \notin program.roots
                 /\ stack' = [stack EXCEPT ![t] = Append(@, Frame(g))]
                 /\ resolving' = [resolving EXCEPT ![t] = @ \cup {g}]
                 /\ UNCHANGED <<provider, outcome>>
<1>1. /\ Running(t) /\ k <= Len(Deps(f)) /\ program.refused[f] # "early"
      /\ UNCHANGED <<program, overriding>>
  BY DEF Parameter
<1>2. f \in Callables /\ k \in Nat \ {0}
  <2>1. Len(stack[t]) \in 1..Len(stack[t])
    BY <1>1, Stacks
  <2> QED
    BY <1>1, <2>1, Stacks
<1>3. g \in Range(Deps(f)) /\ g \in Registered /\ g \in Callables
  <2>1. Deps(f) \in Seq(Callables)
    BY <1>2, Parameters
  <2>2. k \in 1..Len(Deps(f))
    BY <1>1, <1>2, <2>1
  <2> QED
    BY <1>2, <2>2, Parameters, RegisteredCallables
<1>4. f \in Reachable(stack[t][1].fn) \cup {stack[t][1].fn}
  BY <1>1, OnTheWay
<1>5. CASE <<f, g>> \in program.defaulted
  <2>1. Fails(t, "refused")
    BY <1>5 DEF Parameter
  <2>2. Refuses(stack[t][1].fn)
    BY <1>3, <1>4, <1>5 DEF Refuses
  <2>3. Raises(t, "refused") /\ "refused" \in Outcomes
    BY <1>1, <2>1, <2>2 DEF Raises, Justified, Outcomes
  <2> QED
    BY <1>1, <1>2, <1>3, <2>3
<1>6. CASE <<f, g>> \notin program.defaulted /\ provider[g].resolved
  <2>1. /\ stack' = [stack EXCEPT ![t] = Advanced(@)]
        /\ UNCHANGED <<provider, resolving, outcome>>
    BY <1>6 DEF Parameter
  <2> QED
    BY <1>1, <1>2, <1>3, <1>6, <2>1
<1>7. CASE <<f, g>> \notin program.defaulted /\ ~provider[g].resolved /\ g \in program.roots
  <2>1. /\ stack' = [stack EXCEPT ![t] = Advanced(@)] /\ Resolves(g)
        /\ UNCHANGED <<resolving, outcome>>
    BY <1>7 DEF Parameter, Resolves
  <2> QED
    BY <1>1, <1>2, <1>3, <1>7, <2>1
<1>8. CASE /\ <<f, g>> \notin program.defaulted /\ ~provider[g].resolved
           /\ g \notin program.roots /\ g \in resolving[t]
  <2>1. Fails(t, "circular")
    BY <1>8 DEF Parameter
  <2>2. Cycle(stack[t][1].fn)
    BY <1>1, <1>3, <1>8, RoundACycle
  <2>3. Raises(t, "circular") /\ "circular" \in Outcomes
    BY <1>1, <2>1, <2>2 DEF Raises, Justified, Outcomes
  <2> QED
    BY <1>1, <1>2, <1>3, <2>3
<1>9. CASE /\ <<f, g>> \notin program.defaulted /\ ~provider[g].resolved
           /\ g \notin program.roots /\ g \notin resolving[t]
  <2>1. /\ stack' = [stack EXCEPT ![t] = Append(@, Frame(g))]
        /\ resolving' = [resolving EXCEPT ![t] = @ \cup {g}]
        /\ UNCHANGED <<provider, outcome>>
    BY <1>9 DEF Parameter
  <2> QED
    BY <1>1, <1>2, <1>3, <1>9, <2>1
<1> QED
  BY <1>5, <1>6, <1>7, <1>8, <1>9

LEMMA ResolvedIs ==
    ASSUME TypeOK, GraphOK, NEW t \in Threads, Walk(t), Resolved(t), NEW f, f = Frame_(t).fn
    PROVE  /\ Running(t) /\ f \in Callables /\ UNCHANGED <<program, resolving, overriding>>
           /\ \/ \E e \in Outcomes : Raises(t, e)
              \/ /\ Runnable(f) /\ stack' = [stack EXCEPT ![t] = Advanced(Front(@))]
                 /\ \/ /\ Len(stack[t]) = 1 /\ UNCHANGED provider
                       /\ outcome' = [outcome EXCEPT ![f] = "ok"]
                    \/ Len(stack[t]) # 1 /\ UNCHANGED outcome /\ Resolves(f)
<1>1. /\ Running(t) /\ program.refused[f] # "early" /\ UNCHANGED <<program, resolving, overriding>>
      /\ Frame_(t).at > Len(Deps(f))
  BY DEF Resolved, Fails
<1>2. f \in Reachable(stack[t][1].fn) \cup {stack[t][1].fn} /\ f \in Callables
  BY <1>1, OnTheWay
<1>3. CASE program.refused[f] = "late" /\ Deps(f) # <<>>
  <2>1. Fails(t, "refused")
    BY <1>3 DEF Resolved
  <2>2. Refuses(stack[t][1].fn)
    BY <1>2, <1>3 DEF Refuses
  <2>3. Raises(t, "refused") /\ "refused" \in Outcomes
    BY <1>1, <2>1, <2>2 DEF Raises, Justified, Outcomes
  <2> QED
    BY <1>1, <1>2, <2>3
<1>4. CASE ~(program.refused[f] = "late" /\ Deps(f) # <<>>) /\ Unawaitable(f)
  <2>1. Fails(t, "async")
    BY <1>4 DEF Resolved
  <2>2. Raises(t, "async") /\ "async" \in Outcomes
    BY <1>1, <1>2, <1>4, <2>1 DEF Raises, Justified, Outcomes
  <2> QED
    BY <1>1, <1>2, <2>2
<1>5. CASE ~(program.refused[f] = "late" /\ Deps(f) # <<>>) /\ ~Unawaitable(f)
  <2>1. ASSUME NEW g \in Range(Deps(f))
        PROVE  g \in Resolveds /\ <<f, g>> \notin program.defaulted
    <3>1. PICK j \in 1..Len(Deps(f)) : g = Deps(f)[j]
      BY <1>2, Parameters
    <3>2. PICK s : s = stack[t]
      OBVIOUS
    <3>3. /\ Len(s) \in 1..Len(s) /\ Behind(s) /\ f = s[Len(s)].fn
          /\ s[Len(s)].at \in Nat /\ s[Len(s)].at > Len(Deps(f))
      BY <1>1, <3>2, Stacks DEF Walk
    <3>4. Deps(f) \in Seq(Callables)
      BY <1>2, Parameters
    <3>5. j \in 1..(s[Len(s)].at - 1)
      BY <3>1, <3>3, <3>4
    <3>6. provider[g].resolved /\ <<f, g>> \notin program.defaulted
      BY <3>1, <3>3, <3>5 DEF Behind
    <3> QED
      BY <1>2, <3>6, Parameters DEF Resolveds
  <2>2. ASSUME f \in Reachable(f) PROVE Runnable(f)
    <3>1. f \in Resolveds
      BY <1>2, <2>1, <2>2, ResolvedReach
    <3> QED
      BY <3>1 DEF GraphOK
  <2>3. Runnable(f)
    BY <1>1, <1>5, <2>1, <2>2 DEF Runnable
  <2>4. /\ stack' = [stack EXCEPT ![t] = Advanced(Front(@))]
        /\ \/ /\ Len(stack[t]) = 1 /\ UNCHANGED provider
              /\ outcome' = [outcome EXCEPT ![f] = "ok"]
           \/ Len(stack[t]) # 1 /\ UNCHANGED outcome /\ Resolves(f)
    BY <1>5 DEF Resolved, Resolves
  <2> QED
    BY <1>1, <1>2, <2>3, <2>4
<1> QED
  BY <1>3, <1>4, <1>5

-----------------------------------------------------------------------------
(* A step of a decorator preserves the invariant                              *)

LEMMA RunnableLater ==
    ASSUME Further, NEW g, Runnable(g)
    PROVE  Runnable(g)'
<1>1. /\ Registered' = Registered /\ program' = program
      /\ Deps(g)' = Deps(g) /\ Reachable(g)' = Reachable(g) /\ Unawaitable(g)' = Unawaitable(g)
  BY SameProgram DEF Further
<1>2. Resolveds \subseteq Resolveds'
  BY <1>1 DEF Further, Resolveds
<1> QED
  BY <1>1, <1>2 DEF Runnable

LEMMA JustifiedLater ==
    ASSUME program' = program, NEW f, NEW e
    PROVE  Justified(f, e)' <=> Justified(f, e)
<1>1. /\ \A g : Reachable(g)' = Reachable(g) /\ Unawaitable(g)' = Unawaitable(g)
      /\ Refuses(f)' = Refuses(f) /\ Cycle(f)' = Cycle(f)
  BY SameProgram
<1> QED
  BY <1>1 DEF Justified

\* What a step of thread t has to do for the invariant to hold after it: what it
\* resolves can be run, and only the outcome of the callable that t decorates
\* changes.
LEMMA StepKeeps ==
    ASSUME TypeOK, ResolutionInv, NEW t \in Threads, Further, Walk(t)',
           \A u \in Threads \ {t} : stack'[u] = stack[u] /\ resolving'[u] = resolving[u],
           \A h \in program.roots :
             \/ outcome'[h] = outcome[h]
             \/ Running(t) /\ h = stack[t][1].fn /\ Justified(h, outcome'[h]),
           Running(t)' => \/ Running(t) /\ stack'[t][1].fn = stack[t][1].fn
                          \/ \A u \in Threads \ {t} :
                               Running(u) => stack[u][1].fn # stack'[t][1].fn,
           \A g \in (Resolveds \cup Decorateds)' :
             g \in Resolveds \cup Decorateds \/ Runnable(g)
    PROVE  ResolutionInv'
<1>1. (\A u \in Threads : Walk(u)) /\ Apart /\ GraphOK /\ ErrorsOK /\ program' = program
  BY DEF ResolutionInv, WalksOK, Further
<1>2. ASSUME NEW u \in Threads PROVE Walk(u)'
  <2>1. CASE u = t
    BY <2>1
  <2>2. CASE u # t
    <3>1. stack'[u] = stack[u] /\ resolving'[u] = resolving[u] /\ Walk(u)
      BY <1>1, <2>2
    <3>2. ASSUME Running(u) PROVE outcome'[stack[u][1].fn] # "ok"
      <4>1. stack[u][1].fn \in program.roots /\ outcome[stack[u][1].fn] # "ok"
        BY <3>1, <3>2 DEF Walk
      <4>2. Running(t) => stack[t][1].fn # stack[u][1].fn
        BY <1>1, <2>2, <3>2 DEF Apart
      <4> QED
        BY <4>1, <4>2
    <3> QED
      BY <3>1, <3>2, OtherWalk
  <2> QED
    BY <2>1, <2>2
<1>3. Apart'
  <2>1. \A u \in Threads \ {t} : Running(u)' = Running(u) /\ stack'[u] = stack[u]
    BY DEF Running
  <2>2. ASSUME NEW u \in Threads \ {t}, Running(t)', Running(u)'
        PROVE  stack'[t][1].fn # stack'[u][1].fn
    <3>1. Running(u) /\ stack'[u] = stack[u]
      BY <2>1, <2>2
    <3> QED
      BY <1>1, <2>2, <3>1 DEF Apart
  <2>3. ASSUME NEW u \in Threads \ {t}, NEW v \in Threads \ {t}, u # v, Running(u)', Running(v)'
        PROVE  stack'[u][1].fn # stack'[v][1].fn
    BY <1>1, <2>1, <2>3 DEF Apart
  <2> QED
    BY <2>2, <2>3 DEF Apart
<1>4. GraphOK'
  <2>1. \A g \in (Resolveds \cup Decorateds)' : Runnable(g)
    BY <1>1 DEF GraphOK
  <2>2. \A g \in (Resolveds \cup Decorateds)' : Runnable(g)'
    BY <2>1, RunnableLater
  <2> QED
    BY <2>2 DEF GraphOK
<1>5. ErrorsOK'
  <2>1. \A h \in program.roots : Justified(h, outcome'[h])
    BY <1>1 DEF ErrorsOK
  <2>2. ASSUME NEW h \in program.roots PROVE Justified(h, outcome[h])'
    <3>1. PICK e : e = outcome'[h]
      OBVIOUS
    <3>2. Justified(h, e)'
      BY <1>1, <2>1, <3>1, JustifiedLater
    <3> QED
      BY <3>1, <3>2 DEF Justified
  <2> QED
    BY <1>1, <2>2 DEF ErrorsOK
<1> QED
  BY <1>2, <1>3, <1>4, <1>5 DEF ResolutionInv, WalksOK

LEMMA DecorateKeeps ==
    ASSUME TypeOK, ResolutionInv, NEW t \in Threads, NEW f \in program.roots, Decorate(t, f)
    PROVE  TypeOK' /\ ResolutionInv' /\ provider' = provider /\ UNCHANGED <<program, overriding>>
<1>1. /\ ~Running(t) /\ stack' = [stack EXCEPT ![t] = <<Frame(f)>>]
      /\ resolving' = [resolving EXCEPT ![t] = {f}]
      /\ UNCHANGED <<program, provider, outcome, overriding>>
      /\ \A u \in Threads : Running(u) => stack[u][1].fn # f
  BY DEF Decorate
<1>2. f \in Callables
  BY Program DEF IsProgram
<1>3. <<Frame(f)>> \in Frames /\ <<Frame(f)>>[1].fn = f
  BY <1>2 DEF Frame, Frames
<1>4. TypeOK'
  <2>1. Registered' = Registered
    BY <1>1, SameProgram
  <2>2. stack' \in [Threads -> Frames] /\ resolving' \in [Threads -> SUBSET Callables]
    BY <1>1, <1>2, <1>3 DEF TypeOK
  <2> QED
    BY <1>1, <2>1, <2>2 DEF TypeOK, overriding, interrupted, Block
<1>5. Walk(t)'
  BY <1>2, <1>4, Starts
<1>6. Further /\ (Resolveds \cup Decorateds)' = Resolveds \cup Decorateds
  <2>1. Registered' = Registered
    BY <1>1, SameProgram
  <2> QED
    BY <1>1, <2>1 DEF Further, Resolveds, Decorateds
<1>7. /\ stack'[t][1].fn = f
      /\ \A u \in Threads \ {t} : stack'[u] = stack[u] /\ resolving'[u] = resolving[u]
  BY <1>1, <1>3 DEF TypeOK
<1>8. ResolutionInv'
  BY <1>1, <1>5, <1>6, <1>7, StepKeeps
<1> QED
  BY <1>1, <1>4, <1>8

LEMMA RaisesKeeps ==
    ASSUME TypeOK, ResolutionInv, NEW t \in Threads, NEW e \in Outcomes, Raises(t, e),
           UNCHANGED <<program, overriding>>
    PROVE  TypeOK' /\ ResolutionInv' /\ provider' = provider
<1>1. PICK root : root = stack[t][1].fn
  OBVIOUS
<1>2. /\ Running(t) /\ stack' = [stack EXCEPT ![t] = <<>>]
      /\ outcome' = [outcome EXCEPT ![root] = e] /\ e # "ok" /\ Justified(root, e)
      /\ UNCHANGED <<program, provider, resolving, overriding>>
  BY <1>1 DEF Raises, Fails
<1>3. root \in program.roots /\ outcome[root] # "ok"
  BY <1>1, <1>2 DEF ResolutionInv, WalksOK, Walk
<1>4. /\ \A h \in program.roots : outcome'[h] = IF h = root THEN e ELSE outcome[h]
      /\ stack'[t] = <<>> /\ \A u \in Threads \ {t} : stack'[u] = stack[u]
  BY <1>2, <1>3 DEF TypeOK
<1>5. TypeOK'
  <2>1. Registered' = Registered
    BY <1>2, SameProgram
  <2>2. <<>> \in Frames
    BY DEF Frames
  <2>3. stack' \in [Threads -> Frames]
    BY <1>2, <2>2 DEF TypeOK
  <2>4. outcome' \in [program.roots -> Outcomes]
    BY <1>2 DEF TypeOK
  <2> QED
    BY <1>2, <2>1, <2>3, <2>4 DEF TypeOK, overriding, interrupted, Block
<1>6. Walk(t)' /\ ~Running(t)'
  BY <1>4, NoWalk DEF Running
<1>7. Further /\ (Resolveds \cup Decorateds)' = Resolveds \cup Decorateds
  <2>1. Registered' = Registered
    BY <1>2, SameProgram
  <2>2. Decorateds' = Decorateds
    BY <1>2, <1>3, <1>4 DEF Decorateds
  <2> QED
    BY <1>2, <1>3, <1>4, <2>1, <2>2 DEF Further, Resolveds
<1>8. \A h \in program.roots :
        \/ outcome'[h] = outcome[h]
        \/ Running(t) /\ h = stack[t][1].fn /\ Justified(h, outcome'[h])
  BY <1>1, <1>2, <1>4
<1>9. ResolutionInv'
  BY <1>2, <1>4, <1>6, <1>7, <1>8, StepKeeps
<1> QED
  BY <1>2, <1>5, <1>9

\* The step is one of a walk over what it needs.
LEMMA WalkingKeeps ==
    ASSUME TypeOK, ResolutionInv, NEW t \in Threads, Running(t),
           UNCHANGED <<program, outcome, overriding>>,
           NEW r \in Frames, stack' = [stack EXCEPT ![t] = r],
           NEW R \in SUBSET Callables, resolving' = [resolving EXCEPT ![t] = R],
           NEW g \in Registered, provider' = provider \/ (Resolves(g) /\ Runnable(g)),
           Further => Walk(t)' /\ r[1].fn = stack[t][1].fn
    PROVE  TypeOK' /\ ResolutionInv'
<1>1. Registered' = Registered
  BY SameProgram
<1>2. provider' \in [Registered -> Provides]
  BY ResolvesIs DEF TypeOK
<1>3. Further
  BY ResolvesIs DEF Further
<1>4. Resolveds' \subseteq Resolveds \cup {g} /\ Decorateds' = Decorateds
  BY <1>1, ResolvesIs DEF Resolveds, Decorateds
<1>5. provider' = provider => Resolveds' = Resolveds
  BY <1>1 DEF Resolveds
<1>6. stack'[t] = r /\ \A u \in Threads \ {t} : stack'[u] = stack[u] /\ resolving'[u] = resolving[u]
  BY DEF TypeOK
<1>7. TypeOK'
  <2>1. stack' \in [Threads -> Frames] /\ resolving' \in [Threads -> SUBSET Callables]
    BY DEF TypeOK
  <2> QED
    BY <1>1, <1>2, <2>1 DEF TypeOK, overriding, interrupted, Block
<1>8. \A h \in (Resolveds \cup Decorateds)' : h \in Resolveds \cup Decorateds \/ Runnable(h)
  BY <1>4, <1>5
<1>9. ResolutionInv'
  BY <1>3, <1>6, <1>8, StepKeeps
<1> QED
  BY <1>7, <1>9

LEMMA ParameterKeeps ==
    ASSUME TypeOK, ResolutionInv, NEW t \in Threads, Parameter(t)
    PROVE  /\ TypeOK' /\ ResolutionInv' /\ UNCHANGED <<program, overriding>>
           /\ provider' = provider \/ \E g \in Registered : Resolves(g)
<1>1. PICK f, k, g : f = Frame_(t).fn /\ k = Frame_(t).at /\ g = Deps(f)[k]
  OBVIOUS
<1>2. Walk(t)
  BY DEF ResolutionInv, WalksOK
<1>3. /\ Running(t) /\ k <= Len(Deps(f)) /\ program.refused[f] # "early"
      /\ f \in Callables /\ g \in Range(Deps(f)) /\ g \in Registered /\ g \in Callables
      /\ UNCHANGED <<program, overriding>>
  BY <1>1, <1>2, ParameterIs
<1>4. \/ \E e \in Outcomes : Raises(t, e)
      \/ /\ <<f, g>> \notin program.defaulted /\ provider[g].resolved
         /\ stack' = [stack EXCEPT ![t] = Advanced(@)]
         /\ UNCHANGED <<provider, resolving, outcome>>
      \/ /\ <<f, g>> \notin program.defaulted /\ g \in program.roots /\ Resolves(g)
         /\ stack' = [stack EXCEPT ![t] = Advanced(@)]
         /\ UNCHANGED <<resolving, outcome>>
      \/ /\ <<f, g>> \notin program.defaulted /\ g \notin program.roots
         /\ stack' = [stack EXCEPT ![t] = Append(@, Frame(g))]
         /\ resolving' = [resolving EXCEPT ![t] = @ \cup {g}]
         /\ UNCHANGED <<provider, outcome>>
  BY <1>1, <1>2, ParameterIs
<1>5. PICK s : s = stack[t]
  OBVIOUS
<1>6. s \in Frames /\ s # <<>> /\ Len(s) \in Nat \ {0} /\ resolving[t] \in SUBSET Callables
  BY <1>3, <1>5, Stacks DEF Running, TypeOK
<1>7. resolving = [resolving EXCEPT ![t] = resolving[t]]
  BY DEF TypeOK
<1>8. CASE \E e \in Outcomes : Raises(t, e)
  BY <1>3, <1>8, RaisesKeeps
<1>9. ASSUME <<f, g>> \notin program.defaulted, NEW r, r = Advanced(s),
             stack' = [stack EXCEPT ![t] = r], UNCHANGED <<resolving, outcome>>,
             \/ provider[g].resolved /\ provider' = provider
             \/ Resolves(g) /\ Runnable(g)
      PROVE  TypeOK' /\ ResolutionInv'
  <2>1. r \in Frames /\ r[1].fn = s[1].fn
    BY <1>6, <1>9, AdvancedIs
  <2>2. provider'[g].resolved
    BY <1>3, <1>9, ResolvesIs
  <2>3. stack'[t] = Advanced(stack[t])
    BY <1>5, <1>9 DEF TypeOK
  <2>4. Further => Walk(t)'
    BY <1>1, <1>2, <1>3, <1>9, <2>2, <2>3, Going
  <2>5. resolving' = [resolving EXCEPT ![t] = resolving[t]]
    BY <1>7, <1>9
  <2> QED
    BY <1>3, <1>5, <1>6, <1>9, <2>1, <2>4, <2>5, WalkingKeeps
<1>10. CASE /\ <<f, g>> \notin program.defaulted /\ provider[g].resolved
            /\ stack' = [stack EXCEPT ![t] = Advanced(@)]
            /\ UNCHANGED <<provider, resolving, outcome>>
  BY <1>3, <1>5, <1>9, <1>10
<1>11. CASE /\ <<f, g>> \notin program.defaulted /\ g \in program.roots /\ Resolves(g)
            /\ stack' = [stack EXCEPT ![t] = Advanced(@)]
            /\ UNCHANGED <<resolving, outcome>>
  <2>1. g \in Reachable(stack[t][1].fn)
    BY <1>1, <1>2, <1>3, OnTheWay
  <2>2. outcome[g] = "ok"
    BY <1>2, <1>3, <1>11, <2>1 DEF Walk
  <2>3. Runnable(g)
    BY <1>11, <2>2 DEF ResolutionInv, GraphOK, Decorateds
  <2> QED
    BY <1>3, <1>5, <1>9, <1>11, <2>3
<1>12. CASE /\ <<f, g>> \notin program.defaulted /\ g \notin program.roots
            /\ stack' = [stack EXCEPT ![t] = Append(@, Frame(g))]
            /\ resolving' = [resolving EXCEPT ![t] = @ \cup {g}]
            /\ UNCHANGED <<provider, outcome>>
  <2>1. PICK r : r = Append(s, Frame(g))
    OBVIOUS
  <2>2. r \in Frames
    BY <1>3, <1>6, <2>1, PushedIs
  <2>3. r[1].fn = s[1].fn
    <3>1. 1 \in 1..Len(s)
      BY <1>6
    <3>2. r[1] = s[1]
      BY <1>3, <1>6, <2>1, <3>1, PushedIs
    <3> QED
      BY <3>2
  <2>4. stack'[t] = Append(stack[t], Frame(g)) /\ resolving'[t] = resolving[t] \cup {g}
    BY <1>12 DEF TypeOK
  <2>5. Further => Walk(t)'
    BY <1>1, <1>2, <1>3, <1>12, <2>4, GoingInto
  <2>6. resolving[t] \cup {g} \in SUBSET Callables
    BY <1>3, <1>6
  <2>7. stack' = [stack EXCEPT ![t] = r]
    BY <1>5, <1>12, <2>1
  <2> QED
    BY <1>3, <1>5, <1>12, <2>2, <2>3, <2>5, <2>6, <2>7, WalkingKeeps
<1>13. TypeOK' /\ ResolutionInv'
  BY <1>4, <1>8, <1>10, <1>11, <1>12
<1>14. provider' = provider \/ Resolves(g)
  BY <1>3, <1>4, RaisesKeeps
<1> QED
  BY <1>3, <1>13, <1>14

LEMMA ResolvedKeeps ==
    ASSUME TypeOK, ResolutionInv, NEW t \in Threads, Resolved(t)
    PROVE  /\ TypeOK' /\ ResolutionInv' /\ UNCHANGED <<program, overriding>>
           /\ provider' = provider \/ \E g \in Registered : Resolves(g)
<1>1. PICK f : f = Frame_(t).fn
  OBVIOUS
<1>2. Walk(t) /\ GraphOK
  BY DEF ResolutionInv, WalksOK
<1>3. /\ Running(t) /\ f \in Callables /\ UNCHANGED <<program, resolving, overriding>>
      /\ \/ \E e \in Outcomes : Raises(t, e)
         \/ /\ Runnable(f) /\ stack' = [stack EXCEPT ![t] = Advanced(Front(@))]
            /\ \/ /\ Len(stack[t]) = 1 /\ UNCHANGED provider
                  /\ outcome' = [outcome EXCEPT ![f] = "ok"]
               \/ Len(stack[t]) # 1 /\ UNCHANGED outcome /\ Resolves(f)
  BY <1>1, <1>2, ResolvedIs
<1>4. PICK s : s = stack[t]
  OBVIOUS
<1>5. s \in Frames /\ s # <<>> /\ Len(s) \in Nat \ {0} /\ f = s[Len(s)].fn
  BY <1>1, <1>3, <1>4, Stacks DEF Running
<1>6. PICK r : r = Advanced(Front(s))
  OBVIOUS
<1>7. r \in Frames /\ Len(r) = Len(s) - 1 /\ \A i \in 1..(Len(s) - 1) : r[i].fn = s[i].fn
  <2>1. PICK u : u = Front(s)
    OBVIOUS
  <2>2. u \in Frames /\ Len(u) = Len(s) - 1 /\ \A i \in 1..(Len(s) - 1) : u[i] = s[i]
    BY <1>5, <2>1, FrontIs
  <2>3. r \in Frames /\ Len(r) = Len(u) /\ \A i \in 1..Len(u) : r[i].fn = u[i].fn
    BY <1>6, <2>1, <2>2, AdvancedIs
  <2> QED
    BY <2>2, <2>3
<1>8. CASE \E e \in Outcomes : Raises(t, e)
  BY <1>3, <1>8, RaisesKeeps
<1>9. CASE /\ Runnable(f) /\ stack' = [stack EXCEPT ![t] = Advanced(Front(@))]
           /\ Len(stack[t]) # 1 /\ UNCHANGED outcome /\ Resolves(f)
  <2>1. stack' = [stack EXCEPT ![t] = r] /\ stack'[t] = Advanced(Front(stack[t]))
    BY <1>4, <1>6, <1>9 DEF TypeOK
  <2>2. resolving' = [resolving EXCEPT ![t] = resolving[t]] /\ resolving[t] \in SUBSET Callables
    BY <1>3 DEF TypeOK
  <2>3. r[1].fn = s[1].fn
    <3>1. PICK n \in Nat : n = Len(s)
      BY <1>5
    <3>2. n # 0 /\ n # 1
      BY <1>4, <1>5, <1>9, <3>1
    <3>3. 1 \in 1..(n - 1)
      BY <3>2
    <3> QED
      BY <1>7, <3>1, <3>3
  <2>4. Further
    BY <1>3, <1>9, ResolvesIs DEF Further
  <2>5. f \in Registered => provider'[f].resolved
    BY <1>9, ResolvesIs
  <2>6. Walk(t)' /\ f \in Registered
    BY <1>1, <1>2, <1>3, <1>9, <2>1, <2>4, <2>5, GoingBack
  <2> QED
    BY <1>3, <1>4, <1>7, <1>9, <2>1, <2>2, <2>3, <2>6, WalkingKeeps
<1>10. CASE /\ Runnable(f) /\ stack' = [stack EXCEPT ![t] = Advanced(Front(@))]
            /\ Len(stack[t]) = 1 /\ UNCHANGED provider
            /\ outcome' = [outcome EXCEPT ![f] = "ok"]
  <2>1. /\ stack' = [stack EXCEPT ![t] = r] /\ stack'[t] = r
        /\ \A u \in Threads \ {t} : stack'[u] = stack[u] /\ resolving'[u] = resolving[u]
    BY <1>3, <1>4, <1>6, <1>10 DEF TypeOK
  <2>2. r = <<>> /\ f = stack[t][1].fn
    BY <1>4, <1>5, <1>7, <1>10 DEF Frames
  <2>3. Walk(t)' /\ ~Running(t)'
    BY <2>1, <2>2, NoWalk DEF Running
  <2>4. f \in program.roots
    BY <1>2, <1>3, <2>2 DEF Walk
  <2>5. \A h \in program.roots : outcome'[h] = IF h = f THEN "ok" ELSE outcome[h]
    BY <1>10 DEF TypeOK
  <2>6. Registered' = Registered
    BY <1>3, SameProgram
  <2>7. Further /\ Resolveds' = Resolveds /\ Decorateds' = Decorateds \cup {f}
    BY <1>3, <1>10, <2>4, <2>5, <2>6 DEF Further, Resolveds, Decorateds
  <2>8. \A h \in program.roots :
          \/ outcome'[h] = outcome[h]
          \/ Running(t) /\ h = stack[t][1].fn /\ Justified(h, outcome'[h])
    BY <1>3, <2>2, <2>5 DEF Justified
  <2>9. \A g \in (Resolveds \cup Decorateds)' : g \in Resolveds \cup Decorateds \/ Runnable(g)
    BY <1>10, <2>7
  <2>10. ResolutionInv'
    BY <2>1, <2>3, <2>7, <2>8, <2>9, StepKeeps
  <2>11. TypeOK'
    <3>1. stack' \in [Threads -> Frames]
      BY <1>7, <2>1 DEF TypeOK
    <3>2. outcome' \in [program.roots -> Outcomes]
      BY <1>10 DEF TypeOK, Outcomes
    <3> QED
      BY <1>3, <1>10, <2>6, <3>1, <3>2 DEF TypeOK, overriding, interrupted, Block
  <2> QED
    BY <1>3, <1>10, <2>10, <2>11
<1>11. provider' = provider \/ \E g \in Registered : Resolves(g)
  <2>1. CASE \E e \in Outcomes : Raises(t, e)
    BY <1>3, <2>1, RaisesKeeps
  <2>2. CASE Len(stack[t]) # 1 /\ Resolves(f) /\ f \notin Registered
    BY <2>2 DEF Resolves, TypeOK
  <2> QED
    BY <1>3, <2>1, <2>2
<1> QED
  BY <1>3, <1>8, <1>9, <1>10, <1>11

\* Overriding leaves what the decorators do alone.
LEMMA OverridingLeaves ==
    ASSUME TypeOK, ResolutionInv, UNCHANGED <<program, decoration>>,
           \A p \in Registered : provider'[p].resolved = provider[p].resolved
    PROVE  ResolutionInv'
<1>1. /\ Registered' = Registered
      /\ (\A u \in Threads : Walk(u)) /\ Apart /\ GraphOK /\ ErrorsOK
      /\ UNCHANGED <<program, stack, resolving, outcome>>
  BY SameProgram DEF ResolutionInv, WalksOK, decoration
<1>2. Further /\ (Resolveds \cup Decorateds)' = Resolveds \cup Decorateds
  BY <1>1 DEF Further, Resolveds, Decorateds
<1>3. ASSUME NEW u \in Threads PROVE Walk(u)'
  <2>1. Running(u) => outcome'[stack[u][1].fn] # "ok"
    BY <1>1 DEF Walk
  <2> QED
    BY <1>1, <1>2, <2>1, OtherWalk
<1>4. Apart'
  BY <1>1 DEF Apart, Running
<1>5. GraphOK'
  BY <1>1, <1>2, RunnableLater DEF GraphOK
<1>6. ErrorsOK'
  <2>1. ASSUME NEW h \in program.roots PROVE Justified(h, outcome[h])'
    <3>1. PICK e : e = outcome[h]
      OBVIOUS
    <3>2. Justified(h, e)'
      BY <1>1, <3>1, JustifiedLater DEF ErrorsOK
    <3> QED
      BY <1>1, <3>1, <3>2 DEF Justified
  <2> QED
    BY <1>1, <2>1 DEF ErrorsOK
<1> QED
  BY <1>3, <1>4, <1>5, <1>6 DEF ResolutionInv, WalksOK

-----------------------------------------------------------------------------
(* Blocks of overrides                                                        *)

\* Block b has entered an override of p.
Has(b, p) == \E i \in 1..Len(b.tokens) : b.items[i] = p

LEMMA EnteredHas ==
    \A c, p : EnteredAt(c, p) = {n \in 1..Len(blocks[c]) : Has(blocks[c][n], p)}
BY DEF EnteredAt, Has

\* The innermost block.
LEMMA Top ==
    ASSUME TypeOK, NEW c \in Contexts, InBlock(c)
    PROVE  /\ Len(blocks[c]) \in Nat \ {0} /\ TopBlock(c) = blocks[c][Len(blocks[c])]
           /\ blocks[c] \in Seq(Block) /\ TopBlock(c) \in Block
<1>1. blocks[c] \in Seq(Block) /\ blocks[c] # <<>>
  BY DEF TypeOK, InBlock
<1> HIDE DEF Block
<1>2. /\ Len(blocks[c]) \in Nat \ {0} /\ Last(blocks[c]) = blocks[c][Len(blocks[c])]
      /\ Last(blocks[c]) \in Block
  BY <1>1, WithoutLast
<1> QED
  BY <1>1, <1>2 DEF TopBlock

\* The innermost block becomes b.
LEMMA TopSet ==
    ASSUME TypeOK, NEW c \in Contexts, InBlock(c), NEW b \in Block, blocks' = SetTop(c, b)
    PROVE  /\ blocks' \in [Contexts -> Seq(Block)] /\ Len(blocks'[c]) = Len(blocks[c])
           /\ blocks'[c][Len(blocks[c])] = b
           /\ \A n \in 1..Len(blocks[c]) : n # Len(blocks[c]) => blocks'[c][n] = blocks[c][n]
           /\ \A d \in Contexts : d # c => blocks'[d] = blocks[d]
<1>1. blocks[c] \in Seq(Block) /\ blocks[c] # <<>> /\ Len(blocks[c]) \in Nat \ {0}
  BY Top DEF InBlock
<1>2. PICK r : r = [blocks[c] EXCEPT ![Len(blocks[c])] = b]
  OBVIOUS
<1>3. /\ r \in Seq(Block) /\ Len(r) = Len(blocks[c]) /\ r[Len(blocks[c])] = b
      /\ \A n \in 1..Len(blocks[c]) : n # Len(blocks[c]) => r[n] = blocks[c][n]
  BY <1>1, <1>2, LastReplaced
<1>4. blocks' = [blocks EXCEPT ![c] = r]
  BY <1>2 DEF SetTop
<1> QED
  BY <1>3, <1>4 DEF TypeOK

\* The innermost block is left.
LEMMA TopLeft ==
    ASSUME TypeOK, NEW c \in Contexts, InBlock(c), blocks' = [blocks EXCEPT ![c] = Front(@)]
    PROVE  /\ blocks' \in [Contexts -> Seq(Block)] /\ Len(blocks'[c]) = Len(blocks[c]) - 1
           /\ \A n \in 1..(Len(blocks[c]) - 1) : blocks'[c][n] = blocks[c][n]
           /\ \A d \in Contexts : d # c => blocks'[d] = blocks[d]
<1>1. blocks[c] \in Seq(Block) /\ blocks[c] # <<>> /\ Len(blocks[c]) \in Nat \ {0}
  BY Top DEF InBlock
<1>2. PICK r : r = Front(blocks[c])
  OBVIOUS
<1>3. /\ r \in Seq(Block) /\ Len(r) = Len(blocks[c]) - 1
      /\ \A n \in 1..(Len(blocks[c]) - 1) : r[n] = blocks[c][n]
  BY <1>1, <1>2, WithoutLast
<1>4. blocks' = [blocks EXCEPT ![c] = r]
  BY <1>2
<1> QED
  BY <1>3, <1>4 DEF TypeOK

LEMMA Blocks ==
    ASSUME NEW b \in Block
    PROVE  /\ b.items \in Seq(Registered) /\ b.tokens \in Seq(Given)
           /\ b.stage \in {"entering", "in", "exiting"}
           /\ Len(b.items) \in Nat /\ Len(b.tokens) \in Nat
           /\ \A i \in 1..Len(b.items) : b.items[i] \in Registered
           /\ DOMAIN b.items = 1..Len(b.items)
<1>1. /\ b.items \in Seq(Registered) /\ b.tokens \in Seq(Given)
      /\ b.stage \in {"entering", "in", "exiting"}
  BY DEF Block
<1> QED
  BY <1>1

\* A block enters the override of p, and keeps v.
LEMMA OneMore ==
    ASSUME NEW b \in Block, Enters(b), Len(b.tokens) < Len(b.items),
           NEW p, p = b.items[Len(b.tokens) + 1], NEW v \in Given, NEW e \in Block,
           e.items = b.items, e.tokens = Append(b.tokens, v),
           e.stage = IF Len(e.tokens) = Len(e.items) THEN "in" ELSE "entering"
    PROVE  /\ Enters(e) /\ p \in Registered /\ ~Has(b, p)
           /\ \A q : Has(e, q) <=> Has(b, q) \/ q = p
           /\ Len(e.tokens) = Len(b.tokens) + 1 /\ e.tokens[Len(b.tokens) + 1] = v
           /\ \A i \in 1..Len(b.tokens) : e.tokens[i] = b.tokens[i]
<1>1. /\ Len(b.items) \in Nat /\ Len(b.tokens) \in Nat /\ b.tokens \in Seq(Given)
      /\ \A i \in 1..Len(b.items) : b.items[i] \in Registered
      /\ DOMAIN b.items = 1..Len(b.items)
  BY Blocks
<1>2. /\ Len(e.tokens) = Len(b.tokens) + 1 /\ e.tokens[Len(b.tokens) + 1] = v
      /\ \A i \in 1..Len(b.tokens) : e.tokens[i] = b.tokens[i]
  <2> HIDE DEF Given
  <2> QED
    BY <1>1, AppendProperties
<1>3. PICK k \in Nat : k = Len(b.tokens) + 1
  BY <1>1
<1>4. k \in 1..Len(b.items) /\ p = b.items[k] /\ Len(e.tokens) = k
  BY <1>1, <1>2, <1>3
<1>5. \A q : Has(e, q) <=> Has(b, q) \/ q = p
  <2>1. \A i : i \in 1..Len(e.tokens) <=> i \in 1..Len(b.tokens) \/ i = k
    BY <1>1, <1>2, <1>3
  <2> QED
    BY <1>4, <2>1 DEF Has
<1>6. ~Has(b, p)
  <2>1. \A i \in 1..Len(b.tokens) : i \in DOMAIN b.items /\ k \in DOMAIN b.items /\ i # k
    BY <1>1, <1>3, <1>4
  <2> QED
    BY <1>4, <2>1 DEF Has, Enters, IsInjective
<1>7. Enters(e)
  <2>1. e.tokens # <<>>
    BY <1>1, <1>2
  <2>2. Len(e.tokens) <= Len(e.items)
    BY <1>4
  <2>3. e.stage = "entering" => Len(e.tokens) < Len(e.items)
    BY <1>1, <1>2, <2>2
  <2> QED
    BY <2>1, <2>2, <2>3 DEF Enters
<1> QED
  BY <1>1, <1>2, <1>4, <1>5, <1>6, <1>7

\* A block ends the override it entered last, of p.
LEMMA OneLess ==
    ASSUME NEW b \in Block, Enters(b), b.tokens # <<>>, NEW p, p = b.items[Len(b.tokens)]
    PROVE  /\ Len(b.tokens) \in Nat \ {0} /\ Has(b, p) /\ p \in Registered
           /\ Last(b.tokens) = b.tokens[Len(b.tokens)] /\ Last(b.tokens) \in Given
           /\ Front(b.tokens) \in Seq(Given) /\ Len(Front(b.tokens)) = Len(b.tokens) - 1
           /\ \A i \in 1..(Len(b.tokens) - 1) : Front(b.tokens)[i] = b.tokens[i]
           /\ \A q : (\E i \in 1..(Len(b.tokens) - 1) : b.items[i] = q) <=> Has(b, q) /\ q # p
<1>1. /\ Len(b.items) \in Nat /\ b.tokens \in Seq(Given)
      /\ \A i \in 1..Len(b.items) : b.items[i] \in Registered
      /\ DOMAIN b.items = 1..Len(b.items)
  BY Blocks
<1>2. /\ Len(b.tokens) \in Nat \ {0} /\ Last(b.tokens) = b.tokens[Len(b.tokens)]
      /\ b.tokens[Len(b.tokens)] \in Given
      /\ Front(b.tokens) \in Seq(Given) /\ Len(Front(b.tokens)) = Len(b.tokens) - 1
      /\ \A i \in 1..(Len(b.tokens) - 1) : Front(b.tokens)[i] = b.tokens[i]
  <2> HIDE DEF Given
  <2> QED
    BY <1>1, WithoutLast
<1>3. PICK k \in Nat \ {0} : k = Len(b.tokens)
  BY <1>2
<1>4. k \in 1..Len(b.items) /\ k \in 1..Len(b.tokens) /\ p = b.items[k]
  BY <1>1, <1>3 DEF Enters
<1>5. Has(b, p)
  BY <1>4 DEF Has
<1>6. ASSUME NEW q
      PROVE  (\E i \in 1..(Len(b.tokens) - 1) : b.items[i] = q) <=> Has(b, q) /\ q # p
  <2>1. \A i \in 1..(k - 1) : b.items[i] # p
    <3>1. \A i \in 1..(k - 1) : i \in DOMAIN b.items /\ k \in DOMAIN b.items /\ i # k
      BY <1>1, <1>3, <1>4
    <3> QED
      BY <1>4, <3>1 DEF Enters, IsInjective
  <2>2. \A i : i \in 1..k <=> i \in 1..(k - 1) \/ i = k
    BY <1>3
  <2> QED
    BY <1>3, <1>4, <2>1, <2>2 DEF Has
<1> QED
  BY <1>1, <1>2, <1>4, <1>5, <1>6

-----------------------------------------------------------------------------
(* What the steps of a block do                                               *)

LEMMA EnteringIs ==
    ASSUME TypeOK, NEW p \in Registered, provider' = [provider EXCEPT ![p] = Entering(@)]
    PROVE  /\ provider' \in [Registered -> Provides]
           /\ \A q \in Registered : q # p => provider'[q] = provider[q]
           /\ provider'[p].count = provider[p].count + 1
           /\ provider'[p].resolved = provider[p].resolved
           /\ provider[p].count \in Nat
           /\ provider'[p].provide =
                IF provider[p].count = 0 THEN "override" ELSE provider[p].provide
<1>1. PICK q \in Provides : q = provider[p]
  BY DEF TypeOK
<1>2. PICK r : r = Entering(q)
  OBVIOUS
<1>3. /\ r \in Provides /\ r.count = q.count + 1 /\ r.resolved = q.resolved /\ q.count \in Nat
      /\ r.provide = IF q.count = 0 THEN "override" ELSE q.provide
  <2>1. PICK x \in {"raw", "resolved", "override"} :
          x = IF q.count = 0 THEN "override" ELSE q.provide
    BY <1>1 DEF Provides
  <2>2. PICK k \in Nat : k = q.count + 1 /\ q.count \in Nat
    BY <1>1 DEF Provides
  <2>3. r = [q EXCEPT !.provide = x, !.count = k]
    BY <1>2, <2>1, <2>2 DEF Entering
  <2> QED
    BY <1>1, <2>1, <2>2, <2>3 DEF Provides
<1>4. provider' = [provider EXCEPT ![p] = r]
  BY <1>1, <1>2
<1> QED
  BY <1>1, <1>3, <1>4 DEF TypeOK

LEMMA LeavingIs ==
    ASSUME TypeOK, NEW p \in Registered, provider[p].count # 0,
           provider' = [provider EXCEPT ![p] = Leaving(@)]
    PROVE  /\ provider' \in [Registered -> Provides]
           /\ \A q \in Registered : q # p => provider'[q] = provider[q]
           /\ provider'[p].count = provider[p].count - 1
           /\ provider'[p].resolved = provider[p].resolved
           /\ provider'[p].dependency = provider[p].dependency
           /\ provider[p].count \in Nat \ {0}
           /\ provider'[p].provide =
                IF provider[p].count = 1 THEN provider[p].dependency ELSE provider[p].provide
<1>1. PICK q \in Provides : q = provider[p]
  BY DEF TypeOK
<1>2. PICK r : r = Leaving(q)
  OBVIOUS
<1>3. /\ r \in Provides /\ r.count = q.count - 1 /\ r.resolved = q.resolved
      /\ r.dependency = q.dependency /\ q.count \in Nat \ {0}
      /\ r.provide = IF q.count = 1 THEN q.dependency ELSE q.provide
  <2>1. PICK x \in {"raw", "resolved", "override"} :
          x = IF q.count = 1 THEN q.dependency ELSE q.provide
    BY <1>1 DEF Provides
  <2>2. PICK k \in Nat : k = q.count - 1 /\ q.count \in Nat \ {0}
    BY <1>1 DEF Provides
  <2>3. r = [q EXCEPT !.provide = x, !.count = k]
    BY <1>2, <2>1, <2>2 DEF Leaving
  <2> QED
    BY <1>1, <2>1, <2>2, <2>3 DEF Provides
<1>4. provider' = [provider EXCEPT ![p] = r]
  BY <1>1, <1>2
<1> QED
  BY <1>1, <1>3, <1>4 DEF TypeOK

\* A context is given one value, of p.
LEMMA ValueSet ==
    ASSUME TypeOK, NEW c \in Contexts, NEW p \in Registered, NEW v \in Given,
           value' = [value EXCEPT ![c][p] = v]
    PROVE  /\ value' \in [Contexts -> [Registered -> Given]] /\ value'[c][p] = v
           /\ \A d \in Contexts, q \in Registered :
                d # c \/ q # p => value'[d][q] = value[d][q]
<1> HIDE DEF Given
<1> QED
  BY DEF TypeOK

\* Every override that a block has entered after a step it had entered before it.
TokensKept ==
  \A d \in Contexts : \A m \in 1..Len(blocks'[d]) : \A i \in 1..Len(blocks'[d][m].tokens) :
    /\ m \in 1..Len(blocks[d]) /\ i \in 1..Len(blocks[d][m].tokens)
    /\ blocks'[d][m].items[i] = blocks[d][m].items[i]
    /\ blocks'[d][m].tokens[i] = blocks[d][m].tokens[i]

\* Block b of context c, at depth n, enters its k-th override, which is of p.
Entered(c, n, b, k, p) ==
  /\ UNCHANGED <<program, decoration, lost, torn>>
  /\ n \in Nat \ {0} /\ p \in Registered /\ k \in Nat \ {0}
  /\ \A d \in Contexts : Len(blocks'[d]) = Len(blocks[d])
  /\ \A d \in Contexts : d # c => blocks'[d] = blocks[d]
  /\ \A m \in 1..n : m # n => blocks'[c][m] = blocks[c][m]
  /\ blocks'[c][n].items = b.items /\ Len(blocks'[c][n].tokens) = k
  /\ blocks'[c][n].tokens[k] = value[c][p]
  /\ \A i \in 1..(k - 1) : blocks'[c][n].tokens[i] = b.tokens[i]
  /\ \A d \in Contexts : \A q :
       EnteredAt(d, q)' = EnteredAt(d, q) \cup (IF d = c /\ q = p THEN {n} ELSE {})
  /\ n \notin EnteredAt(c, p)
  /\ value'[c][p] = <<c, n>>
  /\ \A d \in Contexts, q \in Registered : d # c \/ q # p => value'[d][q] = value[d][q]
  /\ provider' = [provider EXCEPT ![p] = Entering(@)]

LEMMA EnterIs ==
    ASSUME TypeOK, BlocksOK, NEW c \in Contexts, EnterNext(c),
           NEW n, n = Len(blocks[c]), NEW b, b = blocks[c][n],
           NEW k, k = Len(b.tokens) + 1, NEW p, p = b.items[k]
    PROVE  TypeOK' /\ BlocksOK' /\ Entered(c, n, b, k, p)
<1>1. /\ InBlock(c) /\ n \in Nat \ {0} /\ b = TopBlock(c) /\ b \in Block /\ b.stage = "entering"
      /\ n \in 1..Len(blocks[c])
  BY Top DEF EnterNext
<1>2. Enters(b) /\ Len(b.tokens) < Len(b.items)
  BY <1>1 DEF BlocksOK, Enters
<1>3. /\ provider' = [provider EXCEPT ![p] = Entering(@)]
      /\ value' = [value EXCEPT ![c][p] = <<c, n>>]
      /\ UNCHANGED <<program, decoration, alive, lost, torn>>
  BY <1>1 DEF EnterNext, interrupted
<1>4. p \in Registered
  <2>1. \A i \in 1..Len(b.items) : b.items[i] \in Registered
    BY <1>1, Blocks
  <2>2. Len(b.tokens) \in Nat /\ Len(b.items) \in Nat
    BY <1>1, Blocks
  <2> QED
    BY <1>2, <2>1, <2>2
<1>5. PICK v \in Given : v = value[c][p]
  BY <1>4 DEF TypeOK
<1>6. PICK e : e = [b EXCEPT !.tokens = Append(b.tokens, v),
                      !.stage = IF Len(Append(b.tokens, v)) = Len(b.items) THEN "in" ELSE @]
  OBVIOUS
<1>7. /\ e \in Block /\ e.items = b.items /\ e.tokens = Append(b.tokens, v)
      /\ e.stage = IF Len(e.tokens) = Len(e.items) THEN "in" ELSE "entering"
  <2>1. b.tokens \in Seq(Given)
    BY <1>1, Blocks
  <2>2. Append(b.tokens, v) \in Seq(Given)
    <3> HIDE DEF Given
    <3> QED
      BY <2>1, AppendProperties
  <2>3. PICK a \in Seq(Given) : a = Append(b.tokens, v)
    BY <2>2
  <2> HIDE DEF Given
  <2> QED
    BY <1>1, <1>6, <2>3 DEF Block
<1>8. blocks' = SetTop(c, e)
  BY <1>1, <1>4, <1>5, <1>6 DEF EnterNext
<1>9. /\ Enters(e) /\ ~Has(b, p) /\ \A q : Has(e, q) <=> Has(b, q) \/ q = p
      /\ Len(e.tokens) = k /\ e.tokens[k] = v /\ \A i \in 1..(k - 1) : e.tokens[i] = b.tokens[i]
      /\ k \in Nat \ {0}
  <2>1. Len(b.tokens) \in Nat
    BY <1>1, Blocks
  <2>2. /\ Enters(e) /\ ~Has(b, p) /\ \A q : Has(e, q) <=> Has(b, q) \/ q = p
        /\ Len(e.tokens) = Len(b.tokens) + 1 /\ e.tokens[Len(b.tokens) + 1] = v
        /\ \A i \in 1..Len(b.tokens) : e.tokens[i] = b.tokens[i]
    BY <1>1, <1>2, <1>7, OneMore, SMTT(30)
  <2> QED
    BY <2>1, <2>2
<1>10. /\ blocks' \in [Contexts -> Seq(Block)] /\ Len(blocks'[c]) = n /\ blocks'[c][n] = e
       /\ \A m \in 1..n : m # n => blocks'[c][m] = blocks[c][m]
       /\ \A d \in Contexts : d # c => blocks'[d] = blocks[d]
  BY <1>1, <1>7, <1>8, TopSet
<1>11. ASSUME NEW d \in Contexts, NEW q
       PROVE  EnteredAt(d, q)' = EnteredAt(d, q) \cup (IF d = c /\ q = p THEN {n} ELSE {})
  <2>1. EnteredAt(d, q)' = {m \in 1..Len(blocks'[d]) : Has(blocks'[d][m], q)}
    BY EnteredHas DEF EnteredAt, Has
  <2>2. EnteredAt(d, q) = {m \in 1..Len(blocks[d]) : Has(blocks[d][m], q)}
    BY EnteredHas
  <2>3. CASE d # c
    BY <1>10, <2>1, <2>2, <2>3
  <2>4. CASE d = c
    <3>1. \A m \in 1..n :
            Has(blocks'[c][m], q) <=> Has(blocks[c][m], q) \/ (m = n /\ q = p)
      BY <1>9, <1>10
    <3> QED
      BY <1>1, <1>10, <2>1, <2>2, <2>4, <3>1
  <2> QED
    BY <2>3, <2>4
<1>12. n \notin EnteredAt(c, p)
  BY <1>9, EnteredHas
<1>13. TypeOK'
  <2>1. Registered' = Registered
    BY <1>3, SameProgram
  <2>2. provider' \in [Registered -> Provides]
    BY <1>3, <1>4, EnteringIs
  <2>3. value' \in [Contexts -> [Registered -> Given]]
    <3>1. <<c, n>> \in Given
      BY <1>1 DEF Given
    <3> QED
      BY <1>3, <1>4, <3>1, ValueSet
  <2> QED
    BY <1>3, <1>10, <2>1, <2>2, <2>3 DEF TypeOK, decoration, Block
<1>14. BlocksOK'
  <2>1. ASSUME NEW d \in Contexts, NEW m \in 1..Len(blocks'[d]) PROVE Enters(blocks'[d][m])
    <3>1. CASE d = c /\ m = n
      BY <1>9, <1>10, <3>1
    <3>2. CASE d = c /\ m # n
      BY <1>10, <2>1, <3>2 DEF BlocksOK
    <3>3. CASE d # c
      BY <1>10, <2>1, <3>3 DEF BlocksOK
    <3> QED
      BY <3>1, <3>2, <3>3
  <2>2. \A d \in Contexts : blocks'[d] # <<>> => d \in alive'
    BY <1>1, <1>3, <1>10 DEF BlocksOK, InBlock
  <2>3. \A d \in Contexts : \A m \in 1..Len(blocks'[d]) : Enters(blocks[d][m])'
    BY <2>1 DEF Enters
  <2> QED
    BY <2>2, <2>3 DEF BlocksOK
<1>15. /\ value'[c][p] = <<c, n>>
       /\ \A d \in Contexts, q \in Registered :
            d # c \/ q # p => value'[d][q] = value[d][q]
  <2>1. PICK v1 \in Given : v1 = <<c, n>>
    BY <1>1 DEF Given
  <2>2. value' = [value EXCEPT ![c][p] = v1]
    BY <1>3, <2>1
  <2>3. /\ value'[c][p] = v1
        /\ \A d \in Contexts, q \in Registered :
             d # c \/ q # p => value'[d][q] = value[d][q]
    <3> HIDE DEF Given
    <3> QED
      BY <1>4, <2>2 DEF TypeOK
  <2> QED
    BY <2>1, <2>3
<1>16. Entered(c, n, b, k, p)
  BY <1>1, <1>3, <1>4, <1>5, <1>7, <1>9, <1>10, <1>11, <1>12, <1>15 DEF Entered
<1> QED
  BY <1>13, <1>14, <1>16

LEMMA ExitIs ==
    ASSUME TypeOK, BlocksOK, NEW c \in Contexts, ExitNext(c),
           NEW n, n = Len(blocks[c]), NEW b, b = blocks[c][n],
           NEW k, k = Len(b.tokens), NEW p, p = b.items[k]
    PROVE  /\ blocks' \in [Contexts -> Seq(Block)] /\ BlocksOK' /\ TokensKept
           /\ UNCHANGED <<program, decoration, alive, lost, torn>>
           /\ n \in Nat \ {0} /\ p \in Registered /\ k \in Nat \ {0}
           /\ \A d \in Contexts : \A q :
                EnteredAt(d, q)' = EnteredAt(d, q) \ (IF d = c /\ q = p THEN {n} ELSE {})
           /\ n \in EnteredAt(c, p)
           /\ b.tokens[k] \in Given
           /\ value' = [value EXCEPT ![c][p] = b.tokens[k]]
           /\ provider' = [provider EXCEPT ![p] = Leaving(@)]
<1>1. /\ InBlock(c) /\ n \in Nat \ {0} /\ b = TopBlock(c) /\ b \in Block /\ b.stage = "exiting"
      /\ n \in 1..Len(blocks[c])
  BY Top DEF ExitNext
<1>2. Enters(b) /\ b.tokens # <<>>
  BY <1>1 DEF BlocksOK, Enters
<1>3. PICK u : u = Front(b.tokens)
  OBVIOUS
<1>4. /\ k \in Nat \ {0} /\ Has(b, p) /\ p \in Registered
      /\ Last(b.tokens) = b.tokens[k] /\ b.tokens[k] \in Given
      /\ u \in Seq(Given) /\ Len(u) = k - 1 /\ \A i \in 1..(k - 1) : u[i] = b.tokens[i]
      /\ \A q : (\E i \in 1..(k - 1) : b.items[i] = q) <=> Has(b, q) /\ q # p
  <2> HIDE DEF Given
  <2> QED
    BY <1>1, <1>2, <1>3, OneLess, SMTT(30)
<1>5. /\ provider' = [provider EXCEPT ![p] = Leaving(@)]
      /\ value' = [value EXCEPT ![c][p] = b.tokens[k]]
      /\ UNCHANGED <<program, decoration, alive, lost, torn>>
  BY <1>1, <1>4 DEF ExitNext, interrupted
<1>6. n \in EnteredAt(c, p)
  BY <1>1, <1>4, EnteredHas
<1>7. \A d \in Contexts : \A q :
        /\ EnteredAt(d, q)' = {m \in 1..Len(blocks'[d]) : Has(blocks'[d][m], q)}
        /\ EnteredAt(d, q) = {m \in 1..Len(blocks[d]) : Has(blocks[d][m], q)}
  BY EnteredHas DEF EnteredAt, Has
<1>8. \A d \in Contexts : \A m \in 1..Len(blocks[d]) :
        Enters(blocks[d][m])
  BY DEF BlocksOK
<1>9. CASE Len(b.tokens) = 1
  <2>1. blocks' = [blocks EXCEPT ![c] = Front(@)]
    BY <1>1, <1>9 DEF ExitNext
  <2>2. /\ blocks' \in [Contexts -> Seq(Block)] /\ Len(blocks'[c]) = n - 1
        /\ \A m \in 1..(n - 1) : blocks'[c][m] = blocks[c][m]
        /\ \A d \in Contexts : d # c => blocks'[d] = blocks[d]
    BY <1>1, <2>1, TopLeft
  <2>3. \A q : Has(b, q) <=> q = p
    <3>1. 1..(k - 1) = {}
      BY <1>9
    <3> QED
      BY <1>4, <3>1
  <2>4. ASSUME NEW d \in Contexts, NEW m \in 1..Len(blocks'[d])
        PROVE  m \in 1..Len(blocks[d]) /\ blocks'[d][m] = blocks[d][m]
    <3>1. CASE d = c
      BY <1>1, <2>2, <2>4, <3>1
    <3>2. CASE d # c
      BY <2>2, <2>4, <3>2
    <3> QED
      BY <3>1, <3>2
  <2>5. TokensKept
    BY <2>4 DEF TokensKept
  <2>6. ASSUME NEW d \in Contexts, NEW q
        PROVE  EnteredAt(d, q)' = EnteredAt(d, q) \ (IF d = c /\ q = p THEN {n} ELSE {})
    <3>0. /\ EnteredAt(d, q)' = {m \in 1..Len(blocks'[d]) : Has(blocks'[d][m], q)}
          /\ EnteredAt(d, q) = {m \in 1..Len(blocks[d]) : Has(blocks[d][m], q)}
      BY <1>7
    <3>1. CASE d # c
      BY <2>2, <3>0, <3>1
    <3>2. CASE d = c
      <4>1. \A m \in 1..n : m # n => blocks'[c][m] = blocks[c][m] /\ m \in 1..(n - 1)
        BY <1>1, <2>2
      <4>2. \A m : m \in 1..(n - 1) <=> m \in 1..n /\ m # n
        BY <1>1
      <4>3. Has(blocks[c][n], q) <=> q = p
        BY <2>3
      <4> QED
        BY <1>1, <2>2, <3>0, <3>2, <4>1, <4>2, <4>3
    <3> QED
      BY <3>1, <3>2
  <2>7. BlocksOK'
    <3>1. \A d \in Contexts : \A m \in 1..Len(blocks'[d]) : Enters(blocks[d][m])'
      BY <1>8, <2>4 DEF Enters
    <3>2. \A d \in Contexts : blocks'[d] # <<>> => d \in alive'
      BY <1>1, <1>5, <2>2 DEF BlocksOK, InBlock
    <3> QED
      BY <3>1, <3>2 DEF BlocksOK
  <2> QED
    BY <1>1, <1>4, <1>5, <1>6, <2>2, <2>5, <2>6, <2>7
<1>10. CASE Len(b.tokens) # 1
  <2>1. PICK e : e = [b EXCEPT !.tokens = u]
    OBVIOUS
  <2>2. e \in Block /\ e.items = b.items /\ e.tokens = u /\ e.stage = "exiting"
    BY <1>1, <1>4, <2>1 DEF Block
  <2>3. blocks' = SetTop(c, e)
    BY <1>1, <1>3, <1>10, <2>1 DEF ExitNext
  <2>4. /\ blocks' \in [Contexts -> Seq(Block)] /\ Len(blocks'[c]) = n /\ blocks'[c][n] = e
        /\ \A m \in 1..n : m # n => blocks'[c][m] = blocks[c][m]
        /\ \A d \in Contexts : d # c => blocks'[d] = blocks[d]
    BY <1>1, <2>2, <2>3, TopSet
  <2>5. Enters(e)
    <3>1. Len(b.items) \in Nat
      BY <1>1, Blocks
    <3>0. k \in Nat \ {0} /\ k # 1 /\ Len(u) = k - 1 /\ k <= Len(b.items)
      BY <1>2, <1>4, <1>10 DEF Enters
    <3>2. u # <<>> /\ Len(u) <= Len(b.items)
      <4>1. PICK j, l \in Nat : j = k /\ l = Len(b.items)
        BY <3>0, <3>1
      <4>2. j - 1 # 0 /\ j - 1 <= l
        BY <3>0, <4>1
      <4>3. Len(u) # 0 /\ Len(u) <= Len(b.items)
        BY <3>0, <4>1, <4>2
      <4> QED
        BY <4>3
    <3> QED
      BY <1>2, <2>2, <3>2 DEF Enters
  <2>6. \A q : Has(e, q) <=> Has(b, q) /\ q # p
    <3>1. Len(e.tokens) = k - 1 /\ e.items = b.items
      BY <1>4, <2>2
    <3>2. \A q : Has(e, q) <=> \E i \in 1..(k - 1) : b.items[i] = q
      BY <3>1 DEF Has
    <3>3. \A q : (\E i \in 1..(k - 1) : b.items[i] = q) <=> Has(b, q) /\ q # p
      BY <1>4
    <3> QED
      BY <3>2, <3>3, ZenonT(30)
  <2>7. ASSUME NEW d \in Contexts, NEW m \in 1..Len(blocks'[d])
        PROVE  /\ m \in 1..Len(blocks[d]) /\ Enters(blocks'[d][m])
               /\ \A i \in 1..Len(blocks'[d][m].tokens) :
                    /\ i \in 1..Len(blocks[d][m].tokens)
                    /\ blocks'[d][m].items[i] = blocks[d][m].items[i]
                    /\ blocks'[d][m].tokens[i] = blocks[d][m].tokens[i]
    <3>1. CASE d # c
      BY <1>8, <2>4, <2>7, <3>1
    <3>2. CASE d = c /\ m # n
      BY <1>8, <2>4, <2>7, <3>2
    <3>3. CASE d = c /\ m = n
      <4>1. \A i \in 1..(k - 1) : i \in 1..k
        BY <1>4
      <4>2. blocks'[d][m] = e /\ blocks[d][m] = b /\ m \in 1..Len(blocks[d])
        BY <1>1, <2>4, <3>3
      <4>3. Len(e.tokens) = k - 1 /\ \A i \in 1..(k - 1) : e.tokens[i] = b.tokens[i]
        BY <1>4, <2>2
      <4> QED
        BY <2>2, <2>5, <4>1, <4>2, <4>3
    <3> QED
      BY <3>1, <3>2, <3>3
  <2>8. TokensKept
    BY <2>7 DEF TokensKept
  <2>9. ASSUME NEW d \in Contexts, NEW q
        PROVE  EnteredAt(d, q)' = EnteredAt(d, q) \ (IF d = c /\ q = p THEN {n} ELSE {})
    <3>0. /\ EnteredAt(d, q)' = {m \in 1..Len(blocks'[d]) : Has(blocks'[d][m], q)}
          /\ EnteredAt(d, q) = {m \in 1..Len(blocks[d]) : Has(blocks[d][m], q)}
      BY <1>7
    <3>1. CASE d # c
      BY <2>4, <3>0, <3>1
    <3>2. CASE d = c
      <4>1. \A m \in 1..n :
              Has(blocks'[c][m], q) <=> Has(blocks[c][m], q) /\ ~(m = n /\ q = p)
        BY <2>4, <2>6
      <4> QED
        BY <1>1, <2>4, <3>0, <3>2, <4>1
    <3> QED
      BY <3>1, <3>2
  <2>10. BlocksOK'
    <3>1. \A d \in Contexts : \A m \in 1..Len(blocks'[d]) : Enters(blocks[d][m])'
      BY <2>7 DEF Enters
    <3>2. \A d \in Contexts : blocks'[d] # <<>> => d \in alive'
      BY <1>1, <1>5, <2>4 DEF BlocksOK, InBlock
    <3> QED
      BY <3>1, <3>2 DEF BlocksOK
  <2> QED
    BY <1>1, <1>4, <1>5, <1>6, <2>4, <2>8, <2>9, <2>10
<1> QED
  BY <1>9, <1>10

\* A step that enters and ends no override, in context c.
QuietStep(c) == \/ \E items \in program.blocks : StartBlock(c, items)
                \/ Interrupt(c) \/ EndBlock(c) \/ \E d \in Contexts : Fork(c, d)

\* What is known of the blocks when one of them begins, changes its stage or is
\* left with nothing entered.
LEMMA QuietBlocks ==
    ASSUME TypeOK, BlocksOK, NEW c \in Contexts, alive \subseteq alive',
           NEW E \in Block, Enters(E), UNCHANGED program,
           \/ /\ c \in alive /\ E.tokens = <<>> /\ blocks' = [blocks EXCEPT ![c] = Append(@, E)]
           \/ /\ InBlock(c) /\ TopBlock(c).tokens = <<>>
              /\ blocks' = [blocks EXCEPT ![c] = Front(@)]
           \/ /\ InBlock(c) /\ E.items = TopBlock(c).items /\ E.tokens = TopBlock(c).tokens
              /\ blocks' = SetTop(c, E)
    PROVE  /\ blocks' \in [Contexts -> Seq(Block)] /\ BlocksOK' /\ TokensKept
           /\ \A d \in Contexts : \A q : EnteredAt(d, q)' = EnteredAt(d, q)
<1>1. \A d \in Contexts : \A q :
        /\ EnteredAt(d, q)' = {m \in 1..Len(blocks'[d]) : Has(blocks'[d][m], q)}
        /\ EnteredAt(d, q) = {m \in 1..Len(blocks[d]) : Has(blocks[d][m], q)}
  BY EnteredHas DEF EnteredAt, Has
<1>2. PICK n : n = Len(blocks[c])
  OBVIOUS
<1>3. n \in Nat /\ blocks[c] \in Seq(Block)
  BY <1>2 DEF TypeOK
<1>4. \A d \in Contexts : \A m \in 1..Len(blocks[d]) : Enters(blocks[d][m])
  BY DEF BlocksOK
<1>5. \A b, q : b.tokens = <<>> => ~Has(b, q)
  BY DEF Has
<1>6. CASE c \in alive /\ E.tokens = <<>> /\ blocks' = [blocks EXCEPT ![c] = Append(@, E)]
  <2>1. PICK r : r = Append(blocks[c], E)
    OBVIOUS
  <2>2. /\ r \in Seq(Block) /\ Len(r) = n + 1 /\ r[n + 1] = E
        /\ \A m \in 1..n : r[m] = blocks[c][m]
    <3> HIDE DEF Block
    <3> QED
      BY <1>2, <1>3, <2>1, AppendProperties
  <2>3. /\ blocks' \in [Contexts -> Seq(Block)] /\ Len(blocks'[c]) = n + 1
        /\ blocks'[c][n + 1] = E /\ \A m \in 1..n : blocks'[c][m] = blocks[c][m]
        /\ \A d \in Contexts : d # c => blocks'[d] = blocks[d]
    BY <1>6, <2>1, <2>2 DEF TypeOK
  <2>4. \A m : m \in 1..(n + 1) <=> m \in 1..n \/ m = n + 1
    BY <1>3
  <2>5. TokensKept
    <3>1. ASSUME NEW d \in Contexts, NEW m \in 1..Len(blocks'[d]),
                 NEW i \in 1..Len(blocks'[d][m].tokens)
          PROVE  m \in 1..Len(blocks[d]) /\ blocks'[d][m] = blocks[d][m]
      <4>1. CASE d # c
        BY <2>3, <3>1, <4>1
      <4>2. CASE d = c
        <5>1. m # n + 1
          BY <1>6, <2>3, <3>1, <4>2
        <5> QED
          BY <1>2, <2>3, <2>4, <3>1, <4>2, <5>1
      <4> QED
        BY <4>1, <4>2
    <3> QED
      BY <3>1 DEF TokensKept
  <2>6. ASSUME NEW d \in Contexts, NEW q PROVE EnteredAt(d, q)' = EnteredAt(d, q)
    <3>0. /\ EnteredAt(d, q)' = {m \in 1..Len(blocks'[d]) : Has(blocks'[d][m], q)}
          /\ EnteredAt(d, q) = {m \in 1..Len(blocks[d]) : Has(blocks[d][m], q)}
      BY <1>1
    <3>1. CASE d # c
      BY <2>3, <3>0, <3>1
    <3>2. CASE d = c
      <4>1. ~Has(blocks'[c][n + 1], q)
        BY <1>5, <1>6, <2>3
      <4> QED
        BY <1>2, <2>3, <2>4, <3>0, <3>2, <4>1
    <3> QED
      BY <3>1, <3>2
  <2>7. BlocksOK'
    <3>1. ASSUME NEW d \in Contexts, NEW m \in 1..Len(blocks'[d]) PROVE Enters(blocks[d][m])'
      <4>1. Enters(blocks'[d][m])
        BY <1>2, <1>4, <2>3, <2>4, <3>1
      <4> QED
        BY <4>1 DEF Enters
    <3>2. \A d \in Contexts : blocks'[d] # <<>> => d \in alive'
      BY <1>6, <2>3 DEF BlocksOK
    <3> QED
      BY <3>1, <3>2 DEF BlocksOK
  <2> QED
    BY <2>3, <2>5, <2>6, <2>7
<1>7. CASE /\ InBlock(c) /\ TopBlock(c).tokens = <<>>
           /\ blocks' = [blocks EXCEPT ![c] = Front(@)]
  <2>1. TopBlock(c) = blocks[c][n] /\ n \in Nat \ {0}
    BY <1>2, <1>7, Top
  <2>2. /\ blocks' \in [Contexts -> Seq(Block)] /\ Len(blocks'[c]) = n - 1
        /\ \A m \in 1..(n - 1) : blocks'[c][m] = blocks[c][m]
        /\ \A d \in Contexts : d # c => blocks'[d] = blocks[d]
    BY <1>2, <1>7, TopLeft
  <2>3. \A m : m \in 1..(n - 1) <=> m \in 1..n /\ m # n
    BY <2>1
  <2>4. ASSUME NEW d \in Contexts, NEW m \in 1..Len(blocks'[d])
        PROVE  m \in 1..Len(blocks[d]) /\ blocks'[d][m] = blocks[d][m]
    <3>1. CASE d = c
      BY <1>2, <2>2, <2>3, <2>4, <3>1
    <3>2. CASE d # c
      BY <2>2, <2>4, <3>2
    <3> QED
      BY <3>1, <3>2
  <2>5. TokensKept
    BY <2>4 DEF TokensKept
  <2>6. ASSUME NEW d \in Contexts, NEW q PROVE EnteredAt(d, q)' = EnteredAt(d, q)
    <3>0. /\ EnteredAt(d, q)' = {m \in 1..Len(blocks'[d]) : Has(blocks'[d][m], q)}
          /\ EnteredAt(d, q) = {m \in 1..Len(blocks[d]) : Has(blocks[d][m], q)}
      BY <1>1
    <3>1. CASE d # c
      BY <2>2, <3>0, <3>1
    <3>2. CASE d = c
      <4>1. ~Has(blocks[c][n], q)
        BY <1>5, <1>7, <2>1
      <4> QED
        BY <1>2, <2>2, <2>3, <3>0, <3>2, <4>1
    <3> QED
      BY <3>1, <3>2
  <2>7. BlocksOK'
    <3>1. \A d \in Contexts : \A m \in 1..Len(blocks'[d]) : Enters(blocks[d][m])'
      BY <1>4, <2>4 DEF Enters
    <3>2. \A d \in Contexts : blocks'[d] # <<>> => d \in alive'
      BY <1>7, <2>2 DEF BlocksOK, InBlock
    <3> QED
      BY <3>1, <3>2 DEF BlocksOK
  <2> QED
    BY <2>2, <2>5, <2>6, <2>7
<1>8. CASE /\ InBlock(c) /\ E.items = TopBlock(c).items /\ E.tokens = TopBlock(c).tokens
           /\ blocks' = SetTop(c, E)
  <2>1. TopBlock(c) = blocks[c][n] /\ n \in Nat \ {0}
    BY <1>2, <1>8, Top
  <2>2. /\ blocks' \in [Contexts -> Seq(Block)] /\ Len(blocks'[c]) = n /\ blocks'[c][n] = E
        /\ \A m \in 1..n : m # n => blocks'[c][m] = blocks[c][m]
        /\ \A d \in Contexts : d # c => blocks'[d] = blocks[d]
    BY <1>2, <1>8, TopSet
  <2>3. ASSUME NEW d \in Contexts, NEW m \in 1..Len(blocks'[d])
        PROVE  /\ m \in 1..Len(blocks[d]) /\ Enters(blocks'[d][m])
               /\ blocks'[d][m].items = blocks[d][m].items
               /\ blocks'[d][m].tokens = blocks[d][m].tokens
    <3>1. CASE d # c
      BY <1>4, <2>2, <2>3, <3>1
    <3>2. CASE d = c /\ m # n
      BY <1>2, <1>4, <2>2, <2>3, <3>2
    <3>3. CASE d = c /\ m = n
      BY <1>2, <1>8, <2>1, <2>2, <2>3, <3>3
    <3> QED
      BY <3>1, <3>2, <3>3
  <2>4. TokensKept
    BY <2>3 DEF TokensKept
  <2>5. \A d \in Contexts : Len(blocks'[d]) = Len(blocks[d])
    BY <1>2, <2>2
  <2>6. \A d \in Contexts : \A q : EnteredAt(d, q)' = EnteredAt(d, q)
    <3> SUFFICES ASSUME NEW d \in Contexts, NEW q PROVE EnteredAt(d, q)' = EnteredAt(d, q)
      OBVIOUS
    <3>0. /\ EnteredAt(d, q)' = {m \in 1..Len(blocks'[d]) : Has(blocks'[d][m], q)}
          /\ EnteredAt(d, q) = {m \in 1..Len(blocks[d]) : Has(blocks[d][m], q)}
      BY <1>1
    <3>1. \A m \in 1..Len(blocks'[d]) : Has(blocks'[d][m], q) <=> Has(blocks[d][m], q)
      BY <2>3 DEF Has
    <3> QED
      BY <2>5, <3>0, <3>1
  <2>7. BlocksOK'
    <3>1. \A d \in Contexts : \A m \in 1..Len(blocks'[d]) : Enters(blocks[d][m])'
      BY <2>3 DEF Enters
    <3>2. \A d \in Contexts : blocks'[d] # <<>> => d \in alive'
      BY <1>8, <2>2 DEF BlocksOK, InBlock
    <3> QED
      BY <3>1, <3>2 DEF BlocksOK
  <2> QED
    BY <2>2, <2>4, <2>6, <2>7
<1> QED
  BY <1>6, <1>7, <1>8

\* What an interrupt of the entry of p leaves: nothing, an override that is not
\* counted, or one that is.
InterruptedAt(c, p) ==
  \/ UNCHANGED <<provider, value, lost, torn>>
  \/ /\ provider[p].count = 0
     /\ provider' = [provider EXCEPT ![p].provide = "override"]
     /\ torn' = torn \cup {p}
     /\ UNCHANGED <<value, lost>>
  \/ /\ provider' = [provider EXCEPT ![p] = Entering(@)]
     /\ lost' = [lost EXCEPT ![p] = @ + 1]
     /\ value' \in {value, [value EXCEPT ![c][p] = Lost]}
     /\ UNCHANGED torn

LEMMA InterruptIs ==
    ASSUME TypeOK, BlocksOK, NEW c \in Contexts, Interrupt(c)
    PROVE  \E p \in Registered : InterruptedAt(c, p)
<1>1. PICK b, p : b = TopBlock(c) /\ p = b.items[Len(b.tokens) + 1]
  OBVIOUS
<1>2. InBlock(c) /\ b.stage = "entering"
  BY <1>1 DEF Interrupt
<1>3. b = blocks[c][Len(blocks[c])] /\ Len(blocks[c]) \in 1..Len(blocks[c]) /\ b \in Block
  BY <1>1, <1>2, Top
<1>4. Len(b.tokens) < Len(b.items)
  BY <1>2, <1>3 DEF BlocksOK, Enters
<1>5. p \in Registered
  BY <1>1, <1>3, <1>4, Blocks
<1>6. InterruptedAt(c, p)
  BY <1>1 DEF Interrupt, InterruptedAt
<1> QED
  BY <1>5, <1>6

LEMMA QuietIs ==
    ASSUME TypeOK, BlocksOK, NEW c \in Contexts, QuietStep(c)
    PROVE  /\ TypeOK' /\ BlocksOK' /\ TokensKept /\ UNCHANGED <<program, decoration>>
           /\ \A d \in Contexts : \A q : EnteredAt(d, q)' = EnteredAt(d, q)
           /\ \A d \in Contexts, q \in Registered :
                value'[d][q] \in {value[d][q], Lost} \/ blocks[d] = <<>>
           /\ \A q \in Registered : provider'[q].resolved = provider[q].resolved
<1>1. UNCHANGED <<program, decoration>> /\ Registered' = Registered
  BY SameProgram DEF QuietStep, StartBlock, Interrupt, EndBlock, Fork
<1>2. ASSUME blocks' \in [Contexts -> Seq(Block)], value' \in [Contexts -> [Registered -> Given]],
             provider' \in [Registered -> Provides], lost' \in [Registered -> Nat]
      PROVE  TypeOK'
  BY <1>1, <1>2 DEF TypeOK, decoration, Block
<1>3. ASSUME NEW items \in program.blocks, StartBlock(c, items)
      PROVE  /\ TypeOK' /\ BlocksOK' /\ TokensKept /\ UNCHANGED <<value, provider>>
             /\ \A d \in Contexts : \A q : EnteredAt(d, q)' = EnteredAt(d, q)
  <2>1. PICK e : e = [items |-> items, tokens |-> <<>>, stage |-> "entering"]
    OBVIOUS
  <2>2. /\ items \in Seq(Callables) /\ IsInjective(items) /\ items # <<>>
        /\ Range(items) \subseteq Registered
    BY <1>3, Program DEF IsProgram, StartBlock
  <2>3. items \in Seq(Registered) /\ Len(items) \in Nat \ {0}
    <3>1. Len(items) \in Nat \ {0} /\ items = [i \in 1..Len(items) |-> items[i]]
      BY <2>2
    <3>2. \A i \in 1..Len(items) : items[i] \in Registered
      BY <2>2 DEF Range
    <3> QED
      BY <3>1, <3>2
  <2>4. e \in Block /\ Enters(e) /\ e.tokens = <<>>
    BY <2>1, <2>2, <2>3 DEF Block, Enters
  <2>5. c \in alive /\ blocks' = [blocks EXCEPT ![c] = Append(@, e)] /\ UNCHANGED <<alive, value, provider, lost>>
    BY <1>3, <2>1 DEF StartBlock, interrupted
  <2>6. /\ blocks' \in [Contexts -> Seq(Block)] /\ BlocksOK' /\ TokensKept
        /\ \A d \in Contexts : \A q : EnteredAt(d, q)' = EnteredAt(d, q)
    BY <1>1, <2>4, <2>5, QuietBlocks
  <2> QED
    BY <1>2, <2>5, <2>6 DEF TypeOK
<1>4. ASSUME InBlock(c), alive' = alive, TopBlock(c).tokens # <<>>,
             blocks' = SetTop(c, [TopBlock(c) EXCEPT !.stage = "exiting"])
      PROVE  /\ blocks' \in [Contexts -> Seq(Block)] /\ BlocksOK' /\ TokensKept
             /\ \A d \in Contexts : \A q : EnteredAt(d, q)' = EnteredAt(d, q)
  <2>1. PICK b, e : b = TopBlock(c) /\ e = [b EXCEPT !.stage = "exiting"]
    OBVIOUS
  <2>2. b \in Block /\ Enters(b)
    <3>1. b = blocks[c][Len(blocks[c])] /\ Len(blocks[c]) \in 1..Len(blocks[c]) /\ b \in Block
      BY <1>4, <2>1, Top
    <3> QED
      BY <3>1 DEF BlocksOK
  <2>3. e \in Block /\ e.items = b.items /\ e.tokens = b.tokens /\ e.stage = "exiting"
    BY <2>1, <2>2 DEF Block
  <2>4. Enters(e)
    BY <1>4, <2>1, <2>2, <2>3 DEF Enters
  <2>5. blocks' = SetTop(c, e)
    BY <1>4, <2>1
  <2>6. /\ blocks' \in [Contexts -> Seq(Block)] /\ BlocksOK' /\ TokensKept
        /\ \A d \in Contexts : \A q : EnteredAt(d, q)' = EnteredAt(d, q)
    BY <1>1, <1>4, <2>1, <2>3, <2>4, <2>5, QuietBlocks
  <2> QED
    BY <2>6
<1>5. ASSUME Interrupt(c)
      PROVE  /\ TypeOK' /\ BlocksOK' /\ TokensKept
             /\ \A d \in Contexts : \A q : EnteredAt(d, q)' = EnteredAt(d, q)
             /\ \A d \in Contexts, q \in Registered : value'[d][q] \in {value[d][q], Lost}
             /\ \A q \in Registered : provider'[q].resolved = provider[q].resolved
  <2>1. InBlock(c) /\ alive' = alive
    BY <1>5 DEF Interrupt
  <2>2. /\ blocks' \in [Contexts -> Seq(Block)] /\ BlocksOK' /\ TokensKept
        /\ \A d \in Contexts : \A q : EnteredAt(d, q)' = EnteredAt(d, q)
    <3>1. CASE TopBlock(c).tokens # <<>>
      BY <1>4, <1>5, <2>1, <3>1 DEF Interrupt
    <3>2. CASE TopBlock(c).tokens = <<>>
      <4>1. blocks' = [blocks EXCEPT ![c] = Front(@)]
        BY <1>5, <3>2 DEF Interrupt
      <4>2. TopBlock(c) \in Block /\ Enters(TopBlock(c))
        <5>1. /\ TopBlock(c) = blocks[c][Len(blocks[c])] /\ Len(blocks[c]) \in 1..Len(blocks[c])
              /\ TopBlock(c) \in Block
          BY <2>1, Top
        <5> QED
          BY <5>1 DEF BlocksOK
      <4> QED
        BY <1>1, <2>1, <3>2, <4>1, <4>2, QuietBlocks
    <3> QED
      BY <3>1, <3>2
  <2>3. PICK p \in Registered : InterruptedAt(c, p)
    BY <1>5, InterruptIs
  <2>4. provider' \in [Registered -> Provides]
        /\ \A q \in Registered : provider'[q].resolved = provider[q].resolved
    <3>1. CASE provider' = provider
      BY <3>1 DEF TypeOK
    <3>2. CASE provider' = [provider EXCEPT ![p].provide = "override"]
      BY <3>2 DEF TypeOK, Provides
    <3>3. CASE provider' = [provider EXCEPT ![p] = Entering(@)]
      BY <3>3, EnteringIs
    <3> QED
      BY <2>3, <3>1, <3>2, <3>3 DEF InterruptedAt
  <2>5. lost' \in [Registered -> Nat]
    BY <2>3 DEF InterruptedAt, TypeOK
  <2>6. /\ value' \in [Contexts -> [Registered -> Given]]
        /\ \A d \in Contexts, q \in Registered : value'[d][q] \in {value[d][q], Lost}
    <3>1. CASE value' = value
      BY <3>1 DEF TypeOK
    <3>2. CASE value' = [value EXCEPT ![c][p] = Lost]
      <4>1. Lost \in Given
        BY DEF Given
      <4>2. /\ value' \in [Contexts -> [Registered -> Given]] /\ value'[c][p] = Lost
            /\ \A d \in Contexts, q \in Registered :
                 d # c \/ q # p => value'[d][q] = value[d][q]
        BY <3>2, <4>1, ValueSet
      <4> QED
        BY <4>2
    <3> QED
      BY <2>3, <3>1, <3>2 DEF InterruptedAt
  <2> QED
    BY <1>2, <2>2, <2>4, <2>5, <2>6
<1>6. ASSUME EndBlock(c)
      PROVE  /\ TypeOK' /\ BlocksOK' /\ TokensKept /\ UNCHANGED <<value, provider>>
             /\ \A d \in Contexts : \A q : EnteredAt(d, q)' = EnteredAt(d, q)
  <2>1. /\ InBlock(c) /\ UNCHANGED <<alive, value, provider, lost>> /\ TopBlock(c).stage = "in"
        /\ blocks' = SetTop(c, [TopBlock(c) EXCEPT !.stage = "exiting"])
    BY <1>6 DEF EndBlock, interrupted
  <2>2. TopBlock(c).tokens # <<>>
    <3>1. TopBlock(c) = blocks[c][Len(blocks[c])] /\ Len(blocks[c]) \in 1..Len(blocks[c])
      BY <2>1, Top
    <3> QED
      BY <2>1, <3>1 DEF BlocksOK, Enters
  <2> QED
    BY <1>2, <1>4, <2>1, <2>2 DEF TypeOK
<1>7. ASSUME NEW d \in Contexts, Fork(c, d)
      PROVE  /\ TypeOK' /\ BlocksOK' /\ TokensKept /\ provider' = provider
             /\ \A e \in Contexts : \A q : EnteredAt(e, q)' = EnteredAt(e, q)
             /\ \A e \in Contexts : value'[e] = value[e] \/ blocks[e] = <<>>
  <2>1. /\ blocks' = blocks /\ value' = [value EXCEPT ![d] = value[c]] /\ d \notin alive
        /\ alive' = alive \cup {d} /\ UNCHANGED <<provider, lost>>
    BY <1>7 DEF Fork, interrupted
  <2>2. TokensKept
    BY <2>1 DEF TokensKept
  <2>3. BlocksOK' /\ \A e \in Contexts : \A q : EnteredAt(e, q)' = EnteredAt(e, q)
    BY <2>1 DEF BlocksOK, EnteredAt, Enters
  <2>4. \A e \in Contexts : value'[e] = value[e] \/ blocks[e] = <<>>
    BY <2>1 DEF BlocksOK, TypeOK
  <2>5. value' \in [Contexts -> [Registered -> Given]]
    BY <2>1 DEF TypeOK
  <2>6. TypeOK'
    BY <1>2, <2>1, <2>5 DEF TypeOK
  <2> QED
    BY <2>1, <2>2, <2>3, <2>4, <2>6
<1> QED
  BY <1>1, <1>3, <1>5, <1>6, <1>7 DEF QuietStep

-----------------------------------------------------------------------------
(* The counts and the values                                                  *)

LEMMA HeldIs ==
    ASSUME NEW p
    PROVE  \A h : h \in Held(p) <=> \E d \in Contexts : \E m \in EnteredAt(d, p) : h = <<d, m>>
BY DEF Held

\* A step that leaves what is entered alone, and the counts, leaves the count right.
LEMMA SameCounts ==
    ASSUME CountsOK, NEW p \in Registered,
           \A d \in Contexts : EnteredAt(d, p)' = EnteredAt(d, p),
           provider'[p].count = provider[p].count, lost'[p] = lost[p],
           provider[p].count # 0 => provider'[p].provide = "override",
           provider'[p].provide # "override" => provider'[p].provide = provider'[p].dependency,
           provider[p].count = 0 /\ p \notin torn' => provider'[p].provide = provider'[p].dependency
    PROVE  Counted(p)'
<1>1. Held(p)' = Held(p)
  BY DEF Held
<1>2. IsFiniteSet(Held(p)) /\ provider[p].count = Cardinality(Held(p)) + lost[p]
  BY DEF CountsOK, Counted
<1> QED
  BY <1>1, <1>2 DEF Counted

\* Nothing happens to provider p.
LEMMA SameProvider ==
    ASSUME CountsOK, NEW p \in Registered, provider'[p] = provider[p], lost'[p] = lost[p],
           torn \subseteq torn', \A d \in Contexts : EnteredAt(d, p)' = EnteredAt(d, p)
    PROVE  Counted(p)'
<1>1. /\ provider[p].count # 0 => provider[p].provide = "override"
      /\ provider[p].provide # "override" => provider[p].provide = provider[p].dependency
      /\ provider[p].count = 0 /\ p \notin torn => provider[p].provide = provider[p].dependency
  BY DEF CountsOK, Counted
<1> QED
  BY <1>1, SameCounts

LEMMA EnterCounts ==
    ASSUME TypeOK, BlocksOK, CountsOK, NEW c \in Contexts, EnterNext(c)
    PROVE  CountsOK'
<1>1. PICK n, b, k, p : /\ n = Len(blocks[c]) /\ b = blocks[c][n]
                        /\ k = Len(b.tokens) + 1 /\ p = b.items[k]
  OBVIOUS
<1>2. /\ UNCHANGED <<program, lost, torn>> /\ p \in Registered /\ n \notin EnteredAt(c, p)
      /\ \A d \in Contexts : \A q :
           EnteredAt(d, q)' = EnteredAt(d, q) \cup (IF d = c /\ q = p THEN {n} ELSE {})
      /\ provider' = [provider EXCEPT ![p] = Entering(@)]
  <2>1. Entered(c, n, b, k, p)
    BY <1>1, EnterIs
  <2> QED
    BY <2>1 DEF Entered
<1>3. Registered' = Registered
  BY <1>2, SameProgram
<1>4. /\ \A q \in Registered : q # p => provider'[q] = provider[q]
      /\ provider'[p].count = provider[p].count + 1 /\ provider[p].count \in Nat
      /\ provider'[p].provide =
           IF provider[p].count = 0 THEN "override" ELSE provider[p].provide
  BY <1>2, EnteringIs
<1>5. ASSUME NEW q \in Registered, q # p
      PROVE  Counted(q)'
  <2>1. \A d \in Contexts : EnteredAt(d, q)' = EnteredAt(d, q)
    BY <1>2, <1>5
  <2>2. provider'[q] = provider[q]
    BY <1>4, <1>5
  <2> QED
    BY <1>2, <2>1, <2>2, SameProvider
<1>6. Counted(p)'
  <2>1. /\ IsFiniteSet(Held(p)) /\ provider[p].count = Cardinality(Held(p)) + lost[p]
        /\ provider[p].count # 0 => provider[p].provide = "override"
    BY <1>2 DEF CountsOK, Counted
  <2>2. <<c, n>> \notin Held(p)
    BY <1>2, HeldIs
  <2>3. Held(p)' = Held(p) \cup {<<c, n>>}
    <3>1. \A h : h \in Held(p)' <=> \E d \in Contexts : \E m \in EnteredAt(d, p)' : h = <<d, m>>
      BY DEF Held
    <3>2. \A h : h \in Held(p)' <=> h \in Held(p) \/ h = <<c, n>>
      BY <1>2, <3>1, HeldIs
    <3> QED
      BY <3>2
  <2>4. /\ IsFiniteSet(Held(p) \cup {<<c, n>>})
        /\ Cardinality(Held(p) \cup {<<c, n>>}) = Cardinality(Held(p)) + 1
    BY <2>1, <2>2, FS_AddElement
  <2>5. provider'[p].count # 0 /\ provider'[p].provide = "override"
    BY <1>4, <2>1
  <2>6. provider'[p].count = Cardinality(Held(p)') + lost'[p]
    <3>1. Cardinality(Held(p)) \in Nat /\ lost[p] \in Nat /\ lost'[p] = lost[p]
      BY <1>2, <2>1, FS_CardinalityType DEF TypeOK
    <3>2. Cardinality(Held(p)') = Cardinality(Held(p)) + 1
      BY <2>3, <2>4
    <3> QED
      BY <1>4, <2>1, <3>1, <3>2
  <2> QED
    BY <2>3, <2>4, <2>5, <2>6 DEF Counted
<1> QED
  BY <1>3, <1>5, <1>6 DEF CountsOK

\* An override that is held is counted.
LEMMA HeldCounted ==
    ASSUME TypeOK, CountsOK, NEW p \in Registered, NEW c \in Contexts, EnteredAt(c, p) # {}
    PROVE  provider[p].count # 0 /\ provider[p].provide = "override"
<1>1. /\ Held(p) # {} /\ IsFiniteSet(Held(p)) /\ lost[p] \in Nat
      /\ provider[p].count = Cardinality(Held(p)) + lost[p]
  <2>1. Held(p) # {}
    BY HeldIs
  <2>2. IsFiniteSet(Held(p)) /\ provider[p].count = Cardinality(Held(p)) + lost[p]
    BY DEF CountsOK, Counted
  <2>3. lost[p] \in Nat
    BY DEF TypeOK
  <2> QED
    BY <2>1, <2>2, <2>3
<1>2. Cardinality(Held(p)) \in Nat \ {0}
  BY <1>1, FS_EmptySet, FS_CardinalityType
<1>3. provider[p].count # 0
  BY <1>1, <1>2
<1> QED
  BY <1>3 DEF CountsOK, Counted

LEMMA ExitCounts ==
    ASSUME TypeOK, BlocksOK, CountsOK, NEW c \in Contexts, ExitNext(c)
    PROVE  /\ CountsOK' /\ TypeOK'
           /\ \A q \in Registered : provider'[q].resolved = provider[q].resolved
<1>1. PICK n, b, k, p : /\ n = Len(blocks[c]) /\ b = blocks[c][n]
                        /\ k = Len(b.tokens) /\ p = b.items[k]
  OBVIOUS
<1>2. /\ UNCHANGED <<program, decoration, alive, lost, torn>> /\ p \in Registered /\ n \in EnteredAt(c, p)
      /\ \A d \in Contexts : \A q :
           EnteredAt(d, q)' = EnteredAt(d, q) \ (IF d = c /\ q = p THEN {n} ELSE {})
      /\ provider' = [provider EXCEPT ![p] = Leaving(@)]
      /\ blocks' \in [Contexts -> Seq(Block)]
      /\ value' = [value EXCEPT ![c][p] = b.tokens[k]] /\ b.tokens[k] \in Given
  BY <1>1, ExitIs
<1>3. Registered' = Registered
  BY <1>2, SameProgram
<1>4. provider[p].count # 0 /\ provider[p].provide = "override"
  BY <1>2, HeldCounted
<1>5. /\ provider' \in [Registered -> Provides]
      /\ \A q \in Registered : q # p => provider'[q] = provider[q]
      /\ provider'[p].count = provider[p].count - 1 /\ provider[p].count \in Nat \ {0}
      /\ provider'[p].dependency = provider[p].dependency
      /\ provider'[p].resolved = provider[p].resolved
      /\ provider'[p].provide =
           IF provider[p].count = 1 THEN provider[p].dependency ELSE provider[p].provide
  BY <1>2, <1>4, LeavingIs
<1>6. ASSUME NEW q \in Registered, q # p
      PROVE  Counted(q)'
  <2>1. \A d \in Contexts : EnteredAt(d, q)' = EnteredAt(d, q)
    BY <1>2, <1>6
  <2>2. provider'[q] = provider[q]
    BY <1>5, <1>6
  <2> QED
    BY <1>2, <2>1, <2>2, SameProvider
<1>7. Counted(p)'
  <2>1. IsFiniteSet(Held(p)) /\ provider[p].count = Cardinality(Held(p)) + lost[p]
    BY <1>2 DEF CountsOK, Counted
  <2>2. <<c, n>> \in Held(p)
    BY <1>2, HeldIs
  <2>3. Held(p)' = Held(p) \ {<<c, n>>}
    <3>1. \A h : h \in Held(p)' <=> \E d \in Contexts : \E m \in EnteredAt(d, p)' : h = <<d, m>>
      BY DEF Held
    <3>2. \A h : h \in Held(p)' <=> h \in Held(p) /\ h # <<c, n>>
      BY <1>2, <3>1, HeldIs
    <3> QED
      BY <3>2
  <2>4. /\ IsFiniteSet(Held(p) \ {<<c, n>>})
        /\ Cardinality(Held(p) \ {<<c, n>>}) = Cardinality(Held(p)) - 1
    BY <2>1, <2>2, FS_RemoveElement
  <2>5. provider'[p].provide = IF provider'[p].count = 0 THEN provider'[p].dependency
                                                         ELSE "override"
    BY <1>4, <1>5
  <2>6. provider'[p].count = Cardinality(Held(p)') + lost'[p]
    <3>1. Cardinality(Held(p)) \in Nat /\ lost[p] \in Nat /\ lost'[p] = lost[p]
      BY <1>2, <2>1, FS_CardinalityType DEF TypeOK
    <3>2. Cardinality(Held(p)') = Cardinality(Held(p)) - 1
      BY <2>3, <2>4
    <3> QED
      BY <1>5, <2>1, <3>1, <3>2
  <2> QED
    BY <2>3, <2>4, <2>5, <2>6 DEF Counted
<1>8. CountsOK'
  BY <1>3, <1>6, <1>7 DEF CountsOK
<1>9. TypeOK'
  <2>1. value' \in [Contexts -> [Registered -> Given]]
    BY <1>2, ValueSet
  <2> QED
    BY <1>2, <1>3, <1>5, <2>1 DEF TypeOK, decoration, Block
<1> QED
  BY <1>5, <1>8, <1>9

\* ValuesOK of one token, and of one value.
LEMMA TokenIs ==
    ASSUME ValuesOK, NEW d \in Contexts, NEW m \in 1..Len(blocks[d]),
           NEW i \in 1..Len(blocks[d][m].tokens), NEW p \in Registered,
           p = blocks[d][m].items[i], NEW n \in 1..m,
           IsGreatest(n, Below(d, p, m))
    PROVE  blocks[d][m].tokens[i] \in {<<d, n>>, Lost}
BY DEF ValuesOK

LEMMA ValueIs ==
    ASSUME ValuesOK, NEW d \in Contexts, NEW p \in Registered, NEW n,
           IsGreatest(n, EnteredAt(d, p))
    PROVE  value[d][p] \in {<<d, n>>, Lost}
BY DEF ValuesOK, IsGreatest

\* ValuesOK after a step, with the sets of the step.
LEMMA ValuesLater ==
    ASSUME UNCHANGED program,
           \A d \in Contexts, p \in Registered, n \in Nat :
             IsGreatest(n, EnteredAt(d, p)') => value'[d][p] \in {<<d, n>>, Lost},
           \A d \in Contexts : \A m \in 1..Len(blocks'[d]) :
             \A i \in 1..Len(blocks'[d][m].tokens), p \in Registered : \A n \in 1..m :
               p = blocks'[d][m].items[i] /\ IsGreatest(n, Below(d, p, m)')
                 => blocks'[d][m].tokens[i] \in {<<d, n>>, Lost}
    PROVE  ValuesOK'
<1>1. Registered' = Registered
  BY SameProgram
<1>2. ASSUME NEW d \in Contexts, NEW p \in Registered, NEW n \in EnteredAt(d, p)',
             IsGreatest(n, EnteredAt(d, p))'
      PROVE  value'[d][p] \in {<<d, n>>, Lost}
  <2>1. n \in Nat /\ IsGreatest(n, EnteredAt(d, p)')
    BY <1>2 DEF EnteredAt, IsGreatest
  <2> QED
    BY <2>1
<1>3. ASSUME NEW d \in Contexts, NEW m \in 1..Len(blocks'[d]),
             NEW i \in 1..Len(blocks'[d][m].tokens), NEW p \in Registered,
             p = blocks'[d][m].items[i], NEW n \in 1..m,
             IsGreatest(n, Below(d, p, m))'
      PROVE  blocks'[d][m].tokens[i] \in {<<d, n>>, Lost}
  <2>1. IsGreatest(n, Below(d, p, m)')
    BY <1>3 DEF IsGreatest
  <2> QED
    BY <1>3, <2>1
<1> QED
  BY <1>1, <1>2, <1>3 DEF ValuesOK, Lost

\* A step that changes neither the blocks nor the values keeps ValuesOK.
LEMMA ValuesRest ==
    ASSUME ValuesOK, UNCHANGED <<program, blocks, value>>
    PROVE  ValuesOK'
<1>1. \A d \in Contexts : \A q : EnteredAt(d, q)' = EnteredAt(d, q)
  BY DEF EnteredAt
<1>2. ASSUME NEW d \in Contexts, NEW q \in Registered, NEW g \in Nat,
             IsGreatest(g, EnteredAt(d, q)')
      PROVE  value'[d][q] \in {<<d, g>>, Lost}
  <2>1. IsGreatest(g, EnteredAt(d, q))
    BY <1>1, <1>2
  <2>2. value[d][q] \in {<<d, g>>, Lost}
    BY <2>1, ValueIs
  <2> QED
    BY <2>2
<1>3. ASSUME NEW d \in Contexts, NEW m \in 1..Len(blocks'[d]),
             NEW i \in 1..Len(blocks'[d][m].tokens), NEW q \in Registered, NEW g \in 1..m,
             q = blocks'[d][m].items[i],
             IsGreatest(g, Below(d, q, m)')
      PROVE  blocks'[d][m].tokens[i] \in {<<d, g>>, Lost}
  <2>1. /\ m \in 1..Len(blocks[d]) /\ i \in 1..Len(blocks[d][m].tokens)
        /\ q = blocks[d][m].items[i] /\ blocks'[d][m].tokens[i] = blocks[d][m].tokens[i]
    BY <1>3
  <2>2. Below(d, q, m)' = Below(d, q, m)
    BY <1>1 DEF Below
  <2>3. IsGreatest(g, Below(d, q, m))
    BY <1>3, <2>2
  <2>4. blocks[d][m].tokens[i] \in {<<d, g>>, Lost}
    BY <2>1, <2>3, TokenIs
  <2> QED
    BY <2>1, <2>4
<1> QED
  BY <1>2, <1>3, ValuesLater

LEMMA EnterValues ==
    ASSUME TypeOK, BlocksOK, ValuesOK, NEW c \in Contexts, EnterNext(c)
    PROVE  ValuesOK'
<1>1. PICK n, b, k, p : /\ n = Len(blocks[c]) /\ b = blocks[c][n]
                        /\ k = Len(b.tokens) + 1 /\ p = b.items[k]
  OBVIOUS
<1>2. /\ UNCHANGED program /\ p \in Registered /\ n \notin EnteredAt(c, p) /\ n \in Nat \ {0}
      /\ k \in Nat \ {0} /\ \A d \in Contexts : Len(blocks'[d]) = Len(blocks[d])
      /\ \A d \in Contexts : d # c => blocks'[d] = blocks[d]
      /\ \A m \in 1..n : m # n => blocks'[c][m] = blocks[c][m]
      /\ blocks'[c][n].items = b.items /\ Len(blocks'[c][n].tokens) = k
      /\ blocks'[c][n].tokens[k] = value[c][p]
      /\ \A i \in 1..(k - 1) : blocks'[c][n].tokens[i] = b.tokens[i]
      /\ \A d \in Contexts : \A q :
           EnteredAt(d, q)' = EnteredAt(d, q) \cup (IF d = c /\ q = p THEN {n} ELSE {})
      /\ value'[c][p] = <<c, n>>
      /\ \A d \in Contexts, q \in Registered : d # c \/ q # p => value'[d][q] = value[d][q]
  <2>1. Entered(c, n, b, k, p)
    BY <1>1, EnterIs
  <2> QED
    BY <2>1 DEF Entered
<1>3. \A q : EnteredAt(c, q) \subseteq 1..n
  BY <1>1 DEF EnteredAt
<1>4. ASSUME NEW d \in Contexts, NEW q \in Registered, NEW g \in Nat,
             IsGreatest(g, EnteredAt(d, q)')
      PROVE  value'[d][q] \in {<<d, g>>, Lost}
  <2>1. CASE d = c /\ q = p
    <3>1. EnteredAt(d, q)' = EnteredAt(c, p) \cup {n}
      BY <1>2, <2>1
    <3>2. g = n
      BY <1>2, <1>3, <1>4, <3>1 DEF IsGreatest
    <3> QED
      BY <1>2, <2>1, <3>2
  <2>2. CASE d # c \/ q # p
    <3>1. EnteredAt(d, q)' = EnteredAt(d, q) \cup (IF d = c /\ q = p THEN {n} ELSE {})
      BY <1>2
    <3>2. EnteredAt(d, q)' = EnteredAt(d, q)
      BY <2>2, <3>1
    <3>3. value'[d][q] = value[d][q]
      BY <1>2, <2>2
    <3> QED
      BY <1>4, <3>2, <3>3, ValueIs
  <2> QED
    BY <2>1, <2>2
<1>5. ASSUME NEW d \in Contexts, NEW m \in 1..Len(blocks[d]), NEW q
      PROVE  Below(d, q, m)' = Below(d, q, m)
  <2>1. EnteredAt(d, q)' = EnteredAt(d, q) \cup (IF d = c /\ q = p THEN {n} ELSE {})
    BY <1>2
  <2>2. ASSUME d = c PROVE ~(n < m)
    <3>1. m \in 1..n
      BY <1>1, <2>2
    <3> QED
      BY <1>2, <3>1
  <2> QED
    BY <2>1, <2>2 DEF Below
<1>6. ASSUME NEW d \in Contexts, NEW m \in 1..Len(blocks'[d]),
             NEW i \in 1..Len(blocks'[d][m].tokens), NEW q \in Registered, NEW g \in 1..m,
             q = blocks'[d][m].items[i],
             IsGreatest(g, Below(d, q, m)')
      PROVE  blocks'[d][m].tokens[i] \in {<<d, g>>, Lost}
  <2>1. m \in 1..Len(blocks[d])
    BY <1>2, <1>6
  <2>2. Below(d, q, m)' = Below(d, q, m)
    BY <1>5, <2>1
  <2>3. CASE d = c /\ m = n /\ i = k
    <3>1. q = p
      BY <1>1, <1>2, <1>6, <2>3
    <3>2. Below(c, p, n) = EnteredAt(c, p)
      BY <1>2, <1>3 DEF Below
    <3>3. IsGreatest(g, EnteredAt(c, p))
      BY <1>6, <2>2, <2>3, <3>1, <3>2
    <3>4. value[c][p] \in {<<c, g>>, Lost}
      BY <1>2, <3>3, ValueIs
    <3> QED
      BY <1>2, <2>3, <3>4
  <2>4. CASE ~(d = c /\ m = n /\ i = k)
    <3>1. /\ i \in 1..Len(blocks[d][m].tokens) /\ q = blocks[d][m].items[i]
          /\ blocks'[d][m].tokens[i] = blocks[d][m].tokens[i]
      <4>1. CASE d = c /\ m = n
        <5>1. i \in 1..(k - 1)
          BY <1>2, <1>6, <2>4, <4>1
        <5>2. Len(b.tokens) = k - 1
          <6>1. Len(b.tokens) \in Nat
            <7>1. blocks[c] \in Seq(Block) /\ blocks[c] # <<>> /\ n \in 1..Len(blocks[c])
              <8>1. blocks[c] \in Seq(Block) /\ n = Len(blocks[c]) /\ n \in Nat \ {0}
                BY <1>1, <1>2 DEF TypeOK
              <8> HIDE DEF Block
              <8> QED
                BY <8>1
            <7>2. b \in Block
              <8> HIDE DEF Block
              <8> QED
                BY <1>1, <7>1, Elements
            <7> QED
              BY <7>2, Blocks
          <6> QED
            BY <1>1, <6>1
        <5> QED
          BY <1>1, <1>2, <1>6, <4>1, <5>1, <5>2
      <4>2. CASE d = c /\ m # n
        BY <1>1, <1>2, <1>6, <2>1, <4>2
      <4>3. CASE d # c
        BY <1>2, <1>6, <4>3
      <4> QED
        BY <4>1, <4>2, <4>3
    <3>2. IsGreatest(g, Below(d, q, m))
      BY <1>6, <2>2
    <3>3. blocks[d][m].tokens[i] \in {<<d, g>>, Lost}
      BY <2>1, <3>1, <3>2, TokenIs
    <3> QED
      BY <3>1, <3>3
  <2> QED
    BY <2>3, <2>4
<1>7. UNCHANGED program
  BY <1>2
<1> QED
  BY <1>4, <1>6, <1>7, ValuesLater

LEMMA ExitValues ==
    ASSUME TypeOK, BlocksOK, ValuesOK, NEW c \in Contexts, ExitNext(c)
    PROVE  ValuesOK'
<1>1. PICK n, b, k, p : /\ n = Len(blocks[c]) /\ b = blocks[c][n]
                        /\ k = Len(b.tokens) /\ p = b.items[k]
  OBVIOUS
<1>2. /\ UNCHANGED program /\ p \in Registered /\ n \in EnteredAt(c, p) /\ n \in Nat \ {0}
      /\ k \in Nat \ {0} /\ TokensKept
      /\ \A d \in Contexts : \A q :
           EnteredAt(d, q)' = EnteredAt(d, q) \ (IF d = c /\ q = p THEN {n} ELSE {})
      /\ value' = [value EXCEPT ![c][p] = b.tokens[k]] /\ b.tokens[k] \in Given
  BY <1>1, ExitIs
<1>3. \A q : EnteredAt(c, q) \subseteq 1..n
  BY <1>1 DEF EnteredAt
<1>4. /\ value'[c][p] = b.tokens[k]
      /\ \A d \in Contexts, q \in Registered : d # c \/ q # p => value'[d][q] = value[d][q]
  <2> HIDE DEF Given
  <2> QED
    BY <1>2 DEF TypeOK
<1>5. ASSUME NEW d \in Contexts, NEW q \in Registered, NEW g \in Nat,
             IsGreatest(g, EnteredAt(d, q)')
      PROVE  value'[d][q] \in {<<d, g>>, Lost}
  <2>1. CASE d = c /\ q = p
    <3>1. EnteredAt(d, q)' = EnteredAt(c, p) \ {n}
      BY <1>2, <2>1
    <3>2. EnteredAt(c, p) \ {n} = Below(c, p, n)
      BY <1>2, <1>3 DEF Below
    <3>3. g \in 1..n
      BY <1>3, <1>5, <3>1 DEF IsGreatest
    <3>4. n \in 1..Len(blocks[c]) /\ k \in 1..Len(blocks[c][n].tokens) /\ p = blocks[c][n].items[k]
      BY <1>1, <1>2
    <3>5. IsGreatest(g, Below(c, p, n))
      BY <1>5, <3>1, <3>2
    <3>6. blocks[c][n].tokens[k] \in {<<c, g>>, Lost}
      BY <1>2, <3>3, <3>4, <3>5, TokenIs
    <3> QED
      BY <1>1, <1>4, <2>1, <3>6
  <2>2. CASE d # c \/ q # p
    <3>1. EnteredAt(d, q)' = EnteredAt(d, q) /\ value'[d][q] = value[d][q]
      BY <1>2, <1>4, <2>2
    <3> QED
      BY <1>5, <3>1, ValueIs
  <2> QED
    BY <2>1, <2>2
<1>6. ASSUME NEW d \in Contexts, NEW m \in 1..Len(blocks'[d]),
             NEW i \in 1..Len(blocks'[d][m].tokens), NEW q \in Registered, NEW g \in 1..m,
             q = blocks'[d][m].items[i],
             IsGreatest(g, Below(d, q, m)')
      PROVE  blocks'[d][m].tokens[i] \in {<<d, g>>, Lost}
  <2>1. /\ m \in 1..Len(blocks[d]) /\ i \in 1..Len(blocks[d][m].tokens)
        /\ q = blocks[d][m].items[i] /\ blocks'[d][m].tokens[i] = blocks[d][m].tokens[i]
    BY <1>2, <1>6 DEF TokensKept
  <2>2. EnteredAt(d, q)' = EnteredAt(d, q) \ (IF d = c /\ q = p THEN {n} ELSE {})
    BY <1>2
  <2>3. ASSUME d = c PROVE ~(n < m)
    <3>1. m \in 1..n
      BY <1>1, <2>1, <2>3
    <3> QED
      BY <1>2, <3>1
  <2>4. Below(d, q, m)' = Below(d, q, m)
    BY <2>2, <2>3 DEF Below
  <2>5. IsGreatest(g, Below(d, q, m))
    BY <1>6, <2>4
  <2>6. blocks[d][m].tokens[i] \in {<<d, g>>, Lost}
    BY <2>1, <2>5, TokenIs
  <2> QED
    BY <2>1, <2>6
<1>7. UNCHANGED program
  BY <1>2
<1> QED
  BY <1>5, <1>6, <1>7, ValuesLater

\* What an interrupted entry has counted is lost.
LEMMA QuietCounts ==
    ASSUME TypeOK, BlocksOK, CountsOK, NEW c \in Contexts, QuietStep(c)
    PROVE  CountsOK'
<1>1. /\ Registered' = Registered
      /\ \A d \in Contexts : \A q : EnteredAt(d, q)' = EnteredAt(d, q)
  BY QuietIs, SameProgram
<1> SUFFICES ASSUME NEW q \in Registered PROVE Counted(q)'
  BY <1>1 DEF CountsOK
<1>2. /\ provider[q].count # 0 => provider[q].provide = "override"
      /\ provider[q].provide # "override" => provider[q].provide = provider[q].dependency
      /\ provider[q].count = 0 /\ q \notin torn => provider[q].provide = provider[q].dependency
      /\ IsFiniteSet(Held(q)) /\ provider[q].count = Cardinality(Held(q)) + lost[q]
  BY DEF CountsOK, Counted
<1>3. CASE UNCHANGED <<provider, lost, torn>>
  BY <1>1, <1>3, SameProvider
<1>4. CASE Interrupt(c)
  <2>1. PICK p \in Registered : InterruptedAt(c, p)
    BY <1>4, InterruptIs
  <2>2. CASE q # p
    <3>1. provider'[q] = provider[q] /\ lost'[q] = lost[q] /\ torn \subseteq torn'
      BY <2>1, <2>2 DEF InterruptedAt, TypeOK
    <3> QED
      BY <1>1, <3>1, SameProvider
  <2>3. CASE q = p /\ UNCHANGED <<provider, value, lost, torn>>
    BY <1>3, <2>3
  <2>4. CASE /\ q = p /\ provider[p].count = 0
             /\ provider' = [provider EXCEPT ![p].provide = "override"]
             /\ torn' = torn \cup {p} /\ UNCHANGED <<value, lost>>
    <3>1. /\ provider'[q].count = provider[q].count /\ provider'[q].provide = "override"
          /\ lost'[q] = lost[q] /\ q \in torn'
      BY <2>4 DEF TypeOK, Provides
    <3> QED
      BY <1>1, <2>4, <3>1, SameCounts
  <2>5. CASE /\ q = p /\ provider' = [provider EXCEPT ![p] = Entering(@)]
             /\ lost' = [lost EXCEPT ![p] = @ + 1]
    <3>1. /\ provider'[q].count = provider[q].count + 1 /\ provider[q].count \in Nat
          /\ provider'[q].provide =
               IF provider[q].count = 0 THEN "override" ELSE provider[q].provide
      BY <2>5, EnteringIs
    <3>2. lost'[q] = lost[q] + 1 /\ lost[q] \in Nat
      BY <2>5 DEF TypeOK
    <3>3. Held(q)' = Held(q)
      BY <1>1 DEF Held
    <3>4. Cardinality(Held(q)) \in Nat
      BY <1>2, FS_CardinalityType
    <3>5. provider'[q].count = Cardinality(Held(q)) + lost'[q]
      BY <1>2, <3>1, <3>2, <3>4
    <3>6. provider'[q].count # 0 /\ provider'[q].provide = "override"
      BY <1>2, <3>1
    <3> QED
      BY <1>2, <3>3, <3>5, <3>6 DEF Counted
  <2> QED
    BY <2>1, <2>2, <2>3, <2>4, <2>5 DEF InterruptedAt
<1> QED
  BY <1>3, <1>4 DEF QuietStep, StartBlock, EndBlock, Fork, interrupted

LEMMA QuietKeeps ==
    ASSUME TypeOK, BlocksOK, CountsOK, ValuesOK, NEW c \in Contexts, QuietStep(c)
    PROVE  CountsOK' /\ ValuesOK'
<1>1. /\ TokensKept /\ UNCHANGED program
      /\ \A d \in Contexts : \A q : EnteredAt(d, q)' = EnteredAt(d, q)
      /\ \A d \in Contexts, q \in Registered :
           value'[d][q] \in {value[d][q], Lost} \/ blocks[d] = <<>>
  BY QuietIs
<1>2. CountsOK'
  BY QuietCounts
<1>3. ASSUME NEW d \in Contexts, NEW q \in Registered, NEW g \in Nat,
             IsGreatest(g, EnteredAt(d, q)')
      PROVE  value'[d][q] \in {<<d, g>>, Lost}
  <2>1. g \in EnteredAt(d, q) /\ IsGreatest(g, EnteredAt(d, q))
    BY <1>1, <1>3 DEF IsGreatest
  <2>2. blocks[d] # <<>>
    BY <2>1 DEF EnteredAt
  <2> QED
    BY <1>1, <2>1, <2>2, ValueIs
<1>4. ASSUME NEW d \in Contexts, NEW m \in 1..Len(blocks'[d]),
             NEW i \in 1..Len(blocks'[d][m].tokens), NEW q \in Registered, NEW g \in 1..m,
             q = blocks'[d][m].items[i],
             IsGreatest(g, Below(d, q, m)')
      PROVE  blocks'[d][m].tokens[i] \in {<<d, g>>, Lost}
  <2>1. /\ m \in 1..Len(blocks[d]) /\ i \in 1..Len(blocks[d][m].tokens)
        /\ q = blocks[d][m].items[i] /\ blocks'[d][m].tokens[i] = blocks[d][m].tokens[i]
    BY <1>1, <1>4 DEF TokensKept
  <2>2. Below(d, q, m)' = Below(d, q, m)
    BY <1>1 DEF Below
  <2>3. IsGreatest(g, Below(d, q, m))
    BY <1>4, <2>2
  <2>4. blocks[d][m].tokens[i] \in {<<d, g>>, Lost}
    BY <2>1, <2>3, TokenIs
  <2> QED
    BY <2>1, <2>4
<1> QED
  BY <1>1, <1>2, <1>3, <1>4, ValuesLater

-----------------------------------------------------------------------------
(* The invariant, and what follows from it                                    *)

InjectionInv == TypeOK /\ OverridingInv /\ ResolutionInv

LEMMA InitHolds == ASSUME Init PROVE InjectionInv
<1>1. TypeOK
  BY Initially
<1>2. /\ \A c \in Contexts : blocks[c] = <<>>
      /\ \A p \in Registered : provider[p] = NewProvider
      /\ \A t \in Threads : stack[t] = <<>>
      /\ \A f \in program.roots : outcome[f] = "none"
  BY DEF Init
<1>3. \A c \in Contexts : \A p : EnteredAt(c, p) = {}
  BY <1>2 DEF EnteredAt
<1>4. OverridingInv
  <2>1. BlocksOK
    BY <1>2 DEF BlocksOK
  <2>2. \A p : Held(p) = {}
    BY <1>3, HeldIs
  <2>3. IsFiniteSet({}) /\ Cardinality({}) = 0
    BY FS_EmptySet
  <2>5. CountsOK
    <3>1. ASSUME NEW p \in Registered
          PROVE  /\ provider[p].count = 0 /\ provider[p].provide = provider[p].dependency
                 /\ Held(p) = {} /\ lost[p] = 0
      BY <1>2, <2>2 DEF NewProvider, Init
    <3> QED
      BY <2>3, <3>1 DEF CountsOK, Counted
  <2>4. ValuesOK
    BY <1>2, <1>3 DEF ValuesOK
  <2> QED
    BY <2>1, <2>4, <2>5 DEF OverridingInv
<1>5. ResolutionInv
  <2>1. WalksOK
    BY <1>2 DEF WalksOK, Walk, Behind, Path, Apart, Running
  <2>2. GraphOK
    BY <1>2 DEF GraphOK, Resolveds, Decorateds, NewProvider
  <2>3. ErrorsOK
    BY <1>2 DEF ErrorsOK, Justified
  <2> QED
    BY <2>1, <2>2, <2>3 DEF ResolutionInv
<1> QED
  BY <1>1, <1>4, <1>5 DEF InjectionInv

\* A decorator leaves the blocks of overrides as they are, and a provider that is
\* overridden keeps providing the override.
LEMMA DecoratingKeeps ==
    ASSUME InjectionInv, NEW t \in Threads, Decorating(t)
    PROVE  InjectionInv'
<1>1. TypeOK /\ BlocksOK /\ CountsOK /\ ValuesOK /\ ResolutionInv
  BY DEF InjectionInv, OverridingInv
<1>2. /\ TypeOK' /\ ResolutionInv' /\ UNCHANGED <<program, overriding>>
      /\ provider' = provider \/ \E g \in Registered : Resolves(g)
  <2>1. CASE \E f \in program.roots : Decorate(t, f)
    BY <1>1, <2>1, DecorateKeeps
  <2>2. CASE Rejected(t)
    <3>1. Walk(t)
      BY <1>1 DEF ResolutionInv, WalksOK
    <3>2. Raises(t, "refused") /\ "refused" \in Outcomes
      BY <1>1, <2>2, <3>1, RejectedIs DEF Outcomes
    <3>3. UNCHANGED <<program, overriding>>
      BY <2>2 DEF Rejected
    <3> QED
      BY <1>1, <3>2, <3>3, RaisesKeeps
  <2>3. CASE Parameter(t)
    BY <1>1, <2>3, ParameterKeeps
  <2>4. CASE Resolved(t)
    BY <1>1, <2>4, ResolvedKeeps
  <2> QED
    BY <2>1, <2>2, <2>3, <2>4 DEF Decorating
<1>3. UNCHANGED <<program, alive, value, blocks, lost, torn>> /\ Registered' = Registered
  BY <1>2, SameProgram DEF overriding, interrupted
<1>4. \A c \in Contexts : \A p : EnteredAt(c, p)' = EnteredAt(c, p)
  BY <1>3 DEF EnteredAt
<1>5. CountsOK'
  <2>1. ASSUME NEW p \in Registered PROVE Counted(p)'
    <3>1. /\ provider[p].count # 0 => provider[p].provide = "override"
          /\ provider[p].provide # "override" => provider[p].provide = provider[p].dependency
          /\ provider[p].count = 0 /\ p \notin torn
               => provider[p].provide = provider[p].dependency
      BY <1>1 DEF CountsOK, Counted
    <3>2. CASE provider' = provider
      BY <1>1, <1>3, <1>4, <3>2, SameProvider
    <3>3. CASE \E g \in Registered : Resolves(g)
      <4>1. PICK g \in Registered : Resolves(g)
        BY <3>3
      <4>2. /\ provider'[p].count = provider[p].count
            /\ p # g => provider'[p] = provider[p]
            /\ provider'[p].provide =
                 IF p = g /\ provider[p].count = 0 THEN "resolved" ELSE provider[p].provide
            /\ p = g => provider'[p].dependency = "resolved"
        BY <1>1, <4>1, ResolvesIs
      <4>3. /\ provider[p].count # 0 => provider'[p].provide = "override"
            /\ provider'[p].provide # "override"
                 => provider'[p].provide = provider'[p].dependency
            /\ provider[p].count = 0 /\ p \notin torn'
                 => provider'[p].provide = provider'[p].dependency
        BY <1>3, <3>1, <4>2
      <4> QED
        BY <1>1, <1>3, <1>4, <4>2, <4>3, SameCounts
    <3> QED
      BY <1>2, <3>2, <3>3
  <2> QED
    BY <1>3, <2>1 DEF CountsOK
<1>6. BlocksOK' /\ ValuesOK'
  <2>1. BlocksOK'
    BY <1>1, <1>3 DEF BlocksOK, Enters
  <2>2. ValuesOK'
    BY <1>1, <1>3, <1>2, ValuesRest
  <2> QED
    BY <2>1, <2>2
<1> QED
  BY <1>2, <1>5, <1>6 DEF InjectionInv, OverridingInv

\* Overriding leaves the walks, and what is resolved, as they are.
LEMMA OverridingKeeps ==
    ASSUME InjectionInv, NEW c \in Contexts, Overriding(c)
    PROVE  InjectionInv'
<1>1. TypeOK /\ BlocksOK /\ CountsOK /\ ValuesOK /\ ResolutionInv
  BY DEF InjectionInv, OverridingInv
<1>2. CASE QuietStep(c)
  <2>1. /\ TypeOK' /\ BlocksOK' /\ UNCHANGED <<program, decoration>>
        /\ \A q \in Registered : provider'[q].resolved = provider[q].resolved
    BY <1>1, <1>2, QuietIs
  <2>2. CountsOK' /\ ValuesOK'
    BY <1>1, <1>2, QuietKeeps
  <2>3. ResolutionInv'
    BY <1>1, <2>1, OverridingLeaves
  <2> QED
    BY <2>1, <2>2, <2>3 DEF InjectionInv, OverridingInv
<1>3. CASE EnterNext(c)
  <2>1. PICK n, b, k, p : /\ n = Len(blocks[c]) /\ b = blocks[c][n]
                          /\ k = Len(b.tokens) + 1 /\ p = b.items[k]
    OBVIOUS
  <2>2. TypeOK' /\ BlocksOK' /\ Entered(c, n, b, k, p)
    BY <1>1, <1>3, <2>1, EnterIs
  <2>3. CountsOK' /\ ValuesOK'
    BY <1>1, <1>3, EnterCounts, EnterValues
  <2>4. /\ UNCHANGED <<program, decoration>> /\ p \in Registered
        /\ provider' = [provider EXCEPT ![p] = Entering(@)]
    BY <2>2 DEF Entered
  <2>5. \A q \in Registered : provider'[q].resolved = provider[q].resolved
    BY <1>1, <2>4, EnteringIs
  <2>6. ResolutionInv'
    BY <1>1, <2>4, <2>5, OverridingLeaves
  <2> QED
    BY <2>2, <2>3, <2>6 DEF InjectionInv, OverridingInv
<1>4. CASE ExitNext(c)
  <2>1. BlocksOK' /\ UNCHANGED <<program, decoration>>
    <3>1. PICK n, b, k, p : /\ n = Len(blocks[c]) /\ b = blocks[c][n]
                            /\ k = Len(b.tokens) /\ p = b.items[k]
      OBVIOUS
    <3> QED
      BY <1>1, <1>4, <3>1, ExitIs
  <2>2. /\ CountsOK' /\ TypeOK'
        /\ \A q \in Registered : provider'[q].resolved = provider[q].resolved
    BY <1>1, <1>4, ExitCounts
  <2>3. ValuesOK'
    BY <1>1, <1>4, ExitValues
  <2>4. ResolutionInv'
    BY <1>1, <2>1, <2>2, OverridingLeaves
  <2> QED
    BY <2>1, <2>2, <2>3, <2>4 DEF InjectionInv, OverridingInv
<1> QED
  BY <1>2, <1>3, <1>4 DEF Overriding, QuietStep

LEMMA StutterKeeps == ASSUME InjectionInv, UNCHANGED vars PROVE InjectionInv'
<1>1. TypeOK /\ BlocksOK /\ CountsOK /\ ValuesOK /\ ResolutionInv
  BY DEF InjectionInv, OverridingInv
<1>2. /\ UNCHANGED <<program, provider, decoration, alive, value, blocks, lost, torn>>
      /\ UNCHANGED <<stack, resolving, outcome>>
  BY DEF vars, overriding, interrupted, decoration
<1>3. Registered' = Registered
  BY <1>2, SameProgram
<1>4. TypeOK'
  BY <1>1, <1>2, <1>3 DEF TypeOK, Block
<1>5. \A c \in Contexts : \A p : EnteredAt(c, p)' = EnteredAt(c, p)
  BY <1>2 DEF EnteredAt
<1>6. BlocksOK' /\ ValuesOK'
  <2>1. BlocksOK'
    BY <1>1, <1>2 DEF BlocksOK, Enters
  <2>2. ValuesOK'
    BY <1>1, <1>2, ValuesRest
  <2> QED
    BY <2>1, <2>2
<1>7. CountsOK'
  <2>1. \A p \in Registered : Held(p)' = Held(p)
    BY <1>5 DEF Held
  <2> QED
    BY <1>1, <1>2, <1>3, <2>1 DEF CountsOK, Counted
<1>8. ResolutionInv'
  BY <1>1, <1>2, OverridingLeaves
<1> QED
  BY <1>4, <1>6, <1>7, <1>8 DEF InjectionInv, OverridingInv

\* The types, what the blocks keep and what the walks have found, in every
\* execution of every program.
THEOREM InjectionInvariant == Spec => []InjectionInv
<1>1. Init => InjectionInv
  BY InitHolds
<1>2. InjectionInv /\ [Next]_vars => InjectionInv'
  BY DecoratingKeeps, OverridingKeeps, StutterKeeps DEF Next
<1> QED
  BY <1>1, <1>2, PTL DEF Spec

\* Every variable keeps its type: a provider has a count that is never negative,
\* a context has a value for every provider, a walk is one of callables.
THEOREM TypeCorrect == Spec => []TypeOK
<1>1. InjectionInv => TypeOK
  BY DEF InjectionInv
<1> QED
  BY <1>1, InjectionInvariant, PTL

\* A provider counts the overrides held and those an interrupt lost, in whatever
\* order the contexts end theirs and whatever is decorated in between.  Once it counts
\* none it gives its dependency again, unless an entry was cut before the count
\* (overriding.py:88-126, _provide.py:66-71).
THEOREM OverridesEndAtLast == Spec => []OverridesEnd
<1>1. InjectionInv => OverridesEnd
  BY DEF InjectionInv, OverridingInv, CountsOK, Counted, OverridesEnd
<1> QED
  BY <1>1, InjectionInvariant, PTL

LEMMA OwnFirst == ASSUME InjectionInv PROVE OwnOverride
<1> SUFFICES ASSUME NEW c \in Contexts, NEW p \in Registered, EnteredAt(c, p) # {},
                    value[c][p] # Lost
             PROVE  Seen(c, p) = <<c, CHOOSE n \in EnteredAt(c, p) :
                                        \A m \in EnteredAt(c, p) : m <= n>>
  BY DEF OwnOverride
<1>1. CountsOK /\ ValuesOK /\ TypeOK
  BY DEF InjectionInv, OverridingInv
<1>2. provider[p].provide = "override"
  BY <1>1, HeldCounted
<1>3. PICK n \in EnteredAt(c, p) : \A m \in EnteredAt(c, p) : m <= n
  <2>1. Len(blocks[c]) \in Nat
    <3>1. blocks[c] \in Seq(Block)
      BY <1>1 DEF TypeOK
    <3> HIDE DEF Block
    <3> QED
      BY <3>1
  <2>2. EnteredAt(c, p) \subseteq 1..Len(blocks[c])
    BY DEF EnteredAt
  <2> QED
    BY <2>1, <2>2, Greatest
<1>4. value[c][p] = <<c, n>>
  BY <1>1, <1>3, ValueIs DEF IsGreatest
<1>5. Seen(c, p) = <<c, n>>
  BY <1>2, <1>4 DEF Seen, Unset
<1>6. n = CHOOSE x \in EnteredAt(c, p) : \A m \in EnteredAt(c, p) : m <= x
  <2>1. \A x \in EnteredAt(c, p) : x \in Int
    BY DEF EnteredAt
  <2>2. \A x \in EnteredAt(c, p) : (\A m \in EnteredAt(c, p) : m <= x) => x = n
    BY <1>3, <2>1
  <2> QED
    BY <1>3, <2>2
<1> QED
  BY <1>5, <1>6

\* A call made inside a block gets the value of the innermost override that its own
\* context entered, in every interleaving with the blocks and decorators of the
\* others (overriding.py:88-105, _provide.py:59-71).
THEOREM OwnOverrideFirst == Spec => []OwnOverride
BY InjectionInvariant, OwnFirst, PTL

LEMMA ResolvedSoundly == ASSUME InjectionInv PROVE ResolutionSound
<1>1. TypeOK /\ GraphOK /\ ErrorsOK
  BY DEF InjectionInv, ResolutionInv
<1> DEFINE Awaits(g) == /\ program.kind[g] \in {"sync", "generator"}
                        /\ \E d \in Range(Deps(g)) : program.kind[d] = "coroutine"
<1>2. ASSUME NEW g \in Callables PROVE Awaits(g) <=> Unawaitable(g)
  <2>1. program.kind[g] \in Kinds
    BY <1>1, Program DEF IsProgram
  <2> QED
    BY <2>1 DEF Unawaitable, AwaitsNothing, IsAsync, Kinds
<1> SUFFICES ASSUME NEW f \in program.roots
             PROVE  /\ outcome[f] = "ok" => /\ ~Cycle(f) /\ ~Refuses(f)
                                            /\ ~\E g \in Reachable(f) \cup {f} : Awaits(g)
                                            /\ \A g \in Reachable(f) : provider[g].resolved
                    /\ outcome[f] = "circular" => Cycle(f)
                    /\ outcome[f] = "async" => \E g \in Reachable(f) \cup {f} : Awaits(g)
                    /\ outcome[f] = "refused" => Refuses(f)
  BY DEF ResolutionSound
<1>3. f \in Callables /\ Reachable(f) \subseteq Callables
  BY <1>1, Program, ReachableGrows DEF IsProgram
<1>4. Justified(f, outcome[f])
  BY <1>1 DEF ErrorsOK
<1>5. ASSUME outcome[f] = "ok"
      PROVE  /\ ~Cycle(f) /\ ~Refuses(f) /\ ~\E g \in Reachable(f) \cup {f} : Awaits(g)
             /\ \A g \in Reachable(f) : provider[g].resolved
  <2>1. Runnable(f)
    BY <1>1, <1>5 DEF GraphOK, Decorateds
  <2>2. Reachable(f) \subseteq Resolveds
    BY <1>1, <1>3, <2>1, ResolvedReach DEF Runnable
  <2>3. \A g \in Reachable(f) \cup {f} : Runnable(g) /\ g \in Callables
    BY <1>1, <1>3, <2>1, <2>2 DEF GraphOK
  <2>4. ~Cycle(f)
    BY <2>3 DEF Cycle, Runnable
  <2>5. ~Refuses(f)
    BY <2>3 DEF Refuses, Runnable
  <2>6. ~\E g \in Reachable(f) \cup {f} : Awaits(g)
    BY <1>2, <2>3 DEF Runnable
  <2>7. \A g \in Reachable(f) : provider[g].resolved
    BY <2>2 DEF Resolveds
  <2> QED
    BY <2>4, <2>5, <2>6, <2>7
<1>6. outcome[f] = "async" => \E g \in Reachable(f) \cup {f} : Awaits(g)
  BY <1>2, <1>3, <1>4 DEF Justified
<1> QED
  BY <1>4, <1>5, <1>6 DEF Justified

\* A decorator that returns leaves a graph that can be run, without a cycle and all
\* resolved; one that raises had the reason it gives: for every graph, in every order
\* of decorators and threads, and after others have failed half way
\* (injection.py:155-175, 259-285).
THEOREM ResolutionIsSound == Spec => []ResolutionSound
BY InjectionInvariant, ResolvedSoundly, PTL

-----------------------------------------------------------------------------
(* Tasks started outside of every block                                       *)

\* The steps of programs that start no task inside a block of overrides.
NextOutside == Next /\ ~\E c, d \in Contexts : Fork(c, d) /\ InBlock(c)

\* Nothing, or what an interrupted entry of p left.
NoOnes(v, p) == v = Unset \/ (v = Lost /\ lost[p] # 0)

\* Where no block has entered an override of p there is none, neither for the
\* calls made now nor for a block to put back.
UnsetOK ==
  \A c \in Contexts, p \in Registered :
    /\ EnteredAt(c, p) = {} => NoOnes(value[c][p], p)
    /\ \A m \in 1..Len(blocks[c]) : \A i \in 1..Len(blocks[c][m].tokens) :
         p = blocks[c][m].items[i] /\ Below(c, p, m) = {} => NoOnes(blocks[c][m].tokens[i], p)

\* UnsetOK after a step, with the sets of the step.
LEMMA UnsetLater ==
    ASSUME TypeOK, UNCHANGED program,
           \A p \in Registered : lost'[p] \in {lost[p], lost[p] + 1},
           \A d \in Contexts, p \in Registered :
             EnteredAt(d, p)' = {} => NoOnes(value'[d][p], p) \/ NoOnes(value[d][p], p)',
           \A d \in Contexts : \A m \in 1..Len(blocks'[d]) :
             \A i \in 1..Len(blocks'[d][m].tokens), p \in Registered :
               p = blocks'[d][m].items[i] /\ Below(d, p, m)' = {}
                 => NoOnes(blocks'[d][m].tokens[i], p)
    PROVE  UnsetOK'
<1>1. Registered' = Registered
  BY SameProgram
<1>2. \A p \in Registered : lost[p] # 0 => lost'[p] # 0
  BY DEF TypeOK
<1>3. ASSUME NEW d \in Contexts, NEW p \in Registered, EnteredAt(d, p)' = {}
      PROVE  NoOnes(value[d][p], p)'
  BY <1>2, <1>3 DEF NoOnes, Unset, Lost
<1>4. ASSUME NEW d \in Contexts, NEW m \in 1..Len(blocks'[d]),
             NEW i \in 1..Len(blocks'[d][m].tokens), NEW p \in Registered,
             p = blocks'[d][m].items[i], Below(d, p, m)' = {}
      PROVE  NoOnes(blocks[d][m].tokens[i], p)'
  <2>1. NoOnes(blocks'[d][m].tokens[i], p)
    BY <1>4
  <2> QED
    BY <1>2, <2>1 DEF NoOnes, Unset, Lost
<1> QED
  BY <1>1, <1>3, <1>4 DEF UnsetOK

\* UnsetOK of one token, and of one value.
LEMMA UnsetToken ==
    ASSUME UnsetOK, NEW d \in Contexts, NEW m \in 1..Len(blocks[d]),
           NEW i \in 1..Len(blocks[d][m].tokens), NEW p \in Registered,
           p = blocks[d][m].items[i], Below(d, p, m) = {}
    PROVE  NoOnes(blocks[d][m].tokens[i], p)
BY DEF UnsetOK

LEMMA UnsetValue ==
    ASSUME UnsetOK, NEW d \in Contexts, NEW p \in Registered, EnteredAt(d, p) = {}
    PROVE  NoOnes(value[d][p], p)
BY DEF UnsetOK

\* The first block to enter an override of p keeps what was there before: nothing.
LEMMA EnterUnset ==
    ASSUME TypeOK, BlocksOK, UnsetOK, NEW c \in Contexts, EnterNext(c)
    PROVE  UnsetOK'
<1>1. PICK n, b, k, p : /\ n = Len(blocks[c]) /\ b = blocks[c][n]
                        /\ k = Len(b.tokens) + 1 /\ p = b.items[k]
  OBVIOUS
<1>2. /\ UNCHANGED <<program, lost>> /\ p \in Registered /\ n \in Nat \ {0}
      /\ k \in Nat \ {0} /\ \A d \in Contexts : Len(blocks'[d]) = Len(blocks[d])
      /\ \A d \in Contexts : d # c => blocks'[d] = blocks[d]
      /\ \A m \in 1..n : m # n => blocks'[c][m] = blocks[c][m]
      /\ blocks'[c][n].items = b.items /\ Len(blocks'[c][n].tokens) = k
      /\ blocks'[c][n].tokens[k] = value[c][p]
      /\ \A i \in 1..(k - 1) : blocks'[c][n].tokens[i] = b.tokens[i]
      /\ \A d \in Contexts : \A q :
           EnteredAt(d, q)' = EnteredAt(d, q) \cup (IF d = c /\ q = p THEN {n} ELSE {})
      /\ \A d \in Contexts, q \in Registered : d # c \/ q # p => value'[d][q] = value[d][q]
  <2>1. Entered(c, n, b, k, p)
    BY <1>1, EnterIs
  <2> QED
    BY <2>1 DEF Entered
<1>3. \A q : EnteredAt(c, q) \subseteq 1..n
  BY <1>1 DEF EnteredAt
<1>4. ASSUME NEW d \in Contexts, NEW q \in Registered, EnteredAt(d, q)' = {}
      PROVE  NoOnes(value'[d][q], q)
  <2>1. EnteredAt(d, q)' = EnteredAt(d, q) \cup (IF d = c /\ q = p THEN {n} ELSE {})
    BY <1>2
  <2>2. (d # c \/ q # p) /\ EnteredAt(d, q) = {}
    BY <1>4, <2>1
  <2> QED
    BY <1>2, <2>2, UnsetValue
<1>5. ASSUME NEW d \in Contexts, NEW m \in 1..Len(blocks[d]), NEW q
      PROVE  Below(d, q, m)' = Below(d, q, m)
  <2>1. EnteredAt(d, q)' = EnteredAt(d, q) \cup (IF d = c /\ q = p THEN {n} ELSE {})
    BY <1>2
  <2>2. ASSUME d = c PROVE ~(n < m)
    <3>1. m \in 1..n
      BY <1>1, <2>2
    <3> QED
      BY <1>2, <3>1
  <2> QED
    BY <2>1, <2>2 DEF Below
<1>6. ASSUME NEW d \in Contexts, NEW m \in 1..Len(blocks'[d]),
             NEW i \in 1..Len(blocks'[d][m].tokens), NEW q \in Registered,
             q = blocks'[d][m].items[i], Below(d, q, m)' = {}
      PROVE  NoOnes(blocks'[d][m].tokens[i], q)
  <2>1. m \in 1..Len(blocks[d])
    BY <1>2, <1>6
  <2>2. Below(d, q, m) = {}
    <3>1. Below(d, q, m)' = Below(d, q, m)
      BY <1>5, <2>1
    <3> QED
      BY <1>6, <3>1
  <2>3. CASE d = c /\ m = n /\ i = k
    <3>1. q = p
      BY <1>1, <1>2, <1>6, <2>3
    <3>2. \A x \in EnteredAt(c, p) : x \in 1..n /\ ~(x < n)
      BY <1>3, <2>2, <2>3, <3>1 DEF Below
    <3>3. CASE EnteredAt(c, p) = {}
      <4>1. blocks'[d][m].tokens[i] = value[c][p]
        BY <1>2, <2>3
      <4>2. NoOnes(value[c][p], p)
        BY <1>2, <3>3, UnsetValue
      <4> QED
        BY <3>1, <4>1, <4>2
    <3>4. CASE EnteredAt(c, p) # {}
      <4>1. n \in EnteredAt(c, p)
        BY <1>2, <3>2, <3>4
      <4>2. n \notin EnteredAt(c, p)
        <5>1. Entered(c, n, b, k, p)
          BY <1>1, EnterIs
        <5> QED
          BY <5>1 DEF Entered
      <4> QED
        BY <4>1, <4>2
    <3> QED
      BY <3>3, <3>4
  <2>4. CASE ~(d = c /\ m = n /\ i = k)
    <3>1. /\ i \in 1..Len(blocks[d][m].tokens) /\ q = blocks[d][m].items[i]
          /\ blocks'[d][m].tokens[i] = blocks[d][m].tokens[i]
      <4>1. CASE d = c /\ m = n
        <5>1. i \in 1..(k - 1)
          BY <1>2, <1>6, <2>4, <4>1
        <5>2. Len(b.tokens) = k - 1
          <6>1. InBlock(c)
            BY DEF EnterNext
          <6>2. b \in Block
            BY <1>1, <6>1, Top
          <6>3. Len(b.tokens) \in Nat
            BY <6>2, Blocks
          <6>4. k = Len(b.tokens) + 1
            BY <1>1
          <6> QED
            BY <6>3, <6>4
        <5>3. blocks[d][m] = b /\ blocks'[d][m] = blocks'[c][n]
          BY <1>1, <4>1
        <5>4. q = b.items[i] /\ blocks'[d][m].tokens[i] = b.tokens[i]
          BY <1>2, <1>6, <4>1, <5>1
        <5>5. i \in 1..Len(b.tokens)
          BY <5>1, <5>2
        <5> QED
          BY <5>3, <5>4, <5>5
      <4>2. CASE d = c /\ m # n
        BY <1>1, <1>2, <1>6, <2>1, <4>2
      <4>3. CASE d # c
        BY <1>2, <1>6, <4>3
      <4> QED
        BY <4>1, <4>2, <4>3
    <3> QED
      BY <2>1, <2>2, <3>1, UnsetToken
  <2> QED
    BY <2>3, <2>4
<1>7. UNCHANGED <<program, lost>>
  BY <1>2
<1> QED
  BY <1>4, <1>6, <1>7, UnsetLater

\* What the last block puts back when it ends the only override of p is nothing.
LEMMA ExitUnset ==
    ASSUME TypeOK, BlocksOK, UnsetOK, NEW c \in Contexts, ExitNext(c)
    PROVE  UnsetOK'
<1>1. PICK n, b, k, p : /\ n = Len(blocks[c]) /\ b = blocks[c][n]
                        /\ k = Len(b.tokens) /\ p = b.items[k]
  OBVIOUS
<1>2. /\ UNCHANGED <<program, lost>> /\ p \in Registered /\ n \in EnteredAt(c, p) /\ n \in Nat \ {0}
      /\ k \in Nat \ {0} /\ TokensKept
      /\ \A d \in Contexts : \A q :
           EnteredAt(d, q)' = EnteredAt(d, q) \ (IF d = c /\ q = p THEN {n} ELSE {})
      /\ value' = [value EXCEPT ![c][p] = b.tokens[k]] /\ b.tokens[k] \in Given
  BY <1>1, ExitIs
<1>3. \A q : EnteredAt(c, q) \subseteq 1..n
  BY <1>1 DEF EnteredAt
<1>4. /\ value'[c][p] = b.tokens[k]
      /\ \A d \in Contexts, q \in Registered : d # c \/ q # p => value'[d][q] = value[d][q]
  <2> HIDE DEF Given
  <2> QED
    BY <1>2 DEF TypeOK
<1>5. ASSUME NEW d \in Contexts, NEW q \in Registered, EnteredAt(d, q)' = {}
      PROVE  NoOnes(value'[d][q], q)
  <2>1. CASE d = c /\ q = p
    <3>1. EnteredAt(c, p) \ {n} = {}
      BY <1>2, <1>5, <2>1
    <3>2. Below(c, p, n) = {}
      BY <1>2, <3>1 DEF Below
    <3>3. n \in 1..Len(blocks[c]) /\ k \in 1..Len(blocks[c][n].tokens) /\ p = blocks[c][n].items[k]
      BY <1>1, <1>2
    <3>4. NoOnes(blocks[c][n].tokens[k], p)
      BY <1>2, <3>2, <3>3, UnsetToken
    <3> QED
      BY <1>1, <1>4, <2>1, <3>4
  <2>2. CASE d # c \/ q # p
    <3>1. EnteredAt(d, q)' = EnteredAt(d, q) /\ value'[d][q] = value[d][q]
      BY <1>2, <1>4, <2>2
    <3> QED
      BY <1>5, <3>1, UnsetValue
  <2> QED
    BY <2>1, <2>2
<1>6. ASSUME NEW d \in Contexts, NEW m \in 1..Len(blocks'[d]),
             NEW i \in 1..Len(blocks'[d][m].tokens), NEW q \in Registered,
             q = blocks'[d][m].items[i], Below(d, q, m)' = {}
      PROVE  NoOnes(blocks'[d][m].tokens[i], q)
  <2>1. /\ m \in 1..Len(blocks[d]) /\ i \in 1..Len(blocks[d][m].tokens)
        /\ q = blocks[d][m].items[i] /\ blocks'[d][m].tokens[i] = blocks[d][m].tokens[i]
    BY <1>2, <1>6 DEF TokensKept
  <2>2. EnteredAt(d, q)' = EnteredAt(d, q) \ (IF d = c /\ q = p THEN {n} ELSE {})
    BY <1>2
  <2>3. ASSUME d = c PROVE ~(n < m)
    <3>1. m \in 1..n
      BY <1>1, <2>1, <2>3
    <3> QED
      BY <1>2, <3>1
  <2>4. Below(d, q, m) = {}
    BY <1>6, <2>2, <2>3 DEF Below
  <2> QED
    BY <2>1, <2>4, UnsetToken
<1>7. UNCHANGED <<program, lost>>
  BY <1>2
<1> QED
  BY <1>5, <1>6, <1>7, UnsetLater

\* A task started outside of every block gets nothing to put back.
LEMMA QuietUnset ==
    ASSUME TypeOK, BlocksOK, UnsetOK, NEW c \in Contexts, QuietStep(c),
           ~\E d \in Contexts : Fork(c, d) /\ InBlock(c)
    PROVE  UnsetOK'
<1>1. /\ TokensKept /\ UNCHANGED program
      /\ \A d \in Contexts : \A q : EnteredAt(d, q)' = EnteredAt(d, q)
  BY QuietIs
<1>2. ASSUME NEW d \in Contexts, NEW q \in Registered, EnteredAt(d, q)' = {}
      PROVE  NoOnes(value'[d][q], q) \/ NoOnes(value[d][q], q)'
  <2>1. EnteredAt(d, q) = {} /\ NoOnes(value[d][q], q)
    BY <1>1, <1>2, UnsetValue
  <2>2. CASE value' = value
    BY <2>1, <2>2
  <2>3. CASE \E e \in Contexts : Fork(c, e)
    <3>1. PICK e \in Contexts : Fork(c, e)
      BY <2>3
    <3>2. blocks[c] = <<>> /\ value' = [value EXCEPT ![e] = value[c]]
      BY <3>1 DEF Fork, InBlock
    <3>3. EnteredAt(c, q) = {}
      BY <3>2 DEF EnteredAt
    <3>4. NoOnes(value[c][q], q)
      BY <3>3, UnsetValue
    <3>5. value'[d] = IF d = e THEN value[c] ELSE value[d]
      BY <3>2 DEF TypeOK
    <3> QED
      BY <2>1, <3>4, <3>5
  <2>4. CASE Interrupt(c) /\ value' # value
    <3>1. PICK p \in Registered : InterruptedAt(c, p)
      BY <2>4, InterruptIs
    <3>2. value' = [value EXCEPT ![c][p] = Lost] /\ lost' = [lost EXCEPT ![p] = @ + 1]
      BY <2>4, <3>1 DEF InterruptedAt
    <3>3. CASE d = c /\ q = p
      <4>1. value'[d][q] = Lost /\ lost'[q] = lost[q] + 1 /\ lost[q] \in Nat
        BY <3>2, <3>3 DEF TypeOK
      <4> QED
        BY <4>1 DEF NoOnes, Lost
    <3>4. CASE d # c \/ q # p
      <4>1. value'[d][q] = value[d][q]
        BY <3>2, <3>4 DEF TypeOK
      <4> QED
        BY <2>1, <4>1
    <3> QED
      BY <3>3, <3>4
  <2> QED
    BY <2>2, <2>3, <2>4 DEF QuietStep, StartBlock, EndBlock
<1>4. \A q \in Registered : lost'[q] \in {lost[q], lost[q] + 1}
  <2>1. CASE lost' = lost
    BY <2>1
  <2>2. CASE Interrupt(c)
    <3>1. PICK p \in Registered : InterruptedAt(c, p)
      BY <2>2, InterruptIs
    <3> QED
      BY <3>1 DEF InterruptedAt, TypeOK
  <2> QED
    BY <2>1, <2>2 DEF QuietStep, StartBlock, EndBlock, Fork, interrupted
<1>3. ASSUME NEW d \in Contexts, NEW m \in 1..Len(blocks'[d]),
             NEW i \in 1..Len(blocks'[d][m].tokens), NEW q \in Registered,
             q = blocks'[d][m].items[i], Below(d, q, m)' = {}
      PROVE  NoOnes(blocks'[d][m].tokens[i], q)
  <2>1. /\ m \in 1..Len(blocks[d]) /\ i \in 1..Len(blocks[d][m].tokens)
        /\ q = blocks[d][m].items[i] /\ blocks'[d][m].tokens[i] = blocks[d][m].tokens[i]
    BY <1>1, <1>3 DEF TokensKept
  <2>2. Below(d, q, m) = {}
    BY <1>1, <1>3 DEF Below
  <2> QED
    BY <2>1, <2>2, UnsetToken
<1> QED
  BY <1>1, <1>2, <1>3, <1>4, UnsetLater

\* Decorators touch neither the blocks nor the values.
LEMMA UnsetStays ==
    ASSUME UnsetOK, UNCHANGED <<program, value, blocks, lost>>
    PROVE  UnsetOK'
<1>1. Registered' = Registered
  BY SameProgram
<1>2. \A c \in Contexts : \A q : EnteredAt(c, q)' = EnteredAt(c, q)
  BY DEF EnteredAt
<1>3. \A c \in Contexts : \A q, m : Below(c, q, m)' = Below(c, q, m)
  BY <1>2 DEF Below
<1> QED
  BY <1>1, <1>2, <1>3 DEF UnsetOK, NoOnes, Unset, Lost

LEMMA UnsetInit == ASSUME Init PROVE UnsetOK
<1>1. \A c \in Contexts : blocks[c] = <<>>
  BY DEF Init
<1>2. \A c \in Contexts, p \in Registered : value[c][p] = Unset
  BY DEF Init
<1> QED
  BY <1>1, <1>2 DEF UnsetOK, NoOnes

LEMMA UnsetKept ==
    ASSUME InjectionInv, UnsetOK, [NextOutside]_vars
    PROVE  UnsetOK'
<1>1. TypeOK /\ BlocksOK
  BY DEF InjectionInv, OverridingInv
<1>2. CASE \E t \in Threads : Decorating(t)
  <2>1. UNCHANGED <<program, overriding>>
    BY <1>2 DEF Decorating, Decorate, Rejected, Parameter, Resolved
  <2> QED
    BY <2>1, UnsetStays DEF overriding, interrupted
<1>3. ASSUME NEW c \in Contexts, Overriding(c), NextOutside
      PROVE  UnsetOK'
  <2>1. CASE QuietStep(c)
    BY <1>1, <1>3, <2>1, QuietUnset DEF NextOutside
  <2>2. CASE EnterNext(c)
    BY <1>1, <2>2, EnterUnset
  <2>3. CASE ExitNext(c)
    BY <1>1, <2>3, ExitUnset
  <2> QED
    BY <1>3, <2>1, <2>2, <2>3 DEF Overriding, QuietStep
<1>4. CASE UNCHANGED vars
  BY <1>4, UnsetStays DEF vars, overriding, interrupted
<1> QED
  BY <1>2, <1>3, <1>4 DEF NextOutside, Next

\* Outside of its own overrides a context gets the dependency, unless an interrupt
\* left a value in it.
DependencySeen ==
  \A c \in Contexts, p \in Registered :
    EnteredAt(c, p) = {} /\ value[c][p] # Lost => Seen(c, p) = <<provider[p].dependency>>

LEMMA SeenUnset == ASSUME InjectionInv, UnsetOK PROVE DependencySeen
<1> SUFFICES ASSUME NEW c \in Contexts, NEW p \in Registered, EnteredAt(c, p) = {},
                    value[c][p] # Lost
             PROVE  Seen(c, p) = <<provider[p].dependency>>
  BY DEF DependencySeen
<1>1. value[c][p] = Unset
  BY UnsetValue DEF NoOnes
<1>2. provider[p].provide # "override" => provider[p].provide = provider[p].dependency
  BY DEF InjectionInv, OverridingInv, CountsOK, Counted
<1> QED
  BY <1>1, <1>2 DEF Seen

LEMMA SeenOwn ==
    ASSUME InjectionInv, UnsetOK, NEW c \in Contexts, NEW p \in Registered,
           Seen(c, p) = <<provider[p].dependency>>
    PROVE  EnteredAt(c, p) = {} /\ value[c][p] # Lost
<1>1. TypeOK /\ CountsOK
  BY DEF InjectionInv, OverridingInv
<1>2. ASSUME value[c][p] = Lost PROVE FALSE
  <2>1. provider[p].count # 0
    <3>1. CASE EnteredAt(c, p) # {}
      BY <1>1, <3>1, HeldCounted
    <3>2. CASE EnteredAt(c, p) = {}
      <4>1. lost[p] \in Nat \ {0}
        <5>1. NoOnes(value[c][p], p) /\ Lost # Unset
          BY <3>2, UnsetValue DEF Lost, Unset
        <5>2. lost[p] # 0
          BY <1>2, <5>1 DEF NoOnes
        <5> QED
          BY <1>1, <5>2 DEF TypeOK
      <4>2. Cardinality(Held(p)) \in Nat /\ provider[p].count = Cardinality(Held(p)) + lost[p]
        BY <1>1, FS_CardinalityType DEF CountsOK, Counted
      <4> QED
        BY <4>1, <4>2
    <3> QED
      BY <3>1, <3>2
  <2>2. provider[p].provide = "override" /\ provider[p].dependency \in {"raw", "resolved"}
    BY <1>1, <2>1 DEF CountsOK, Counted, TypeOK, Provides
  <2>3. Seen(c, p) = <<"lost">>
    BY <1>2, <2>2 DEF Seen, Unset, Lost
  <2> QED
    BY <2>2, <2>3
<1>3. ASSUME EnteredAt(c, p) # {} PROVE FALSE
  <2>1. PICK n : Seen(c, p) = <<c, n>>
    BY <1>2, <1>3, OwnFirst DEF OwnOverride
  <2>2. Len(<<c, n>>) = 2 /\ Len(<<provider[p].dependency>>) = 1
    OBVIOUS
  <2> QED
    BY <2>1, <2>2
<1> QED
  BY <1>2, <1>3

\* The value of a context changes only with its own blocks.
LEMMA ValueStays ==
    ASSUME InjectionInv, NEW c \in alive, c \in Contexts, NEW d \in Contexts, Overriding(d),
           blocks'[c] = blocks[c]
    PROVE  \A p \in Registered : value'[c][p] = value[c][p]
<1>1. TypeOK /\ BlocksOK
  BY DEF InjectionInv, OverridingInv
<1>2. PICK n, b : n = Len(blocks[d]) /\ b = blocks[d][n]
  OBVIOUS
<1>3. \A p : EnteredAt(c, p)' = EnteredAt(c, p)
  BY DEF EnteredAt
<1>4. CASE EnterNext(d)
  <2>1. PICK k, p : k = Len(b.tokens) + 1 /\ p = b.items[k]
    OBVIOUS
  <2>2. Entered(d, n, b, k, p)
    BY <1>1, <1>2, <1>4, <2>1, EnterIs
  <2>3. d # c
    BY <1>3, <2>2 DEF Entered
  <2> QED
    BY <2>2, <2>3 DEF Entered
<1>5. CASE ExitNext(d)
  <2>1. PICK k, p : k = Len(b.tokens) /\ p = b.items[k]
    OBVIOUS
  <2>2. /\ p \in Registered /\ b.tokens[k] \in Given /\ n \in EnteredAt(d, p)
        /\ EnteredAt(d, p)' = EnteredAt(d, p) \ {n}
        /\ value' = [value EXCEPT ![d][p] = b.tokens[k]]
    BY <1>1, <1>2, <1>5, <2>1, ExitIs
  <2>3. d # c
    BY <1>3, <2>2
  <2> QED
    BY <1>1, <2>2, <2>3 DEF TypeOK
<1>6. CASE Interrupt(d)
  <2>1. PICK p \in Registered : InterruptedAt(d, p)
    BY <1>1, <1>6, InterruptIs
  <2>2. d # c
    <3> SUFFICES ASSUME d = c PROVE FALSE
      OBVIOUS
    <3>1. /\ InBlock(c) /\ n \in Nat \ {0} /\ TopBlock(c) = b /\ b \in Block
          /\ b.stage = "entering"
      BY <1>1, <1>2, <1>6, Top DEF Interrupt
    <3>2. CASE blocks' = [blocks EXCEPT ![c] = Front(@)]
      <4>1. Len(blocks'[c]) = n - 1
        BY <1>1, <1>2, <3>1, <3>2, TopLeft
      <4> QED
        BY <1>2, <3>1, <4>1
    <3>3. CASE blocks' = SetTop(c, [b EXCEPT !.stage = "exiting"])
      <4>1. PICK e : e = [b EXCEPT !.stage = "exiting"]
        OBVIOUS
      <4>2. e \in Block /\ e.stage = "exiting"
        BY <3>1, <4>1 DEF Block
      <4>3. blocks'[c][n] = e
        BY <1>1, <1>2, <3>1, <3>3, <4>1, <4>2, TopSet
      <4> QED
        BY <1>2, <3>1, <4>2, <4>3
    <3> QED
      BY <1>6, <3>1, <3>2, <3>3 DEF Interrupt
  <2> QED
    BY <1>1, <2>1, <2>2 DEF InterruptedAt, TypeOK
<1>7. CASE \E e \in Contexts : Fork(d, e)
  BY <1>1, <1>7 DEF Fork, TypeOK
<1>8. CASE UNCHANGED value
  BY <1>8
<1> QED
  BY <1>4, <1>5, <1>6, <1>7, <1>8 DEF Overriding, StartBlock, EndBlock

LEMMA NothingRevived ==
    ASSUME InjectionInv, UnsetOK, DependencySeen', [Next]_vars,
           NEW c \in Contexts, NEW p \in Registered, c \in alive,
           Seen(c, p) = <<provider[p].dependency>>, blocks'[c] = blocks[c]
    PROVE  Seen(c, p)' = <<provider[p].dependency>>'
<1>1. EnteredAt(c, p) = {} /\ value[c][p] # Lost
  BY SeenOwn
<1>2. EnteredAt(c, p)' = {}
  BY <1>1 DEF EnteredAt
<1>3. program' = program /\ value'[c][p] = value[c][p]
  <2>1. ASSUME NEW t \in Threads, Decorating(t) PROVE program' = program /\ value' = value
    BY <2>1 DEF Decorating, Decorate, Rejected, Parameter, Resolved, overriding
  <2>2. ASSUME NEW d \in Contexts, Overriding(d)
        PROVE  program' = program /\ value'[c][p] = value[c][p]
    <3>1. program' = program
      BY <2>2 DEF Overriding, StartBlock, EnterNext, Interrupt, EndBlock, ExitNext, Fork
    <3> QED
      BY <2>2, <3>1, ValueStays
  <2>3. CASE UNCHANGED vars
    BY <2>3 DEF vars, overriding
  <2> QED
    BY <2>1, <2>2, <2>3 DEF Next
<1>4. p \in Registered' /\ Lost' = Lost
  BY <1>3, SameProgram DEF Lost
<1> QED
  BY <1>1, <1>2, <1>3, <1>4 DEF DependencySeen

OutsideSpec == Init /\ [][NextOutside]_vars

LEMMA OutsideInvariant == OutsideSpec => [](InjectionInv /\ UnsetOK)
<1>1. Init => InjectionInv /\ UnsetOK
  BY InitHolds, UnsetInit
<1>2. InjectionInv /\ UnsetOK /\ [NextOutside]_vars => (InjectionInv /\ UnsetOK)'
  BY UnsetKept, DecoratingKeeps, OverridingKeeps, StutterKeeps DEF Next, NextOutside
<1> QED
  BY <1>1, <1>2, PTL DEF OutsideSpec

\* In a program that starts its tasks outside of blocks of overrides, a context
\* that is in no override of a provider gets the dependency from it, whoever overrides
\* it elsewhere at the time (_provide.py:59-71), unless an interrupted entry of its own,
\* or of the context it was copied from, left a value.
THEOREM DependencyOutside == OutsideSpec => []DependencySeen
<1>1. InjectionInv /\ UnsetOK => DependencySeen
  BY SeenUnset
<1> QED
  BY <1>1, OutsideInvariant, PTL

\* Overrides restore what they replaced and contexts do not interfere, as
\* overriding.py:4-5 says, in every program that starts its tasks outside of blocks of
\* overrides.  A task started inside one keeps a copy of a value that nothing resets
\* (overriding.py:104), and NoRevivedOverride fails.
THEOREM NoRevival == OutsideSpec => NoRevivedOverride
<1>1. ASSUME InjectionInv, UnsetOK, DependencySeen', [NextOutside]_vars
      PROVE  [\A c \in Contexts, p \in Registered :
                c \in alive /\ Seen(c, p) = <<provider[p].dependency>> /\ blocks'[c] = blocks[c]
                  => Seen(c, p)' = <<provider[p].dependency>>']_vars
  <2>1. [Next]_vars
    BY <1>1 DEF NextOutside
  <2> QED
    BY <1>1, <2>1, NothingRevived
<1> QED
  BY <1>1, OutsideInvariant, DependencyOutside, PTL DEF NoRevivedOverride, OutsideSpec
=============================================================================
