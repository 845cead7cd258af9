------------------------------ MODULE Injection ------------------------------
(* Dependency injection (stratae.depends): `inject` resolves the graph of     *)
(* providers when a function is decorated, and `override` replaces what a     *)
(* provider gives inside a block.  A provider is shared by every thread and   *)
(* task; the value that replaces it lives in a context variable, copied when  *)
(* a task is started.                                                         *)
EXTENDS Naturals, Sequences, SequencesExt, FiniteSets

CONSTANTS Callables,      \* the callables
          Threads,         \* threads that import modules and so run decorators
          Contexts,        \* the contexts of threads and tasks
          Configurations   \* the programs a run starts from

Kinds == {"sync", "coroutine", "generator", "asyncgen"}

(* A program: the injected parameters of each callable in order, its kind,    *)
(* the callables `inject` refuses before ("early") or after ("late") it looks *)
(* at their parameters, the <<callable, provider>> pairs whose parameter has  *)
(* a default, the callables it decorates, the blocks of overrides it uses,    *)
(* how deep they nest, and how many interrupts hit a block being entered.     *)
IsProgram(p) ==
  /\ p.deps \in [Callables -> Seq(Callables)]
  /\ p.kind \in [Callables -> Kinds]
  /\ p.refused \in [Callables -> {"no", "early", "late"}]
  /\ p.defaulted \subseteq Callables \X Callables
  /\ p.roots \subseteq Callables
  /\ \A b \in p.blocks : b \in Seq(Callables) /\ IsInjective(b)
  /\ p.nesting \in Nat /\ p.interrupts \in Nat

ASSUME ProgramsAssumption == \A p \in Configurations : IsProgram(p)

VARIABLES program, provider, stack, resolving, outcome,   \* decoration
          alive, value, blocks,                           \* overriding
          interrupts,   \* how many interrupts have hit a block being entered
          lost,         \* per provider: the overrides it counts that nobody will undo
          torn          \* the providers left providing an override they do not count

decoration == <<stack, resolving, outcome>>
interrupted == <<interrupts, lost, torn>>
overriding == <<alive, value, blocks, interrupted>>
vars == <<program, provider, decoration, overriding>>

-----------------------------------------------------------------------------
(* Providers.                                                                *)

Deps(f) == program.deps[f]

(* The providers a callable needs, directly or through others: the least set  *)
(* of callables that holds its parameters and those of its own members.       *)
Closed == {S \in SUBSET Callables : \A g \in S : Range(Deps(g)) \subseteq S}
Reachable(f) == {g \in Callables : \A S \in Closed : Range(Deps(f)) \subseteq S => g \in S}

Registered == UNION {Range(Deps(f)) : f \in Callables}

(* Provider.__new__: the dependency as it is, provided directly.              *)
NewProvider == [dependency |-> "raw", provide |-> "raw", count |-> 0, resolved |-> FALSE]

Updated_Overridden(p) ==
  \* Mutated form: the count is not checked.
  [p EXCEPT !.dependency = "resolved", !.provide = "resolved"]
(* Provider.update: a provider under an override keeps providing the override. *)
Updated(p) ==
  [p EXCEPT !.dependency = "resolved",
            !.provide = IF p.count = 0 THEN "resolved" ELSE p.provide]

IsAsync(f) == program.kind[f] = "coroutine"

-----------------------------------------------------------------------------
(* Decoration: `inject` walks the parameters depth first.  Each thread that   *)
(* runs a decorator has its own stack and its own set of callables it is      *)
(* resolving; the providers are shared.                                       *)

Frame(f) == [fn |-> f, at |-> 1]
Frame_(t) == Last(stack[t])
Running(t) == stack[t] # <<>>

(* _resolve_parameters: the walk goes on with the next parameter. *)
Advanced(frames) ==
  IF frames = <<>> THEN <<>>
  ELSE [frames EXCEPT ![Len(frames)].at = @ + 1]

(* The decorator raises: what was resolved on the way stays resolved. *)
Fails(t, error) ==
  /\ outcome' = [outcome EXCEPT ![stack[t][1].fn] = error]
  /\ stack' = [stack EXCEPT ![t] = <<>>]
  /\ UNCHANGED <<provider, resolving>>

(* A decorated callable can be named only once its decorator has returned, and *)
(* its module is imported by one thread.  Each decorator starts a set of its   *)
(* own of the callables it is resolving.                                       *)
Decorate_SharedSet(t, f) ==
  \* Mutated form: the set is a mutable default argument, kept between calls.
  /\ ~Running(t) /\ f \in program.roots /\ outcome[f] # "ok"
  /\ \A u \in Threads : Running(u) => stack[u][1].fn # f
  /\ \A g \in Reachable(f) \cap program.roots : outcome[g] = "ok"
  /\ stack' = [stack EXCEPT ![t] = <<Frame(f)>>]
  /\ resolving' = [resolving EXCEPT ![t] = @ \cup {f}]
  /\ UNCHANGED <<program, provider, outcome, overriding>>
Decorate(t, f) ==
  /\ ~Running(t) /\ f \in program.roots /\ outcome[f] # "ok"
  /\ \A u \in Threads : Running(u) => stack[u][1].fn # f
  /\ \A g \in Reachable(f) \cap program.roots : outcome[g] = "ok"
  /\ stack' = [stack EXCEPT ![t] = <<Frame(f)>>]
  /\ resolving' = [resolving EXCEPT ![t] = {f}]
  /\ UNCHANGED <<program, provider, outcome, overriding>>

(* _reject_future_annotations, _reject_quoted_dependencies *)
Rejected(t) ==
  /\ Running(t) /\ Frame_(t).at = 1 /\ program.refused[Frame_(t).fn] = "early"
  /\ Fails(t, "refused")
  /\ UNCHANGED <<program, overriding>>

(* _resolve_parameter: a default is refused, a resolved provider is taken as  *)
(* it is, a decorated callable resolves to itself and any other is walked.    *)
Parameter(t) ==
  LET f == Frame_(t).fn  g == Deps(f)[Frame_(t).at] IN
  /\ Running(t) /\ Frame_(t).at <= Len(Deps(f))
  /\ program.refused[f] # "early"
  /\ \/ /\ <<f, g>> \in program.defaulted
        /\ Fails(t, "refused")
     \/ /\ <<f, g>> \notin program.defaulted
        /\ provider[g].resolved
        /\ stack' = [stack EXCEPT ![t] = Advanced(@)]
        /\ UNCHANGED <<provider, resolving, outcome>>
     \/ /\ <<f, g>> \notin program.defaulted
        /\ ~provider[g].resolved /\ g \in program.roots
        /\ provider' = [provider EXCEPT ![g] = [Updated(@) EXCEPT !.resolved = TRUE]]
        /\ stack' = [stack EXCEPT ![t] = Advanced(@)]
        /\ UNCHANGED <<resolving, outcome>>
     \/ /\ <<f, g>> \notin program.defaulted
        /\ ~provider[g].resolved /\ g \notin program.roots /\ g \in resolving[t]
        /\ Fails(t, "circular")
     \/ /\ <<f, g>> \notin program.defaulted
        /\ ~provider[g].resolved /\ g \notin program.roots /\ g \notin resolving[t]
        /\ stack' = [stack EXCEPT ![t] = Append(@, Frame(g))]
        /\ resolving' = [resolving EXCEPT ![t] = @ \cup {g}]
        /\ UNCHANGED <<provider, outcome>>
  /\ UNCHANGED <<program, overriding>>

(* _validate_sync_async_constraint *)
AwaitsNothing(f) == program.kind[f] \notin {"coroutine", "asyncgen"}
Unawaitable(f) == AwaitsNothing(f) /\ \E g \in Range(Deps(f)) : IsAsync(g)

(* The end of _resolve_function, and the update of the provider it was for. *)
Resolved(t) ==
  LET f == Frame_(t).fn IN
  /\ Running(t) /\ Frame_(t).at > Len(Deps(f)) /\ program.refused[f] # "early"
  /\ \/ /\ program.refused[f] = "late" /\ Deps(f) # <<>>
        /\ Fails(t, "refused")
     \/ /\ ~(program.refused[f] = "late" /\ Deps(f) # <<>>) /\ Unawaitable(f)
        /\ Fails(t, "async")
     \/ /\ ~(program.refused[f] = "late" /\ Deps(f) # <<>>) /\ ~Unawaitable(f)
        /\ stack' = [stack EXCEPT ![t] = Advanced(Front(@))]
        /\ IF Len(stack[t]) = 1
             THEN outcome' = [outcome EXCEPT ![f] = "ok"] /\ UNCHANGED provider
             ELSE /\ provider' =
                       [provider EXCEPT ![f] = [Updated(@) EXCEPT !.resolved = TRUE]]
                  /\ UNCHANGED outcome
  /\ UNCHANGED <<program, resolving, overriding>>

-----------------------------------------------------------------------------
(* Overriding.  A block enters its overrides one at a time and ends them in   *)
(* reverse; it keeps the token of each one it has entered.                    *)

Unset == <<>>
Lost == <<"lost">>   \* the value an interrupted entry has set: no block will reset it
TopBlock(c) == Last(blocks[c])
InBlock(c) == blocks[c] # <<>>
SetTop(c, b) == [blocks EXCEPT ![c] = [@ EXCEPT ![Len(@)] = b]]

(* What a call made in context c gets from provider p: provide, and           *)
(* provide_override when that is what it has become.                          *)
Seen(c, p) ==
  IF provider[p].provide # "override" THEN <<provider[p].provide>>
  ELSE IF value[c][p] = Unset THEN <<provider[p].dependency>> ELSE value[c][p]

(* override, overrides: an empty mapping is refused, and so is a callable that *)
(* no parameter was declared with.                                            *)
StartBlock(c, items) ==
  /\ c \in alive /\ items \in program.blocks
  /\ items # <<>> /\ Range(items) \subseteq Registered
  /\ Len(blocks[c]) < program.nesting
  /\ InBlock(c) => TopBlock(c).stage = "in"
  /\ blocks' = [blocks EXCEPT ![c] =
       Append(@, [items |-> items, tokens |-> <<>>, stage |-> "entering"])]
  /\ UNCHANGED <<program, provider, decoration, alive, value, interrupted>>

Entering(p) == [p EXCEPT !.provide = IF p.count = 0 THEN "override" ELSE p.provide,
                         !.count = @ + 1]
Leaving_AsFound(p) ==
  \* Mutated form: what it provided before any decoration is restored.
  [p EXCEPT !.provide = IF p.count = 1 THEN "raw" ELSE p.provide, !.count = @ - 1]
Leaving(p) == [p EXCEPT !.provide = IF p.count = 1 THEN p.dependency ELSE p.provide,
                        !.count = @ - 1]

(* _Override.__enter__, under the provider's lock, and the append of the       *)
(* override to those entered: only an interrupt can tell them apart.           *)
EnterNext(c) ==
  LET b == TopBlock(c)  p == b.items[Len(b.tokens) + 1] IN
  /\ InBlock(c) /\ b.stage = "entering"
  /\ provider' = [provider EXCEPT ![p] = Entering(@)]
  /\ value' = [value EXCEPT ![c][p] = <<c, Len(blocks[c])>>]
  /\ LET tokens == Append(b.tokens, value[c][p]) IN
     blocks' = SetTop(c, [b EXCEPT !.tokens = tokens,
                            !.stage = IF Len(tokens) = Len(b.items) THEN "in" ELSE @])
  /\ UNCHANGED <<program, decoration, alive, interrupted>>

(* An interrupt hits a block being entered.  The overrides entered are undone; *)
(* what the next one has written is not: nothing yet, what p provides, its     *)
(* count too, or the value as well (then its entry is over, and perhaps only   *)
(* the append to those entered is missing).                                    *)
Interrupt(c) ==
  LET b == TopBlock(c)  p == b.items[Len(b.tokens) + 1] IN
  /\ InBlock(c) /\ b.stage = "entering"
  /\ interrupts < program.interrupts
  /\ interrupts' = interrupts + 1
  /\ blocks' = IF b.tokens = <<>> THEN [blocks EXCEPT ![c] = Front(@)]
               ELSE SetTop(c, [b EXCEPT !.stage = "exiting"])
  /\ \/ UNCHANGED <<provider, value, lost, torn>>
     \/ /\ provider[p].count = 0
        /\ provider' = [provider EXCEPT ![p].provide = "override"]
        /\ torn' = torn \cup {p}
        /\ UNCHANGED <<value, lost>>
     \/ /\ provider' = [provider EXCEPT ![p] = Entering(@)]
        /\ lost' = [lost EXCEPT ![p] = @ + 1]
        /\ value' \in {value, [value EXCEPT ![c][p] = Lost]}
        /\ UNCHANGED torn
  /\ UNCHANGED <<program, decoration, alive>>

EndBlock(c) ==
  /\ InBlock(c) /\ TopBlock(c).stage = "in"
  /\ blocks' = SetTop(c, [TopBlock(c) EXCEPT !.stage = "exiting"])
  /\ UNCHANGED <<program, provider, decoration, alive, value, interrupted>>

(* _Override.__exit__, under the provider's lock *)
ExitNext(c) ==
  LET b == TopBlock(c)  p == b.items[Len(b.tokens)] IN
  /\ InBlock(c) /\ b.stage = "exiting"
  /\ provider' = [provider EXCEPT ![p] = Leaving(@)]
  /\ value' = [value EXCEPT ![c][p] = Last(b.tokens)]
  /\ blocks' = IF Len(b.tokens) = 1 THEN [blocks EXCEPT ![c] = Front(@)]
               ELSE SetTop(c, [b EXCEPT !.tokens = Front(@)])
  /\ UNCHANGED <<program, decoration, alive, interrupted>>

(* A task is started: it gets a copy of the context, and may outlive it. *)
Fork(c, d) ==
  /\ c \in alive /\ d \notin alive
  /\ InBlock(c) => TopBlock(c).stage = "in"
  /\ alive' = alive \cup {d}
  /\ value' = [value EXCEPT ![d] = value[c]]
  /\ UNCHANGED <<program, provider, decoration, blocks, interrupted>>

-----------------------------------------------------------------------------
Init ==
  /\ program \in Configurations
  /\ provider = [f \in Registered |-> NewProvider]
  /\ stack = [t \in Threads |-> <<>>]
  /\ resolving = [t \in Threads |-> {}]
  /\ outcome = [f \in program.roots |-> "none"]
  /\ alive = {CHOOSE c \in Contexts : TRUE}
  /\ value = [c \in Contexts |-> [f \in Registered |-> Unset]]
  /\ blocks = [c \in Contexts |-> <<>>]
  /\ interrupts = 0 /\ lost = [f \in Registered |-> 0] /\ torn = {}

Decorating(t) ==
  \/ \E f \in program.roots : Decorate(t, f)
  \/ Rejected(t) \/ Parameter(t) \/ Resolved(t)

Overriding(c) ==
  \/ \E items \in program.blocks : StartBlock(c, items)
  \/ EnterNext(c) \/ Interrupt(c) \/ EndBlock(c) \/ ExitNext(c)
  \/ \E d \in Contexts : Fork(c, d)

Next == (\E t \in Threads : Decorating(t)) \/ (\E c \in Contexts : Overriding(c))

Spec == Init /\ [][Next]_vars

-----------------------------------------------------------------------------
(* Properties.                                                               *)

(* The blocks of context c that have entered an override of p, innermost      *)
(* last, as their depths.                                                     *)
EnteredAt(c, p) ==
  {n \in 1..Len(blocks[c]) :
     \E i \in 1..Len(blocks[c][n].tokens) : blocks[c][n].items[i] = p}

(* Whatever other threads override, end or decorate meanwhile, a call inside  *)
(* a block gets the value of the innermost override its own context entered   *)
(* (provide is one field shared by them all: overriding.py:88-105,            *)
(* _provide.py:59-71), unless an interrupt left another value in it there.    *)
OwnOverride ==
  \A c \in Contexts, p \in Registered :
    EnteredAt(c, p) # {} /\ value[c][p] # Lost =>
      Seen(c, p) = <<c, CHOOSE n \in EnteredAt(c, p) : \A m \in EnteredAt(c, p) : m <= n>>

(* The overrides of p that are held, each by the context and the depth of the *)
(* block that entered it.                                                     *)
Held(p) == UNION {{c} \X EnteredAt(c, p) : c \in Contexts}

(* A provider counts the overrides of it that are held and those an interrupt *)
(* lost inside an entry, no other: a block interrupted between two entries    *)
(* leaves none behind (overriding.py:118-126).  Once it counts none it        *)
(* provides its dependency again, the decorated one if it was decorated while *)
(* overridden (99-106), unless an entry was cut before the count (91-92).     *)
OverridesEnd ==
  \A p \in Registered :
    /\ provider[p].count = Cardinality(Held(p)) + lost[p]
    /\ provider[p].count = 0 /\ p \notin torn =>
         provider[p].provide = provider[p].dependency

(* A decorator that returned has a graph it can run, every provider of which  *)
(* is resolved; one that raised had the reason it gives, whatever was         *)
(* resolved before or meanwhile (injection.py:155-175, 259-285).              *)
Cycle(f) == \E g \in Reachable(f) \cup {f} : g \in Reachable(g)
Refuses(f) == \E g \in Reachable(f) \cup {f} :
                \/ program.refused[g] = "early"
                \/ program.refused[g] = "late" /\ Deps(g) # <<>>
                \/ \E h \in Range(Deps(g)) : <<g, h>> \in program.defaulted
ResolutionSound ==
  \A f \in program.roots :
    LET graph == Reachable(f) \cup {f}
        Awaits(g) == /\ program.kind[g] \in {"sync", "generator"}
                     /\ \E d \in Range(Deps(g)) : program.kind[d] = "coroutine" IN
    /\ outcome[f] = "ok" => /\ ~Cycle(f) /\ ~Refuses(f)
                            /\ ~\E g \in graph : Awaits(g)
                            /\ \A g \in Reachable(f) : provider[g].resolved
    /\ outcome[f] = "circular" => Cycle(f)
    /\ outcome[f] = "async" => \E g \in graph : Awaits(g)
    /\ outcome[f] = "refused" => Refuses(f)

(* Overrides restore what they replaced on exit, and concurrent tasks do not  *)
(* interfere (overriding.py:4-5): a call stops getting an override for good   *)
(* when the override ends, unless its own context enters one again.           *)
NoRevivedOverride ==
  [][\A c \in Contexts, p \in Registered :
       c \in alive /\ Seen(c, p) = <<provider[p].dependency>> /\ blocks'[c] = blocks[c]
         => Seen(c, p)' = <<provider[p].dependency>>']_vars
=============================================================================
