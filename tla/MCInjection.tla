---------------------------- MODULE MCInjection -----------------------------
EXTENDS Injection, TLC
CONSTANTS endpoint, service, repo, settings

Depending(edges) == [x \in Callables |-> IF x \in DOMAIN edges THEN edges[x] ELSE <<>>]
Base == [deps |-> Depending(<<>>), kind |-> [x \in Callables |-> "sync"],
         refused |-> [x \in Callables |-> "no"], defaulted |-> {}, roots |-> {endpoint},
         blocks |-> {}, nesting |-> 0, interrupts |-> 0]

\* A diamond shared by two decorated callables.
Diamond ==
  [Base EXCEPT !.deps = Depending((endpoint :> <<service, repo>>) @@ (repo :> <<settings>>)
                                  @@ (service :> <<settings>>)),
               !.kind = (endpoint :> "coroutine") @@ (settings :> "asyncgen") @@ @,
               !.roots = {endpoint, service}]
\* Two callables that depend on each other, reached from two decorated ones.
Tangle ==
  [Base EXCEPT !.deps = Depending((endpoint :> <<service>>) @@ (service :> <<repo>>)
                                  @@ (repo :> <<service>>) @@ (settings :> <<repo>>)),
               !.roots = {endpoint, settings}]
TwoRoots ==
  [Base EXCEPT !.deps = Depending((endpoint :> <<repo>>) @@ (service :> <<repo>>)
                                  @@ (repo :> <<settings>>)),
               !.roots = {endpoint, service}]
Awaiting ==
  [TwoRoots EXCEPT !.kind = (settings :> "coroutine") @@ (endpoint :> "coroutine") @@ @]
Awaited ==
  [TwoRoots EXCEPT !.kind = (settings :> "coroutine") @@ (repo :> "coroutine")
                            @@ (endpoint :> "asyncgen") @@ (service :> "generator") @@ @]
Early == [TwoRoots EXCEPT !.refused = (repo :> "early") @@ @]
Late == [TwoRoots EXCEPT !.refused = (repo :> "late") @@ @]
Defaulted == [TwoRoots EXCEPT !.defaulted = {<<repo, settings>>}]
\* A provider decorated while it is overridden.
Single ==
  [Base EXCEPT !.deps = Depending(endpoint :> <<service, repo>>),
               !.blocks = {<<service>>, <<service, repo>>}, !.nesting = 2, !.interrupts = 1]
\* One override, and contexts that end theirs at different times.
Each ==
  [Base EXCEPT !.deps = Depending(endpoint :> <<service>>), !.roots = {},
               !.blocks = {<<service>>}, !.nesting = 1]
MCOverriding == {Each}
MCConfigurations ==
  {Diamond, Tangle, TwoRoots, Awaiting, Awaited, Early, Late, Defaulted, Single}
=============================================================================
