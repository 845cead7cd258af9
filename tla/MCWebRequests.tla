--------------------------- MODULE MCWebRequests ----------------------------
EXTENDS WebRequests
CONSTANTS r1, r2

One(kind) == [group |-> "one", parts |-> <<kind>>]
Group(group, parts) == [group |-> group, parts |-> parts]
Guard(mode, async, checks) == [mode |-> mode, async |-> async, checks |-> checks]
NoGuard == Guard("all", TRUE, <<>>)

Base == [kind |-> "route", handler |-> FALSE, guard |-> NoGuard, trust |-> TRUE,
         header |-> (r1 :> "none"), emits |-> 1, task |-> (r1 :> r1) @@ (r2 :> r1),
         errors |-> {"http", "error", "cancel"}]

\* How the route is served.
Routes == {[Base EXCEPT !.kind = k, !.guard = Guard("all", TRUE, <<One("async")>>)] :
             k \in {"route", "class", "dependency"}}
            \cup {[Base EXCEPT !.handler = TRUE, !.guard = Guard("all", TRUE, <<One("async")>>)]}
\* Every mode, with awaited, misused and grouped checks.
Guards == {[Base EXCEPT !.emits = 0, !.errors = {}, !.guard = g] :
             g \in [mode : Modes, async : BOOLEAN,
                    checks : {<<One("sync"), One("awaitable"), One("sync")>>,
                              <<Group("any", <<"sync", "sync">>), One("sync")>>,
                              <<One("sync"), Group("all", <<"sync", "awaitable", "sync">>)>>}]
                   \cup [mode : Modes, async : {TRUE},
                         checks : {<<Group("any", <<"async", "awaitable">>), One("async")>>}]}
\* Two requests, one after the other or side by side.
Chains == {[Base EXCEPT !.header = (r1 :> h) @@ (r2 :> "caller"), !.task = t, !.trust = b,
                        !.emits = 2, !.kind = "dependency", !.errors = {}] :
             h \in {"invalid", "caller"}, b \in BOOLEAN,
             t \in {(r1 :> r1) @@ (r2 :> r1), (r1 :> r1) @@ (r2 :> r2)}}
MCConfigurations == Routes \cup Guards \cup Chains
=============================================================================
