------------------------- MODULE MCRabbitMessaging --------------------------
EXTENDS RabbitMessaging
CONSTANTS m1, m2
Base == [policy |-> Policy(1, TRUE), binds |-> TRUE, topology |-> TRUE, mandatory |-> FALSE,
         typed |-> TRUE, prefetch |-> 1, resources |-> 0, decodable |-> {m1, m2},
         waiting |-> {m1, m2}, emitted |-> {}, maxFaults |-> 1]

\* Two messages retried and dead-lettered, one of which cannot be decoded.
Retried == [Base EXCEPT !.decodable = {m1}, !.maxFaults = 2]
\* Two messages without a policy, or dropped, at once.
Refused == [Base EXCEPT !.policy = NoPolicy, !.prefetch = 2]
Dropped == [Base EXCEPT !.policy = Policy(1, FALSE)]
\* A delivery's scope holds two resources.
Scoped == [Base EXCEPT !.resources = 2, !.waiting = {m1}]
\* From the emit to the handler.
EndToEnd == [Base EXCEPT !.waiting = {}, !.emitted = {m1}]
Mandatory == [Base EXCEPT !.waiting = {}, !.emitted = {m1, m2}, !.policy = Policy(0, TRUE),
                          !.decodable = {}, !.topology = FALSE, !.mandatory = TRUE, !.typed = FALSE]
\* The publisher alone declares its exchange.
Declaring == [Base EXCEPT !.waiting = {}, !.emitted = {m1, m2}, !.binds = FALSE,
                          !.topology = FALSE, !.maxFaults = 2]
MCConfigurations == {Retried, Refused, Dropped, Scoped, EndToEnd, Mandatory, Declaring}
=============================================================================
