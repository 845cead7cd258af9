---------------------------- MODULE RabbitBroker ----------------------------
(***************************************************************************)
(* What the RabbitMQ integration (integrations/rabbitmq.py) shares with    *)
(* the broker: the configured topology, and the copies of each message in  *)
(* the queue, its retry queues and its dead letters.  One queue bound to   *)
(* one exchange, which is not durable.  The broker itself is external.     *)
(***************************************************************************)
EXTENDS Integers, Bags, FiniteSets

CONSTANTS
    Messages,
    Configurations  \* the configurations to start from

NoPolicy == [retries |-> 0, deadLetter |-> FALSE, some |-> FALSE]

\* RabbitMQFailurePolicy
Policy(retries, deadLetter) == [retries |-> retries, deadLetter |-> deadLetter, some |-> TRUE]

\* RabbitMQConfig, RabbitMQConsumeConfig and the constructors' options.
IsConfig(c) ==
    /\ c.policy.retries \in Nat /\ c.policy.deadLetter \in BOOLEAN /\ c.policy.some \in BOOLEAN
    /\ ~c.policy.some => c.policy = NoPolicy
    /\ c.binds \in BOOLEAN          \* the consume config has the exchange
    /\ c.topology \in BOOLEAN       \* the publisher declares the consumers' topology
    /\ c.mandatory \in BOOLEAN
    /\ c.typed \in BOOLEAN          \* the publisher's config has an exchange_type
    /\ c.prefetch \in Nat \ {0}
    /\ c.resources \in Nat          \* resources a delivery's scope may hold, 0 without one
    /\ c.decodable \subseteq Messages
    /\ c.waiting \subseteq Messages  \* published before
    /\ c.emitted \subseteq Messages \ c.waiting
    /\ c.maxFaults \in Nat          \* bound: lost channels, restarts, exits and crashes

ASSUME BrokerAssumption == \A c \in Configurations : IsConfig(c)

VARIABLES
    config,
    stored,     \* the bag of copies that wait: their place, message and attempts header
    exchange,   \* the exchange exists
    bound,      \* the queue exists and is bound to the exchange
    faults

brokerVars == <<config, stored, exchange, bound, faults>>

CopyOf(place, m, attempts) == [place |-> place, message |-> m, attempts |-> attempts]
Added(b, copy) == b (+) SetToBag({copy})
Removed(b, copy) == [c \in DOMAIN b \ (IF b[copy] = 1 THEN {copy} ELSE {}) |->
                        IF c = copy THEN b[c] - 1 ELSE b[c]]
Waiting(copy) == BagIn(copy, stored)
WaitsIn(places, m) == \E copy \in BagToSet(stored) : copy.message = m /\ copy.place \in places

\* _declare and _declare_failure_queues, by whoever runs them first: queue, retry queues, dead
\* letters, exchange and bindings.
DeclareTopology ==
    /\ exchange' = (exchange \/ config.binds)
    /\ bound' = (bound \/ config.binds)

Fault == faults < config.maxFaults /\ faults' = faults + 1

\* A retry queue's message TTL routes a copy back to the consumed queue.
Expire(copy) ==
    /\ copy.place = "retry" /\ Waiting(copy)
    /\ stored' = Added(Removed(stored, copy), [copy EXCEPT !.place = "queue"])
    /\ UNCHANGED <<config, exchange, bound, faults>>

BrokerInit ==
    /\ config \in Configurations
    /\ stored = SetToBag({CopyOf("queue", m, 0) : m \in config.waiting})
    /\ exchange = (config.waiting # {}) /\ bound = (config.waiting # {})
    /\ faults = 0
=============================================================================
