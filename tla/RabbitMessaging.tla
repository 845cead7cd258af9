-------------------------- MODULE RabbitMessaging ---------------------------
(***************************************************************************)
(* A message's whole way over RabbitMQ: emitted by a publisher, kept by    *)
(* the broker, delivered, retried and dead-lettered by a consumer.  The    *)
(* two sides share the broker's queues, exchange and bindings, and         *)
(* declare them independently.                                             *)
(***************************************************************************)
EXTENDS RabbitDelivery, RabbitPublisher

messagingVars == <<brokerVars, publisherVars, deliveryVars>>

\* The broker restarts: channels and the exchange are gone, the queue and its messages are not.
BrokerRestarts ==
    /\ Fault
    /\ exchange' = FALSE /\ bound' = FALSE
    /\ link' = [link EXCEPT !.open = FALSE]
    /\ emits' = ChannelGone(emits)
    /\ channel' = [channel EXCEPT !.open = FALSE, !.consuming = FALSE]
    /\ ChannelLost
    /\ UNCHANGED <<config, declared, user, succeeded, failed>>

MessagingInit == BrokerInit /\ PublisherInit /\ DeliveryInit

Publishing == PublisherNext /\ UNCHANGED deliveryVars
Delivering == DeliveryNext /\ UNCHANGED publisherVars
Expiring == \E copy \in BagToSet(stored) : Expire(copy) /\ UNCHANGED <<publisherVars, deliveryVars>>

MessagingNext == Publishing \/ Delivering \/ Expiring \/ BrokerRestarts

\* Tasks, timers and connections go on; the broker delivers what waits for a consumer.
MessagingFairness ==
    /\ WF_messagingVars(LinkStep /\ UNCHANGED deliveryVars)
    /\ \A m \in Messages : WF_messagingVars(EmitStep(m) /\ UNCHANGED deliveryVars)
    /\ WF_messagingVars(ConsumerStep /\ UNCHANGED publisherVars)
    /\ WF_messagingVars((\E copy \in BagToSet(stored) : Deliver(copy)) /\ UNCHANGED publisherVars)
    /\ WF_messagingVars((\E d \in Deliveries : TaskStep(d)) /\ UNCHANGED publisherVars)
    /\ WF_messagingVars(Expiring)

MessagingSpec == MessagingInit /\ [][MessagingNext]_messagingVars /\ MessagingFairness

-----------------------------------------------------------------------------
(* Properties                                                              *)

Sent == {m \in Messages : emits[m].pc = "returned"}

\* A copy of m is still on its way to a handler.
Pending(m) ==
    \/ WaitsIn({"queue", "retry"}, m)
    \/ \E d \in DOMAIN unacked : unacked[d].message = m

\* m was given up as its configuration has it: its handling failed once more than it is
\* retried, or it cannot be decoded; and a copy is among the dead letters if there are any.
GivenUp(m) ==
    /\ m \in config.decodable => failed[m] > config.policy.retries
    /\ config.policy.deadLetter => WaitsIn({"dead"}, m)

\* "delivers it twice, never zero times": an emit that returned is not lost, whatever channels
\* are lost and whoever crashes, if its publisher made sure that there is a queue.
NeverLost ==
    \A m \in Sent :
        (config.topology /\ config.binds) \/ config.mandatory =>
            Pending(m) \/ m \in succeeded \/ GivenUp(m)

\* A message is dead-lettered only after all its retries, each of which failed; a delivery that
\* was cancelled does not count as one.
DeadAfterRetries ==
    \A m \in config.decodable : WaitsIn({"dead"}, m) => failed[m] > config.policy.retries

\* Closing a delivery's scope hides no error: what it ends in stands for the error the handler
\* raised and each one its resources raised, except those a later exit suppressed, and a
\* cancellation among them keeps the delivery from being settled as failed.
ClosingHidesNothing ==
    \A d \in Deliveries :
        LET stack == task[d].stack IN
        In(d, "closing") /\ stack.left = 0 =>
            /\ Settle(stack).of = stack.since
            /\ Cancellation \in stack.since => ~IsException(Settle(stack))

\* A retried emit returns in the end: no exchange is taken for declared forever that the broker
\* no longer has.
EmitsReturn == \A m \in Messages : []<>(m \in config.emitted => emits[m].pc = "returned")

\* No message stays with the broker undelivered or unacked: each one is handled or given up.
EventuallySettled == \A m \in Messages : <>[]~Pending(m)

-----------------------------------------------------------------------------
(* The consumer's channel                                                  *)

ItsChannel == INSTANCE ConsumerChannel WITH
                  number <- channel.id, open <- channel.open,
                  known <- channel.known, consuming <- channel.consuming

\* However losses, restarts, exits and crashes fall, the channel the deliveries come on keeps
\* to what RabbitConsumer's _Link is shown to keep to (ImplementsChannel there).
OnTheChannel == ItsChannel!ChannelSpec
=============================================================================
