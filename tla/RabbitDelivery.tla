--------------------------- MODULE RabbitDelivery ---------------------------
(***************************************************************************)
(* The deliveries of a RabbitMQConsumer (integrations/rabbitmq.py): each   *)
(* message runs in a task of its own, which decodes it, handles it inside  *)
(* its scope, closes the scope and acks, or settles the failure under the  *)
(* failure policy, while the channel may be lost and reopened, the context *)
(* left, or the process crash.  Opening and closing the connection are one *)
(* step here: RabbitConsumer has _Link's own steps, Emission those of the  *)
(* handler's middleware and hooks.                                         *)
(***************************************************************************)
EXTENDS RabbitBroker, CloseStack

VARIABLES
    channel,    \* [id, open, known: the link holds it, consuming: basic_consume is in force]
    unacked,    \* the broker's: from channel and tag to the copy delivered
    task,       \* the deliveries under way, by channel and tag
    user,       \* "in" the context, "draining" or "out"
    succeeded,  \* history: the messages acked after they were handled
    failed      \* history: how often the handling of each message failed

deliveryVars == <<channel, unacked, task, user, succeeded, failed>>

Deliveries == DOMAIN task
In(d, pc) == task[d].pc = pc
GoOn(d, pc) == task' = [task EXCEPT ![d].pc = pc]
Put(f, d, value) == [x \in DOMAIN f \cup {d} |-> IF x = d THEN value ELSE f[x]]
Forget(f, d) == [x \in DOMAIN f \ {d} |-> f[x]]
End(d) == task' = Forget(task, d)

-----------------------------------------------------------------------------
(* Starting: on_message and the first half of _deliver                     *)

\* Tags in use on a channel differ: those no longer in use may come again here.
FreeTag == CHOOSE tag \in 1..(config.prefetch + 1) :
               <<channel.id, tag>> \notin Deliveries \cup DOMAIN unacked

\* The broker delivers a copy, within the prefetch count.
Deliver(copy) ==
    LET d == <<channel.id, FreeTag>> IN
    /\ channel.open /\ channel.consuming
    /\ copy.place = "queue" /\ Waiting(copy)
    /\ Cardinality(DOMAIN unacked) < config.prefetch
    /\ stored' = Removed(stored, copy)
    /\ unacked' = Put(unacked, d, copy)
    /\ task' = Put(task, d, [pc |-> "created", copy |-> copy, stack |-> Stack(0, NoError),
                             due |-> FALSE, failed |-> FALSE])
    /\ UNCHANGED <<config, exchange, bound, faults, channel, user, succeeded, failed>>

\* A task cancelled before its first step never runs; a body that does not decode is not
\* handled and not retried.
Start(d) ==
    /\ In(d, "created")
    /\ IF task[d].due THEN End(d)
       ELSE GoOn(d, IF task[d].copy.message \in config.decodable THEN "handling" ELSE "refused")
    /\ UNCHANGED <<brokerVars, channel, unacked, user, succeeded, failed>>

-----------------------------------------------------------------------------
(* Handling: invoke inside "async with self._scope"                        *)

Cancellation == <<"cancelled">>
Cancelled(d) == IF task[d].due THEN {Raised("base", Cancellation)} ELSE {}

\* The handler ends, having entered n of the scope's resources.
Handle(d) ==
    /\ In(d, "handling")
    /\ \E n \in 0..config.resources :
          \E e \in {NoError, Raised("exception", <<"handler">>)} \cup Cancelled(d) :
             task' = [task EXCEPT ![d] = [@ EXCEPT !.pc = "closing", !.due = FALSE,
                                                   !.stack = Stack(n, e)]]
    /\ UNCHANGED <<brokerVars, channel, unacked, user, succeeded, failed>>

\* aclose: the exit of one resource, which may raise an error of its own or one raised before.
CloseNext(d) ==
    LET stack == task[d].stack IN
    /\ In(d, "closing") /\ stack.left > 0
    /\ \E own \in {Raised("exception", <<"exit", stack.left>>)} \cup ToSet(stack.pending.errors) :
          \E outcome \in ExitSync(own, stack.exc) \cup ExitAsync(own, stack.exc, Cancelled(d)) :
             task' = [task EXCEPT ![d].stack = Exited(stack, outcome), ![d].due = FALSE]
    /\ UNCHANGED <<brokerVars, channel, unacked, user, succeeded, failed>>

\* The scope has closed: _deliver acks, settles a failure, or ends by what is no Exception.
Closed(d) ==
    LET e == Settle(task[d].stack) IN
    /\ In(d, "closing") /\ task[d].stack.left = 0
    /\ \/ /\ e = NoError /\ GoOn(d, "acking") /\ UNCHANGED failed
       \/ /\ IsException(e)
          /\ task' = [task EXCEPT ![d].pc = "failing", ![d].failed = TRUE]
          /\ failed' = [failed EXCEPT ![task[d].copy.message] =
                 IF @ > config.policy.retries THEN @ ELSE @ + 1]
       \/ /\ e # NoError /\ ~IsException(e) /\ End(d) /\ UNCHANGED failed
    /\ UNCHANGED <<brokerVars, channel, unacked, user, succeeded>>

-----------------------------------------------------------------------------
(* Settling: _fail and the ack                                             *)

\* Mutated form: a delivery is settled on the consumer's current channel.
MessageChannel_Current(d) == channel.id

\* message.channel: the channel the message came on, not one opened since.
MessageChannel(d) == d[1]

Usable(d) == MessageChannel(d) = channel.id /\ channel.open

\* Mutated form: one retry too few.
RetryQueue_Short(attempt) == attempt < config.policy.retries

\* retry_queue: there is one for each of the policy's delays.
RetryQueue(attempt) == attempt <= config.policy.retries

\* retry_queue and dead_letter_target of the message's next attempt; "none" drops it.
Target(d) ==
    LET attempt == task[d].copy.attempts + 1 IN
    IF In(d, "failing") /\ RetryQueue(attempt) THEN "retry"
    ELSE IF config.policy.deadLetter THEN "dead" ELSE "none"

\* The ack or nack: it raises if the channel is gone, and the delivery's task ends either way.
Ack(d) ==
    /\ In(d, "acking")
    /\ unacked' = IF Usable(d) THEN Forget(unacked, <<MessageChannel(d), d[2]>>) ELSE unacked
    /\ succeeded' = IF Usable(d) /\ ~task[d].failed
                    THEN succeeded \cup {task[d].copy.message} ELSE succeeded
    /\ End(d)
    /\ UNCHANGED <<brokerVars, channel, user, failed>>

\* _fail up to its first await: nack without a policy, ack what is dropped, else publish.
Fail(d) ==
    /\ task[d].pc \in {"failing", "refused"}
    /\ ~config.policy.some \/ Target(d) = "none"
    /\ task' = [task EXCEPT ![d].pc = "acking", ![d].failed = TRUE]
    /\ UNCHANGED <<brokerVars, channel, unacked, user, succeeded, failed>>

\* The broker takes the copy published to the message's next queue.
Republish(d) ==
    /\ task[d].pc \in {"failing", "refused"}
    /\ config.policy.some /\ Target(d) # "none"
    /\ IF Usable(d)
       THEN /\ stored' = Added(stored, CopyOf(Target(d), task[d].copy.message,
                                               task[d].copy.attempts + 1))
            /\ task' = [task EXCEPT ![d].pc = "confirming", ![d].failed = TRUE]
       ELSE End(d) /\ UNCHANGED stored
    /\ UNCHANGED <<config, exchange, bound, faults, channel, unacked, user, succeeded, failed>>

\* The confirm comes, then the ack is sent: both on the message's channel.
Republished(d) ==
    /\ In(d, "confirming")
    /\ IF Usable(d) THEN GoOn(d, "acking") ELSE End(d)
    /\ UNCHANGED <<brokerVars, channel, unacked, user, succeeded, failed>>

-----------------------------------------------------------------------------
(* The channel, and the context around it                                  *)

\* The broker takes back what was unacked on a channel that is gone.
Requeued(b) ==
    LET copies == {unacked[d] : d \in DOMAIN unacked}
        returned == [copy \in copies |-> Cardinality({d \in DOMAIN unacked : unacked[d] = copy})]
    IN b (+) returned

\* Every delivery running on a channel that is gone is cancelled.
CancelAll == [d \in Deliveries |-> [task[d] EXCEPT !.due = d[1] = channel.id \/ @]]

ChannelLost ==
    /\ unacked' = <<>>
    /\ stored' = Requeued(stored)
    /\ task' = CancelAll

\* The channel is lost to the network: external.
LoseChannel ==
    /\ channel.open /\ Fault
    /\ channel' = [channel EXCEPT !.open = FALSE, !.consuming = FALSE]
    /\ ChannelLost
    /\ UNCHANGED <<config, exchange, bound, user, succeeded, failed>>

\* _on_closed
ConsumerLost ==
    /\ channel.known /\ ~channel.open
    /\ channel' = [channel EXCEPT !.known = FALSE]
    /\ UNCHANGED <<brokerVars, unacked, task, user, succeeded, failed>>

\* Mutated form: only entering the context starts the consumption.
Resumes_Entered == channel.id = 0

\* _resume starts every registration on each channel that is opened.
Resumes == TRUE

\* _open with _resume, on entering the context or reconnecting, also while draining: every
\* registration's queue is declared and consumed.
ConsumerOpened ==
    /\ ~channel.known /\ user # "out"
    /\ channel' = [id |-> channel.id + 1, open |-> TRUE, known |-> TRUE, consuming |-> Resumes]
    /\ DeclareTopology
    /\ UNCHANGED <<config, stored, faults, unacked, task, user, succeeded, failed>>

Enter ==
    /\ user = "out" /\ user' = "in"
    /\ UNCHANGED <<brokerVars, channel, unacked, task, succeeded, failed>>

\* __aexit__: _drain cancels the AMQP consumers; without a channel there is nothing to drain.
Exit ==
    /\ user = "in" /\ Fault
    /\ user' = IF channel.known THEN "draining" ELSE "out"
    /\ channel' = [channel EXCEPT !.consuming = FALSE]
    /\ UNCHANGED <<config, stored, exchange, bound, unacked, task, succeeded, failed>>

\* The drain ends, its deliveries done or the timeout reached, and the connection is closed.
Leave ==
    /\ user = "draining" /\ user' = "out"
    /\ channel' = [channel EXCEPT !.open = FALSE, !.known = FALSE, !.consuming = FALSE]
    /\ IF channel.open THEN ChannelLost ELSE UNCHANGED <<unacked, stored, task>>
    /\ UNCHANGED <<config, exchange, bound, faults, succeeded, failed>>

\* The consumer's process dies: nothing of its tasks is left.
Crash ==
    /\ user # "out" /\ Fault
    /\ user' = "out"
    /\ channel' = [channel EXCEPT !.open = FALSE, !.known = FALSE, !.consuming = FALSE]
    /\ unacked' = <<>> /\ stored' = Requeued(stored) /\ task' = <<>>
    /\ UNCHANGED <<config, exchange, bound, succeeded, failed>>

DeliveryInit ==
    /\ channel = [id |-> 0, open |-> FALSE, known |-> FALSE, consuming |-> FALSE]
    /\ unacked = <<>> /\ task = <<>>
    /\ user = "in"
    /\ succeeded = {} /\ failed = [m \in Messages |-> 0]

TaskStep(d) ==
    \/ Start(d) \/ Handle(d) \/ CloseNext(d) \/ Closed(d)
    \/ Fail(d) \/ Republish(d) \/ Republished(d) \/ Ack(d)
ConsumerStep == ConsumerLost \/ ConsumerOpened \/ Enter \/ Leave

DeliveryNext ==
    \/ \E copy \in BagToSet(stored) : Deliver(copy)
    \/ \E d \in Deliveries : TaskStep(d)
    \/ ConsumerStep \/ LoseChannel \/ Exit \/ Crash
=============================================================================
