-------------------------- MODULE RabbitPublisher ---------------------------
(***************************************************************************)
(* RabbitMQPublisher (integrations/rabbitmq.py): concurrent emits over one *)
(* channel with publisher confirms, which may be lost and is reopened, and *)
(* the set of exchanges declared on it.  A caller whose emit failed emits  *)
(* again.  Opening is one step here (RabbitConsumer has _Link's own        *)
(* steps); serializing, envelopes, hooks and middleware are left out.      *)
(***************************************************************************)
EXTENDS RabbitBroker

VARIABLES
    emits,      \* of each message's emit: its step, and whether its channel is still open
    link,       \* [open: the channel is open, known: the link holds it]
    declared    \* _declared holds the exchange

publisherVars == <<emits, link, declared>>

At(m, pc) == emits[m].pc = pc
Go(m, pc) == emits' = [emits EXCEPT ![m].pc = pc]

\* Every emit under way loses its channel.
ChannelGone(e) == [m \in Messages |-> [e[m] EXCEPT !.open = FALSE]]

\* emit and _publish up to the first await: without a channel it raises NotConnectedError.
StartEmit(m) ==
    /\ m \in config.emitted /\ At(m, "idle")
    /\ emits' = [emits EXCEPT ![m] =
           [pc |-> IF ~link.known THEN "failed"
                   ELSE IF config.typed /\ ~declared THEN "declaring" ELSE "publishing",
            open |-> link.open]]
    /\ UNCHANGED <<brokerVars, link, declared>>

\* _declare_exchange, as the broker answers it.
DeclareExchange(m) ==
    /\ At(m, "declaring")
    /\ IF emits[m].open
       THEN exchange' = TRUE /\ Go(m, "declared")
       ELSE exchange' = exchange /\ Go(m, "failed")
    /\ UNCHANGED <<config, stored, bound, faults, link, declared>>

\* The answer reaches the emit: the channel may have been lost, and _declared cleared, before.
Declared(m) ==
    /\ At(m, "declared")
    /\ \/ declared' = TRUE /\ Go(m, "publishing")
       \/ ~emits[m].open /\ declared' = declared /\ Go(m, "failed")
    /\ UNCHANGED <<brokerVars, link>>

\* The broker returns a mandatory message that reached no queue: UnroutableError.
Returned == config.mandatory /\ ~bound

\* basic_publish: a publish to an exchange that does not exist closes the channel.
Publish(m) ==
    /\ At(m, "publishing")
    /\ LET reached == emits[m].open /\ exchange IN
       /\ emits' = IF emits[m].open /\ ~exchange
                   THEN [ChannelGone(emits) EXCEPT ![m].pc = "failed"]
                   ELSE [emits EXCEPT ![m].pc =
                            IF ~reached \/ Returned THEN "failed" ELSE "confirming"]
       /\ link' = IF emits[m].open /\ ~exchange THEN [link EXCEPT !.open = FALSE] ELSE link
       /\ stored' = IF reached /\ bound THEN Added(stored, CopyOf("queue", m, 0)) ELSE stored
    /\ UNCHANGED <<config, exchange, bound, faults, declared>>

\* emit returns once the broker has confirmed, on the channel it published on.
Confirm(m) ==
    /\ At(m, "confirming")
    /\ Go(m, IF emits[m].open THEN "returned" ELSE "failed")
    /\ UNCHANGED <<brokerVars, link, declared>>

\* The caller, told that the publish failed: "retry the publish".
RetryEmit(m) ==
    /\ At(m, "failed") /\ Go(m, "idle")
    /\ UNCHANGED <<brokerVars, link, declared>>

\* Mutated form: a lost connection leaves the declared exchanges as they were.
OnLost_Kept == declared

\* on_lost: self._declared.clear
OnLost == FALSE

\* _on_closed, some time after the channel is gone.
PublisherLost ==
    /\ link.known /\ ~link.open
    /\ link' = [link EXCEPT !.known = FALSE]
    /\ declared' = OnLost
    /\ UNCHANGED <<brokerVars, emits>>

\* _open, on entering the context or reconnecting, with _declare_topology.
PublisherOpened ==
    /\ ~link.known /\ config.emitted # {}
    /\ link' = [open |-> TRUE, known |-> TRUE]
    /\ IF config.topology THEN DeclareTopology ELSE UNCHANGED <<exchange, bound>>
    /\ UNCHANGED <<config, stored, faults, emits, declared>>

\* The channel is lost to the network or the broker: external.
LosePublisher ==
    /\ link.open /\ Fault
    /\ link' = [link EXCEPT !.open = FALSE]
    /\ emits' = ChannelGone(emits)
    /\ UNCHANGED <<config, stored, exchange, bound, declared>>

\* __aexit__; emits may still be under way in other tasks.
PublisherExit ==
    /\ link.known /\ Fault
    /\ link' = [open |-> FALSE, known |-> FALSE]
    /\ declared' = FALSE
    /\ emits' = ChannelGone(emits)
    /\ UNCHANGED <<config, stored, exchange, bound>>

PublisherInit ==
    /\ emits = [m \in Messages |->
           [pc |-> IF m \in config.waiting THEN "returned" ELSE "idle", open |-> FALSE]]
    /\ link = [open |-> FALSE, known |-> FALSE]
    /\ declared = FALSE

EmitStep(m) ==
    StartEmit(m) \/ DeclareExchange(m) \/ Declared(m) \/ Publish(m) \/ Confirm(m) \/ RetryEmit(m)
LinkStep == PublisherLost \/ PublisherOpened

PublisherNext ==
    \/ \E m \in Messages : EmitStep(m)
    \/ LinkStep \/ LosePublisher \/ PublisherExit
=============================================================================
