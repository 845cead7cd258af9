--------------------------- MODULE RabbitConsumer ---------------------------
(***************************************************************************)
(* The connection of a RabbitMQConsumer (integrations/rabbitmq.py: _Link)  *)
(* and the AMQP consumers of its registrations: opening and resuming,      *)
(* losing the channel, recovering with backoff, registering and removing   *)
(* handlers meanwhile, draining and closing.  Everything runs on one event *)
(* loop, so a step is what happens between two awaits.  The broker and     *)
(* aiormq are modelled as the code uses them: an operation on a channel    *)
(* that was lost raises, and the broker forgets the channel's consumers.   *)
(***************************************************************************)
EXTENDS Integers, FiniteSets

CONSTANTS
    Handlers,
    MaxConnections,     \* bound: connections opened in one behaviour
    MaxFaults,          \* bound: channels lost and connections refused
    Reconnects,         \* is there a RabbitMQReconnect
    CloseMayFail,       \* may closing a connection that failed to open raise
    None

Connections == 1..MaxConnections

ASSUME ConsumerAssumption ==
    /\ IsFiniteSet(Handlers) /\ MaxConnections \in Nat /\ MaxFaults \in Nat
    /\ {Reconnects, CloseMayFail} \subseteq BOOLEAN
    /\ None \notin Handlers \cup Connections

VARIABLES
    \* _Link
    state,      \* CLOSED, CONNECTED or RECONNECTING
    current,    \* the connection of _Link.channel, or None
    opening,    \* _open: its step, its connection, the registrations still to start, and
                \*     the one removed while it was started
    recover,    \* the step of the _recover task
    stale,      \* the connection _recover closes first
    cancelled,  \* close() has cancelled the _recover task
    \* RabbitMQConsumer
    context,    \* the step of __aenter__ and __aexit__
    draining,   \* _drain: its channel, the size its walk began with, those it has cancelled
    registered, \* _registrations
    removed,    \* handlers that were registered once and removed
    tag,        \* consumer_tag: the connection it is for, or None
    starting,   \* the _start task of a handler registered while connected
    removing,   \* the connection remove awaits the cancellation on, or None
    crossed,    \* history: the handlers the last _resume has missed the registration or the
                \*     removal of, as it came while it walked over those it had found
    \* the broker
    conn,       \* "none", "open", "lost" (its channel is closed) or "closed"
    consumers,  \* <<h, c>>: h is consumed on connection c
    linkFaults

linkVars == <<state, current, opening, recover, stale, cancelled>>
changes == <<removing, crossed>>
regs == <<registered, removed, tag, starting, changes>>
broker == <<conn, consumers>>
consumerVars == <<linkVars, context, draining, regs, broker, linkFaults>>

NotOpening == [pc |-> "no", conn |-> None, todo |-> {}, late |-> None]
NotDraining == [conn |-> None, size |-> 0, done |-> {}]
NotStarting == [pc |-> "no", conn |-> None]

IsOpen(c) == c # None /\ conn[c] = "open"
Close(c) == conn' = [conn EXCEPT ![c] = "closed"]
Without(c) == {p \in consumers : p[2] # c}
LinkFault == linkFaults < MaxFaults /\ linkFaults' = linkFaults + 1

\* _forget_consumers: pending starts are cancelled, tags cleared.
ForgetConsumers ==
    /\ starting' = [h \in Handlers |-> NotStarting]
    /\ tag' = [h \in Handlers |-> None]

-----------------------------------------------------------------------------
(* Opening: __aenter__ or _recover runs _open, which runs _resume          *)

\* Bound: a connection is left for each fault to come.
OpenLink ==
    /\ context = "out" /\ state = "CLOSED"
    /\ Cardinality({c \in Connections : conn[c] = "none"}) > MaxFaults - linkFaults
    /\ context' = "opening"
    /\ opening' = [opening EXCEPT !.pc = "connect"]
    /\ UNCHANGED <<state, current, recover, stale, cancelled, draining, regs, broker, linkFaults>>

\* Connected, with a channel: _resume takes the registrations there are now.
Connect ==
    /\ opening.pc = "connect" /\ ~cancelled
    /\ \E c \in Connections :
          /\ conn[c] = "none" /\ \A d \in Connections : d < c => conn[d] # "none"
          /\ conn' = [conn EXCEPT ![c] = "open"]
          /\ opening' = [pc |-> "start", conn |-> c, todo |-> registered, late |-> None]
    /\ crossed' = {}
    /\ UNCHANGED <<state, current, recover, stale, cancelled, context, draining, registered,
                   removed, tag, starting, removing, consumers, linkFaults>>

\* _open raised: __aenter__ raises, _recover tries again later.
OpenRaised ==
    /\ opening' = NotOpening
    /\ IF context = "opening"
       THEN context' = "out" /\ ForgetConsumers /\ UNCHANGED recover
       ELSE recover' = "sleep" /\ UNCHANGED <<context, tag, starting>>

Refused ==
    /\ opening.pc = "connect" /\ ~cancelled
    /\ LinkFault
    /\ OpenRaised
    /\ UNCHANGED <<state, current, stale, cancelled, draining, registered, removed, changes,
                   broker>>

\* _start within _resume: a registration removed meanwhile is cancelled again.
ResumeStart(h) ==
    /\ opening.pc = "start" /\ opening.late = None /\ h \in opening.todo
    /\ IsOpen(opening.conn) /\ ~cancelled
    /\ consumers' = consumers \cup {<<h, opening.conn>>}
    /\ opening' = [opening EXCEPT !.todo = @ \ {h},
                                  !.late = IF h \in registered THEN None ELSE h]
    /\ tag' = [tag EXCEPT ![h] = IF h \in registered THEN opening.conn ELSE None]
    /\ UNCHANGED <<state, current, recover, stale, cancelled, context, draining, registered,
                   removed, starting, changes, conn, linkFaults>>

ResumeCancel(h) ==
    /\ opening.pc = "start" /\ opening.late = h
    /\ IsOpen(opening.conn) /\ ~cancelled
    /\ consumers' = consumers \ {<<h, opening.conn>>}
    /\ opening' = [opening EXCEPT !.late = None]
    /\ UNCHANGED <<state, current, recover, stale, cancelled, context, draining, regs, conn,
                   linkFaults>>

\* Mutated form: the channel is published before its registrations are resumed.
Resumed_Early == opening.pc = "start"

Resumed == opening.pc = "start" /\ opening.todo = {} /\ opening.late = None

Opened ==
    /\ Resumed /\ ~cancelled
    /\ current' = opening.conn
    /\ state' = "CONNECTED"
    /\ opening' = NotOpening
    /\ IF context = "opening" THEN context' = "in" /\ UNCHANGED recover
                           ELSE recover' = "none" /\ UNCHANGED context
    /\ UNCHANGED <<stale, cancelled, draining, regs, broker, linkFaults>>

\* A step on a lost channel raises; so does the await the cancellation finds _open at.
OpenFails ==
    /\ opening.pc = "start" /\ (~IsOpen(opening.conn) \/ cancelled)
    /\ opening' = [opening EXCEPT !.pc = "undo"]
    /\ UNCHANGED <<state, current, recover, stale, cancelled, context, draining, regs, broker,
                   linkFaults>>

\* "except BaseException: await connection.close(); raise": a close that raises replaces a
\* cancellation by an Exception, which _recover takes for one more failed attempt.
Undo ==
    /\ opening.pc = "undo"
    /\ Close(opening.conn)
    /\ consumers' = Without(opening.conn)
    /\ \/ /\ cancelled
          /\ opening' = NotOpening
          /\ recover' = "none" /\ cancelled' = FALSE
          /\ UNCHANGED <<context, tag, starting>>
       \/ /\ ~cancelled \/ CloseMayFail
          /\ OpenRaised
          /\ cancelled' = FALSE
    /\ UNCHANGED <<state, current, stale, draining, registered, removed, changes, linkFaults>>

-----------------------------------------------------------------------------
(* Losing the channel and recovering                                       *)

\* The broker or the network closes the channel: its consumers are gone.
Lose(c) ==
    /\ conn[c] = "open"
    /\ LinkFault
    /\ conn' = [conn EXCEPT ![c] = "lost"]
    /\ consumers' = Without(c)
    /\ UNCHANGED <<linkVars, context, draining, regs>>

OnClosed ==
    /\ state = "CONNECTED" /\ ~IsOpen(current)
    /\ current' = None
    /\ stale' = current
    /\ ForgetConsumers
    /\ state' = IF Reconnects THEN "RECONNECTING" ELSE "CLOSED"
    /\ recover' = "new"
    /\ UNCHANGED <<opening, cancelled, context, draining, registered, removed, changes, broker,
                   linkFaults>>

\* Close what is left of the old connection; an exception is suppressed.
RecoverStale ==
    /\ recover = "new" /\ ~cancelled
    /\ Close(stale)
    /\ recover' = IF Reconnects THEN "sleep" ELSE "none"
    /\ UNCHANGED <<state, current, opening, stale, cancelled, context, draining, regs, consumers,
                   linkFaults>>

\* The backoff has passed.
RecoverWake ==
    /\ recover = "sleep" /\ ~cancelled
    /\ recover' = "opening"
    /\ opening' = [opening EXCEPT !.pc = "connect"]
    /\ UNCHANGED <<state, current, stale, cancelled, context, draining, regs, broker, linkFaults>>

\* The cancellation finds the task before its first step, asleep, or connecting.
RecoverCancelled ==
    /\ cancelled
    /\ recover \in {"new", "sleep"} \/ opening.pc = "connect"
    /\ recover' = "none" /\ cancelled' = FALSE
    /\ opening' = NotOpening
    /\ UNCHANGED <<state, current, stale, context, draining, regs, broker, linkFaults>>

-----------------------------------------------------------------------------
(* Handlers                                                                *)

\* handle: started now if connected, otherwise when the link opens.
Register(h) ==
    /\ h \notin registered \cup removed
    /\ registered' = registered \cup {h}
    /\ starting' = IF current = None THEN starting
                   ELSE [starting EXCEPT ![h] = [pc |-> "start", conn |-> current]]
    /\ crossed' = IF opening.pc = "start" THEN crossed \cup {h} ELSE crossed
    /\ UNCHANGED <<linkVars, context, draining, removed, tag, removing, broker, linkFaults>>

\* Mutated form: the handler's removal during the start goes unnoticed.
StillRegistered_Assumed(h) == TRUE

StillRegistered(h) == h \in registered

\* The _start task of one handler; it is cancelled again if it was removed meanwhile.
StartHandler(h) ==
    /\ starting[h].pc = "start" /\ IsOpen(starting[h].conn)
    /\ consumers' = consumers \cup {<<h, starting[h].conn>>}
    /\ tag' = [tag EXCEPT ![h] = IF StillRegistered(h) THEN starting[h].conn ELSE None]
    /\ starting' = [starting EXCEPT ![h] = IF StillRegistered(h) THEN NotStarting
                                           ELSE [@ EXCEPT !.pc = "cancel"]]
    /\ UNCHANGED <<linkVars, context, draining, registered, removed, changes, conn, linkFaults>>

StartCancel(h) ==
    /\ starting[h].pc = "cancel" /\ IsOpen(starting[h].conn)
    /\ consumers' = consumers \ {<<h, starting[h].conn>>}
    /\ starting' = [starting EXCEPT ![h] = NotStarting]
    /\ UNCHANGED <<linkVars, context, draining, registered, removed, tag, changes, conn, linkFaults>>

\* The channel was lost: logged by _discard_start.
StartFails(h) ==
    /\ starting[h].pc # "no" /\ ~IsOpen(starting[h].conn)
    /\ starting' = [starting EXCEPT ![h] = NotStarting]
    /\ UNCHANGED <<linkVars, context, draining, registered, removed, tag, changes, broker,
                   linkFaults>>

\* remove: the registration is taken out at once; if it has a tag and the link a channel, the
\* consumer is then cancelled on that channel.
MustCancel(h) == current # None /\ tag[h] # None
RemoveHandler(h) ==
    /\ h \in registered
    /\ registered' = registered \ {h}
    /\ removed' = removed \cup {h}
    /\ removing' = IF MustCancel(h) THEN [removing EXCEPT ![h] = current] ELSE removing
    /\ crossed' = IF opening.pc = "start" /\ h \notin opening.todo THEN crossed \cup {h}
                  ELSE crossed
    /\ UNCHANGED <<linkVars, context, draining, tag, starting, broker, linkFaults>>

\* basic_cancel returns.
RemoveCancel(h) ==
    /\ removing[h] # None /\ IsOpen(removing[h])
    /\ consumers' = consumers \ {<<h, removing[h]>>}
    /\ tag' = [tag EXCEPT ![h] = None]
    /\ removing' = [removing EXCEPT ![h] = None]
    /\ UNCHANGED <<linkVars, context, draining, registered, removed, starting, crossed, conn,
                   linkFaults>>

\* On a lost channel it raises, and the tag is left.
RemoveFails(h) ==
    /\ removing[h] # None /\ ~IsOpen(removing[h])
    /\ removing' = [removing EXCEPT ![h] = None]
    /\ UNCHANGED <<linkVars, context, draining, registered, removed, tag, starting, crossed,
                   broker, linkFaults>>

-----------------------------------------------------------------------------
(* Leaving: __aexit__                                                      *)

\* _drain keeps the channel it found and walks over the live registrations.
StartDrain ==
    /\ context = "in" /\ current # None
    /\ context' = "draining"
    /\ draining' = [conn |-> current, size |-> Cardinality(registered), done |-> {}]
    /\ UNCHANGED <<linkVars, regs, broker, linkFaults>>

\* One basic_cancel, skipped without a tag.
DrainCancel(h) ==
    /\ context = "draining" /\ h \in registered \ draining.done
    /\ Cardinality(registered) = draining.size
    /\ tag[h] = None \/ (tag[h] = draining.conn /\ IsOpen(tag[h]))
    /\ draining' = [draining EXCEPT !.done = @ \cup {h}]
    /\ consumers' = consumers \ {<<h, tag[h]>>}
    /\ UNCHANGED <<linkVars, context, regs, conn, linkFaults>>

\* All are cancelled, or basic_cancel raised on the lost channel, or the walk did because
\* a handler was registered or removed: now wait for the running handlers.
Drained ==
    /\ context = "draining"
    /\ \/ registered \subseteq draining.done
       \/ Cardinality(registered) # draining.size
       \/ \E h \in registered \ draining.done :
             tag[h] # None /\ ~(tag[h] = draining.conn /\ IsOpen(tag[h]))
    /\ context' = "waiting"
    /\ draining' = NotDraining
    /\ UNCHANGED <<linkVars, regs, broker, linkFaults>>

CloseCurrent ==
    /\ current' = None
    /\ context' = "out"
    /\ IF current = None THEN UNCHANGED broker
       ELSE Close(current) /\ consumers' = Without(current)

\* Mutated form: leaving neither cancels nor awaits the _recover task.
Recovers_Forgotten == FALSE

Recovers == recover # "none"

\* Mutated form: leaving awaits the _recover task without cancelling it.
StopRecovery_Awaited == UNCHANGED cancelled

StopRecovery == cancelled' = TRUE

\* The handlers have ended or drain_timeout has passed, or there was no channel to drain:
\* _forget_consumers and _Link.close, up to the end if no _recover task is to be awaited.
CloseLink ==
    /\ context = "waiting" \/ (context = "in" /\ current = None)
    /\ ForgetConsumers
    /\ state' = "CLOSED"
    /\ IF Recovers
       THEN context' = "closing" /\ StopRecovery /\ UNCHANGED <<current, broker>>
       ELSE CloseCurrent /\ UNCHANGED cancelled
    /\ UNCHANGED <<opening, recover, stale, draining, registered, removed, changes, linkFaults>>

\* The _recover task has ended.
CloseConnection ==
    /\ context = "closing" /\ recover = "none"
    /\ CloseCurrent
    /\ UNCHANGED <<state, opening, recover, stale, cancelled, draining, regs, linkFaults>>

-----------------------------------------------------------------------------
ConsumerInit ==
    /\ state = "CLOSED" /\ current = None
    /\ opening = NotOpening
    /\ recover = "none" /\ stale = None /\ cancelled = FALSE
    /\ context = "out" /\ draining = NotDraining
    /\ registered = {} /\ removed = {}
    /\ tag = [h \in Handlers |-> None]
    /\ starting = [h \in Handlers |-> NotStarting]
    /\ removing = [h \in Handlers |-> None] /\ crossed = {}
    /\ conn = [c \in Connections |-> "none"]
    /\ consumers = {}
    /\ linkFaults = 0

Opening ==
    \/ Opened \/ OpenFails \/ Undo
    \/ \E h \in Handlers : ResumeStart(h) \/ ResumeCancel(h)
Recovering == OnClosed \/ RecoverStale \/ RecoverWake \/ RecoverCancelled
Starting(h) == StartHandler(h) \/ StartCancel(h) \/ StartFails(h)
Removing(h) == RemoveCancel(h) \/ RemoveFails(h)
Draining == Drained \/ \E h \in Handlers : DrainCancel(h)

ConsumerNext ==
    \/ OpenLink \/ Connect \/ Refused \/ Opening \/ Recovering
    \/ StartDrain \/ Draining \/ CloseLink \/ CloseConnection
    \/ \E c \in Connections : Lose(c)
    \/ \E h \in Handlers : Register(h) \/ RemoveHandler(h) \/ Starting(h) \/ Removing(h)

\* The event loop runs every task that can run, drain_timeout passes, and aiormq's calls
\* return or raise.  That the broker accepts a connection is not assumed.
ConsumerFairness ==
    /\ WF_consumerVars(Opening) /\ WF_consumerVars(Recovering)
    /\ WF_consumerVars(Draining) /\ WF_consumerVars(CloseConnection)
    /\ WF_consumerVars(context = "waiting" /\ CloseLink)
    /\ \A h \in Handlers : WF_consumerVars(Starting(h)) /\ WF_consumerVars(Removing(h))

ConsumerSpec == ConsumerInit /\ [][ConsumerNext]_consumerVars /\ ConsumerFairness

-----------------------------------------------------------------------------
(* Properties                                                              *)

\* Type correctness, and the steps that exclude one another: at most one _open is under
\* way, run by __aenter__ or by the _recover task.
ConsumerTypeOK ==
    /\ state \in {"CLOSED", "CONNECTED", "RECONNECTING"}
    /\ current \in Connections \cup {None}
    /\ opening \in [pc : {"no", "connect", "start", "undo"}, conn : Connections \cup {None},
                    todo : SUBSET Handlers, late : Handlers \cup {None}]
    /\ recover \in {"none", "new", "sleep", "opening"}
    /\ stale \in Connections \cup {None}
    /\ cancelled \in BOOLEAN
    /\ context \in {"out", "opening", "in", "draining", "waiting", "closing"}
    /\ draining \in [conn : Connections \cup {None}, size : 0..Cardinality(Handlers),
                     done : SUBSET Handlers]
    /\ registered \subseteq Handlers /\ removed \subseteq Handlers \ registered
    /\ tag \in [Handlers -> Connections \cup {None}]
    /\ starting \in [Handlers -> [pc : {"no", "start", "cancel"}, conn : Connections \cup {None}]]
    /\ removing \in [Handlers -> Connections \cup {None}] /\ crossed \subseteq Handlers
    /\ conn \in [Connections -> {"none", "open", "lost", "closed"}]
    /\ consumers \subseteq Handlers \X Connections
    /\ linkFaults \in 0..MaxFaults
    /\ opening.pc # "no" => (context = "opening" /\ recover # "opening")
                              \/ (context # "opening" /\ recover = "opening")

\* Connected, with nothing being started or removed, the broker delivers to exactly the
\* registered handlers: none was forgotten by a registration, a start, a loss or a resumption
\* that crossed, and none that was removed is still consuming.  The handlers it does not hold
\* for are those the last _resume walked past (rabbitmq.py:1032-1037, 1152-1158, 1174-1190).
ConsumersAreRegistrations ==
    (/\ context = "in" /\ IsOpen(current)
     /\ \A h \in Handlers : starting[h].pc = "no" /\ removing[h] = None) =>
        {h \in Handlers : <<h, current>> \in consumers} \ crossed = registered \ crossed

\* After the context has exited nothing recovers behind its back: the link says CLOSED,
\* no channel is open, and the broker has no consumer of it.
ExitedIsClosed ==
    context = "out" =>
        /\ state = "CLOSED" /\ opening.pc = "no"
        /\ \A c \in Connections : conn[c] # "open"
        /\ consumers = {}

\* With a broker that accepts connections, a registered handler is consumed in the end, over
\* every loss and refused connection, unless it is removed or the context is left, or it was
\* registered while _resume walked over the others.
EventuallyConsumed ==
    WF_consumerVars(Connect) =>
        \A h \in Handlers :
            (context = "in" /\ h \in registered)
                ~> (\/ context # "in" \/ h \notin registered \/ h \in crossed
                    \/ <<h, current>> \in consumers)

\* Leaving ends, in an outage too: it waits neither for a broker that does not answer nor
\* for a backoff.
ExitReturns == (context \in {"draining", "waiting", "closing"}) ~> (context = "out")

\* Once the context has exited no connection is left open, as the docstring of __aexit__ says
\* (rabbitmq.py:1023).  The one whose channel was lost is left behind if the _recover task that
\* is to close it is cancelled before its first step (rabbitmq.py:471).
NothingLeft == context = "out" => \A c \in Connections : conn[c] \in {"none", "closed"}

-----------------------------------------------------------------------------
(* The channels as the deliveries know them                                *)

Used == {c \in Connections : conn[c] # "none"}
SomeOpen == \E c \in Connections : conn[c] = "open"

Channel == INSTANCE ConsumerChannel WITH
               number <- Cardinality(Used), open <- SomeOpen,
               known <- (current # None), consuming <- (consumers # {})

\* Through every loss, recovery and exit there is one channel at a time, each a new one, and
\* the broker has no consumer but on the one that is open (rabbitmq.py:418-430, 432-484).
ImplementsChannel == Channel!ChannelSpec
=============================================================================
