-------------------------- MODULE ConsumerChannel --------------------------
(***************************************************************************)
(* What the deliveries of a RabbitMQConsumer rest on: the channels they    *)
(* come on.  There is one at a time, each has a number of its own, nothing *)
(* is consumed but on the one that is open, and none is opened while the   *)
(* link still holds one.  RabbitConsumer implements it with the            *)
(* connections of _Link, RabbitMessaging with the channel in which it      *)
(* sums them up.                                                           *)
(***************************************************************************)
EXTENDS Naturals

VARIABLES
    number,    \* of the newest channel, 0 before the first
    open,      \* it is open
    known,     \* the link holds it: handlers are started, removed and drained on it
    consuming  \* the broker delivers messages on it

channelVars == <<number, open, known, consuming>>

ChannelInit == number = 0 /\ ~open /\ ~known /\ ~consuming

\* _open: a new channel, on which the registrations are resumed before or after the link
\* holds it.
Open ==
    /\ ~open /\ ~known
    /\ number' = number + 1
    /\ open' = TRUE
    /\ known' \in BOOLEAN /\ consuming' \in BOOLEAN

\* Opened; whether the channel was lost by then shows only in its closing future.
Hold ==
    /\ ~known /\ number > 0
    /\ known' = TRUE
    /\ UNCHANGED <<number, open, consuming>>

\* Handlers are started and removed, and the context is drained.
Change ==
    /\ open
    /\ consuming' \in BOOLEAN
    /\ UNCHANGED <<number, open, known>>

\* Lost to the network or closed: nothing is consumed on it any more.
Shut ==
    /\ open
    /\ open' = FALSE /\ consuming' = FALSE
    /\ known' \in {known, FALSE}
    /\ UNCHANGED number

\* The link drops a channel that is gone.
Drop ==
    /\ known /\ ~open
    /\ known' = FALSE
    /\ UNCHANGED <<number, open, consuming>>

ChannelNext == Open \/ Hold \/ Change \/ Shut \/ Drop

ChannelSpec == ChannelInit /\ [][ChannelNext]_channelVars
=============================================================================
